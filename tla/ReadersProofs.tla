---------------------------- MODULE ReadersProofs ----------------------------
(***************************************************************************)
(* Theorems about the two components that read an upstream part by part    *)
(* and answer when the parts are together: MarketFeeds, for any number of  *)
(* requests, coins, days, chunks and times to live, and RepoScan, for any  *)
(* repository, quota, window and page.                                     *)
(***************************************************************************)
EXTENDS MarketFeeds, RepoScan, FiniteSetTheorems, TLAPS

\* Division by the length of a day or of a window keeps the order.
LEMMA WindowsGrow ==
  ASSUME NEW a \in Nat, NEW b \in Nat, NEW w \in Nat \ {0}
  PROVE  /\ a \div w \in Nat
         /\ a <= b => a \div w <= b \div w
         /\ a + w <= b => a \div w + 1 <= b \div w
  <1> DEFINE p == a \div w
             q == b \div w
  <1>1. p \in Nat /\ q \in Nat
    OBVIOUS
  <1>2. /\ w * p <= a /\ a < w * p + w
        /\ w * q <= b /\ b < w * q + w
    OBVIOUS
  <1> HIDE DEF p, q
  <1>3. ASSUME a <= b, p > q PROVE FALSE
    <2>1. w * p >= w * (q + 1)
      BY <1>1, <1>3
    <2>2. w * (q + 1) = w * q + w
      BY <1>1
    <2> QED
      BY <1>1, <1>2, <1>3, <2>1, <2>2
  <1>4. ASSUME a + w <= b, p + 1 > q PROVE FALSE
    <2>1. w * p >= w * q
      BY <1>1, <1>4
    <2> QED
      BY <1>1, <1>2, <1>4, <2>1
  <1> QED
    BY <1>1, <1>3, <1>4 DEF p, q

-----------------------------------------------------------------------------
(* MarketFeeds: what a cached value is worth follows from what its reader  *)
(* knew: nothing in a draft was read before the request looked into the    *)
(* cache, and a list taken from the cache had not expired by then.         *)

Shaped(v) == v \in [from : 0..LastTick, list : 0..LastTick, parts : {v.parts}]
Stages == {"idle", "gate", "handler", "reading", "answered", "failed"}

\* The part of TypeOK that concerns times.
Typed ==
    /\ clock \in 0..LastTick
    /\ DOMAIN cache = Keys
    /\ \A k \in Keys : cache[k].expires \in Int /\ Shaped(cache[k].value)
    /\ stage \in [Requests -> Stages]
    /\ feed \in [Requests -> Feeds]
    /\ began \in [Requests -> 0..LastTick]
    /\ listing \in [Requests -> BOOLEAN]
    /\ DOMAIN draft = Requests /\ DOMAIN reply = Requests
    /\ \A r \in Requests : Shaped(draft[r]) /\ Shaped(reply[r])

\* No entry outlives what was read for it.
SoundCache ==
    /\ \A f \in Feeds : cache[f].expires <= cache[f].value.from + TTL(f)
    /\ cache["snapshot"].expires <= cache["snapshot"].value.list + ListTTL + PriceTTL
    /\ cache["products"].expires <= cache["products"].value.list + ListTTL

\* What a request has read is as young as the request itself, apart from a list
\* that the cache still held when it began.
SoundDrafts ==
    \A r \in Requests :
        /\ began[r] <= clock
        /\ stage[r] = "reading" =>
            draft[r].from >= began[r] /\ draft[r].list + ListTTL > began[r]

FeedInv == Typed /\ SoundCache /\ SoundDrafts /\ FreshAnswers

LEMMA TTLType == \A k \in Keys : TTL(k) \in Nat \ {0}
  BY SizeAssumption DEF Keys, Feeds, TTL

LEMMA NothingFacts == Shaped(Nothing) /\ Nothing.from = LastTick /\ Nothing.list = LastTick
  BY SizeAssumption DEF Nothing, Shaped

LEMMA WithFacts ==
  ASSUME NEW v, Shaped(v), NEW parts, clock \in 0..LastTick
  PROVE  /\ Shaped(With(v, parts))
         /\ With(v, parts).from = Least(v.from, clock)
         /\ With(v, parts).list = v.list
  <1> DEFINE p == [n \in DOMAIN parts \cup DOMAIN v.parts |->
                      IF n \in DOMAIN parts THEN parts[n] ELSE v.parts[n]]
             g == Least(v.from, clock)
             w == [v EXCEPT !.from = g, !.parts = p]
  <1>1. With(v, parts) = w
    BY DEF With
  <1>2. g \in 0..LastTick
    BY SizeAssumption DEF Shaped, Least
  <1>3. v \in [from : 0..LastTick, list : 0..LastTick, parts : {v.parts, p}]
    BY DEF Shaped
  <1> HIDE DEF p, g
  <1>4. /\ w \in [from : 0..LastTick, list : 0..LastTick, parts : {v.parts, p}]
        /\ w.from = g /\ w.list = v.list
    BY <1>2, <1>3
  <1>5. w \in [from : 0..LastTick, list : 0..LastTick, parts : {w.parts}]
    BY <1>4
  <1> QED
    BY <1>1, <1>4, <1>5 DEF Shaped, g

LEMMA InitFeedInv == Init => FeedInv
  <1> SUFFICES ASSUME Init PROVE FeedInv
    OBVIOUS
  <1>1. Typed
    BY NothingFacts, SizeAssumption DEF Init, Typed, Keys, Stages
  <1>2. SoundCache
    BY NothingFacts, TTLType, SizeAssumption DEF Init, SoundCache, Keys, Feeds
  <1>3. SoundDrafts /\ FreshAnswers
    BY DEF Init, SoundDrafts, FreshAnswers
  <1> QED
    BY <1>1, <1>2, <1>3 DEF FeedInv

\* A step that leaves the cache and the answers alone.
LEMMA ReadOn ==
  ASSUME FeedInv, Typed', UNCHANGED <<cache, clock, feed, began, reply>>,
         NEW r \in Requests,
         \A q \in Requests \ {r} : stage'[q] = stage[q] /\ draft'[q] = draft[q],
         stage'[r] \in {stage[r], "failed"},
         stage'[r] = "reading" =>
            draft'[r].from >= began[r] /\ draft'[r].list + ListTTL > began[r]
  PROVE  FeedInv'
  <1>1. SoundCache'
    BY DEF FeedInv, SoundCache, TTL
  <1>2. SoundDrafts' /\ FreshAnswers'
    BY DEF FeedInv, SoundDrafts, FreshAnswers, TTL
  <1> QED
    BY <1>1, <1>2 DEF FeedInv

LEMMA AnswerInv ==
  ASSUME FeedInv, NEW r \in Requests, stage[r] = "reading", NEW v, Shaped(v),
         v.from >= began[r], v.list + ListTTL > began[r],
         Answer(r, v), Kept, UNCHANGED listing
  PROVE  FeedInv'
  <1> USE DEF FeedInv
  <1> DEFINE f == feed[r]
  <1>1. f \in Feeds /\ f \in Keys /\ f # "products"
    BY DEF Typed, Keys, Feeds
  <1>2. /\ cache'[f] = [expires |-> began[r] + TTL(f), value |-> v]
        /\ \A k \in Keys \ {f} : cache'[k] = cache[k]
        /\ DOMAIN cache' = Keys
    BY <1>1 DEF Answer, Expiry, Typed
  <1>3. /\ stage'[r] = "answered" /\ reply'[r] = v
        /\ \A q \in Requests \ {r} : stage'[q] = stage[q] /\ reply'[q] = reply[q]
                                      /\ draft'[q] = draft[q]
        /\ draft'[r] = Nothing
        /\ stage' \in [Requests -> Stages]
        /\ DOMAIN draft' = Requests /\ DOMAIN reply' = Requests
    BY DEF Answer, Leave, Typed, Stages
  <1>4. began[r] \in Nat /\ v.from \in Nat /\ v.list \in Nat /\ TTL(f) \in Nat \ {0}
        /\ ListTTL \in Nat /\ PriceTTL \in Nat
    BY <1>1, TTLType, SizeAssumption DEF Typed, Shaped
  <1>5. Typed'
    <2>1. \A k \in Keys : cache'[k].expires \in Int /\ Shaped(cache'[k].value)
      BY <1>2, <1>4 DEF Typed
    <2>2. \A q \in Requests : Shaped(draft'[q]) /\ Shaped(reply'[q])
      BY <1>3, NothingFacts DEF Typed
    <2> QED
      BY <1>2, <1>3, <2>1, <2>2 DEF Typed, Kept
  <1>6. SoundCache'
    <2>1. \A g \in Feeds : cache'[g].expires <= cache'[g].value.from + TTL(g)
      BY <1>1, <1>2, <1>4 DEF SoundCache, Keys
    <2>2. cache'["products"].expires <= cache'["products"].value.list + ListTTL
      BY <1>1, <1>2 DEF SoundCache, Keys
    <2>3. cache'["snapshot"].expires <= cache'["snapshot"].value.list + ListTTL + PriceTTL
      <3>1. CASE f = "snapshot"
        BY <3>1, <1>2, <1>4 DEF TTL
      <3>2. CASE f # "snapshot"
        BY <3>2, <1>2 DEF SoundCache, Keys, Feeds
      <3> QED
        BY <3>1, <3>2
    <2> QED
      BY <2>1, <2>2, <2>3 DEF SoundCache, TTL
  <1>7. SoundDrafts'
    BY <1>3 DEF SoundDrafts, Kept
  <1>8. FreshAnswers'
    <2>1. v.from + TTL(f) > began[r] /\ v.list + ListTTL + PriceTTL > began[r]
      BY <1>4
    <2> QED
      BY <2>1, <1>3 DEF FreshAnswers, Kept, TTL
  <1> QED
    BY <1>5, <1>6, <1>7, <1>8

\* One more read leaves a draft as young as it was.
LEMMA DraftGrows ==
  ASSUME FeedInv, NEW r \in Requests, stage[r] = "reading", NEW parts
  PROVE  LET v == With(draft[r], parts) IN
         Shaped(v) /\ v.from >= began[r] /\ v.list + ListTTL > began[r]
  <1>1. Shaped(draft[r]) /\ clock \in 0..LastTick
    BY DEF FeedInv, Typed
  <1>2. /\ began[r] \in Nat /\ clock \in Nat /\ draft[r].from \in Nat
        /\ began[r] <= clock /\ draft[r].from >= began[r]
        /\ draft[r].list + ListTTL > began[r]
    BY <1>1, SizeAssumption DEF FeedInv, Typed, SoundDrafts, Shaped
  <1>3. Least(draft[r].from, clock) >= began[r]
    BY <1>2 DEF Least
  <1> QED
    BY <1>1, <1>2, <1>3, WithFacts

LEMMA ProceedInv ==
  ASSUME FeedInv, NEW r \in Requests, stage[r] = "reading", NEW parts,
         NEW index, NEW items, Proceed(r, With(draft[r], parts), index, items),
         Kept, UNCHANGED listing
  PROVE  FeedInv'
  <1> DEFINE v == With(draft[r], parts)
  <1>1. Shaped(v) /\ v.from >= began[r] /\ v.list + ListTTL > began[r]
    BY DraftGrows
  <1>2. /\ draft'[r] = v /\ \A q \in Requests \ {r} : draft'[q] = draft[q]
        /\ DOMAIN draft' = Requests
        /\ UNCHANGED <<stage, reply, cache, clock, feed, began, listing>>
    BY DEF Proceed, Kept, FeedInv, Typed
  <1> HIDE DEF v
  <1>3. Typed'
    BY <1>1, <1>2 DEF FeedInv, Typed
  <1> QED
    BY <1>1, <1>2, <1>3, ReadOn

LEMMA ThrowInv ==
  ASSUME FeedInv, NEW r \in Requests, Throw(r), Kept, UNCHANGED listing
  PROVE  FeedInv'
  <1>1. /\ stage'[r] = "failed" /\ draft'[r] = Nothing
        /\ \A q \in Requests \ {r} : stage'[q] = stage[q] /\ draft'[q] = draft[q]
        /\ stage' \in [Requests -> Stages] /\ DOMAIN draft' = Requests
        /\ UNCHANGED <<reply, cache, clock, feed, began, listing>>
    BY DEF Throw, Leave, Kept, FeedInv, Typed, Stages
  <1>2. Typed'
    BY <1>1, NothingFacts DEF FeedInv, Typed
  <1> QED
    BY <1>1, <1>2, ReadOn

LEMMA GateInv ==
  ASSUME FeedInv, \/ Tick \/ InitSucceeds \/ InitFails
                  \/ \E r \in Requests, paid \in BOOLEAN : Arrive(r, paid)
  PROVE  FeedInv'
  <1> USE DEF FeedInv
  <1>1. CASE Tick
    <2>1. Typed'
      BY <1>1, SizeAssumption DEF Tick, Typed, request, Shaped
    <2>2. SoundCache'
      BY <1>1 DEF Tick, SoundCache, TTL
    <2>3. SoundDrafts'
      <3>1. clock' >= clock /\ clock \in Int /\ clock' \in Int /\ \A r \in Requests : began[r] \in Int
        BY <1>1, SizeAssumption DEF Tick, Typed
      <3> QED
        BY <1>1, <3>1 DEF Tick, SoundDrafts, request
    <2>4. FreshAnswers'
      BY <1>1 DEF Tick, FreshAnswers, request, TTL
    <2> QED
      BY <2>1, <2>2, <2>3, <2>4
  <1>2. ASSUME NEW to \in {"handler", "failed"}, Resume(to) PROVE FeedInv'
    <2>1. /\ stage' \in [Requests -> Stages]
          /\ \A r \in Requests : stage'[r] \in {stage[r], "handler", "failed"}
          /\ UNCHANGED <<clock, cache, feed, began, draft, listing, reply>>
      BY <1>2 DEF Resume, Typed, Stages
    <2>2. Typed'
      BY <2>1 DEF Typed
    <2>3. SoundCache' /\ SoundDrafts' /\ FreshAnswers'
      BY <2>1 DEF SoundCache, SoundDrafts, FreshAnswers, TTL
    <2> QED
      BY <2>2, <2>3
  <1>3. ASSUME NEW r \in Requests, NEW paid \in BOOLEAN, Arrive(r, paid) PROVE FeedInv'
    <2>1. /\ stage' \in [Requests -> Stages] /\ stage'[r] \in {"handler", "gate", "failed"}
          /\ began' \in [Requests -> 0..LastTick] /\ began'[r] = 0
          /\ DOMAIN reply' = Requests /\ reply'[r] = Nothing
          /\ \A q \in Requests \ {r} : /\ stage'[q] = stage[q] /\ began'[q] = began[q]
                                        /\ reply'[q] = reply[q]
          /\ UNCHANGED <<clock, cache, feed, draft, listing>>
      BY <1>3, SizeAssumption DEF Arrive, Typed, Stages
    <2>2. Typed'
      BY <2>1, NothingFacts DEF Typed
    <2>3. SoundCache'
      BY <2>1 DEF SoundCache, TTL
    <2>4. SoundDrafts'
      <3>1. 0 <= clock
        BY SizeAssumption DEF Typed
      <3> QED
        BY <2>1, <3>1 DEF SoundDrafts
    <2>5. FreshAnswers'
      BY <2>1 DEF FreshAnswers, TTL
    <2> QED
      BY <2>2, <2>3, <2>4, <2>5
  <1> QED
    BY <1>1, <1>2, <1>3 DEF InitSucceeds, InitFails

LEMMA LookupInv ==
  ASSUME FeedInv, NEW r \in Requests, Lookup(r)
  PROVE  FeedInv'
  <1> USE DEF FeedInv
  <1>1. /\ began' \in [Requests -> 0..LastTick] /\ began'[r] = clock
        /\ \A q \in Requests \ {r} : began'[q] = began[q]
        /\ UNCHANGED <<clock, cache, feed>>
        /\ feed[r] \in Feeds /\ feed[r] \in Keys /\ "products" \in Keys
    BY DEF Lookup, Typed, Keys, Feeds
  <1>2. SoundCache'
    BY <1>1 DEF SoundCache, TTL
  <1>3. CASE Hit(feed[r])
    <2> DEFINE v == cache[feed[r]].value
    <2>1. /\ stage' \in [Requests -> Stages] /\ stage'[r] = "answered"
          /\ DOMAIN reply' = Requests /\ reply'[r] = v
          /\ \A q \in Requests \ {r} : stage'[q] = stage[q] /\ reply'[q] = reply[q]
          /\ UNCHANGED <<draft, listing>>
      BY <1>3 DEF Lookup, Typed, Stages
    <2>2. Shaped(v) /\ clock \in Nat /\ v.from \in Nat /\ v.list \in Nat
          /\ cache[feed[r]].expires \in Int /\ TTL(feed[r]) \in Nat
          /\ ListTTL \in Nat /\ PriceTTL \in Nat
      BY <1>1, TTLType, SizeAssumption DEF Typed, Shaped
    <2>3. /\ v.from + TTL(feed[r]) > clock
          /\ feed[r] = "snapshot" => v.list + ListTTL + PriceTTL > clock
      BY <1>1, <1>3, <2>2 DEF Hit, SoundCache
    <2>4. Typed'
      BY <1>1, <2>1, <2>2 DEF Typed
    <2> HIDE DEF v
    <2>5. SoundDrafts'
      <3>1. clock <= clock
        BY <2>2
      <3> QED
        BY <1>1, <2>1, <3>1 DEF SoundDrafts
    <2>6. FreshAnswers'
      BY <1>1, <2>1, <2>3 DEF FreshAnswers, TTL
    <2> QED
      BY <1>2, <2>4, <2>5, <2>6
  <1>4. CASE ~Hit(feed[r])
    <2> DEFINE v == IF feed[r] = "snapshot" /\ Hit("products")
                    THEN [cache["products"].value EXCEPT !.from = LastTick]
                    ELSE Nothing
    <2>1. /\ stage' \in [Requests -> Stages] /\ stage'[r] = "reading"
          /\ DOMAIN draft' = Requests /\ draft'[r] = v
          /\ listing' \in [Requests -> BOOLEAN]
          /\ \A q \in Requests \ {r} : stage'[q] = stage[q] /\ draft'[q] = draft[q]
          /\ UNCHANGED reply
      BY <1>4 DEF Lookup, Typed, Stages
    <2>2. Shaped(v) /\ v.from = LastTick /\ v.list + ListTTL > clock
      <3>1. CASE feed[r] = "snapshot" /\ Hit("products")
        <4> DEFINE c == cache["products"].value
        <4>1. Shaped(c) /\ cache["products"].expires > clock
          BY <1>1, <3>1 DEF Hit, Typed
        <4>2. c.list + ListTTL > clock
          BY <1>1, <4>1, SizeAssumption DEF SoundCache, Typed, Shaped
        <4> HIDE DEF c
        <4>3. /\ [c EXCEPT !.from = LastTick]
                    \in [from : 0..LastTick, list : 0..LastTick, parts : {c.parts}]
              /\ [c EXCEPT !.from = LastTick].from = LastTick
              /\ [c EXCEPT !.from = LastTick].list = c.list
              /\ [c EXCEPT !.from = LastTick].parts = c.parts
          BY <4>1, SizeAssumption DEF Shaped
        <4>4. v = [c EXCEPT !.from = LastTick]
          BY <3>1 DEF c
        <4> QED
          BY <4>2, <4>3, <4>4 DEF Shaped
      <3>2. CASE ~(feed[r] = "snapshot" /\ Hit("products"))
        BY <3>2, NothingFacts, SizeAssumption DEF Typed
      <3> QED
        BY <3>1, <3>2
    <2> HIDE DEF v
    <2>3. Typed'
      BY <1>1, <2>1, <2>2 DEF Typed
    <2>4. LastTick >= clock
      BY SizeAssumption DEF Typed
    <2>5. SoundDrafts'
      <3>1. clock <= clock
        BY SizeAssumption DEF Typed
      <3> QED
        BY <1>1, <2>1, <2>2, <2>4, <3>1 DEF SoundDrafts
    <2>6. FreshAnswers'
      BY <1>1, <2>1 DEF FreshAnswers, TTL
    <2> QED
      BY <1>2, <2>3, <2>5, <2>6
  <1> QED
    BY <1>3, <1>4

\* The list of products is cached on its own, also for a request that failed.
LEMMA ReadProductsInv ==
  ASSUME FeedInv, NEW r \in Requests, ReadProducts(r)
  PROVE  FeedInv'
  <1> USE DEF FeedInv
  <1> DEFINE parts == Part(Products, "data")
             read == [With(Nothing, parts) EXCEPT !.list = clock]
             v == [With(draft[r], parts) EXCEPT !.list = clock]
  <1>1. /\ clock \in Nat /\ clock \in 0..LastTick /\ began[r] \in Nat /\ began[r] <= clock
        /\ ListTTL \in Nat \ {0} /\ listing' \in [Requests -> BOOLEAN]
        /\ UNCHANGED <<clock, feed, began>>
    BY SizeAssumption DEF ReadProducts, Kept, Typed, SoundDrafts
  <1>2. ASSUME NEW d, Shaped(d)
        PROVE  LET w == [With(d, parts) EXCEPT !.list = clock] IN
               Shaped(w) /\ w.list = clock /\ w.from = With(d, parts).from
    <2> DEFINE u == With(d, parts)
    <2>1. Shaped(u)
      BY <1>1, <1>2, WithFacts
    <2> HIDE DEF u
    <2>2. /\ [u EXCEPT !.list = clock]
                \in [from : 0..LastTick, list : 0..LastTick, parts : {u.parts}]
          /\ [u EXCEPT !.list = clock].list = clock
          /\ [u EXCEPT !.list = clock].from = u.from
          /\ [u EXCEPT !.list = clock].parts = u.parts
      BY <1>1, <2>1 DEF Shaped
    <2>3. Shaped([u EXCEPT !.list = clock])
      BY <2>2 DEF Shaped
    <2> QED
      BY <2>2, <2>3 DEF u
  <1>3. Shaped(read) /\ read.list = clock
    BY <1>2, NothingFacts
  <1>4. stage[r] = "reading" =>
          Shaped(v) /\ v.from >= began[r] /\ v.list + ListTTL > began[r]
    <2>1. Shaped(v) /\ v.list = clock /\ v.from = With(draft[r], parts).from
      BY <1>2 DEF Typed
    <2>2. stage[r] = "reading" => With(draft[r], parts).from >= began[r]
      BY DraftGrows
    <2> HIDE DEF v, parts
    <2> QED
      BY <1>1, <2>1, <2>2
  <1> HIDE DEF read, v, parts
  <1>5. CASE /\ cache' = [cache EXCEPT !["products"] =
                             [expires |-> Expiry(r, "products"), value |-> read]]
             /\ IF stage[r] = "reading" THEN Join(r, v) ELSE UNCHANGED <<draft, busy, next>>
             /\ UNCHANGED <<stage, reply>>
    <2>1. /\ DOMAIN cache' = Keys
          /\ cache'["products"] = [expires |-> began[r] + ListTTL, value |-> read]
          /\ \A k \in Feeds : cache'[k] = cache[k] /\ k \in Keys
      BY <1>5 DEF Typed, Keys, Feeds, Expiry, TTL
    <2>2. /\ DOMAIN draft' = Requests
          /\ \A q \in Requests \ {r} : draft'[q] = draft[q]
          /\ draft'[r] = IF stage[r] = "reading" THEN v ELSE draft[r]
      BY <1>5 DEF Typed, Join
    <2>3. Typed'
      <3>1. began[r] + ListTTL \in Int
        BY <1>1
      <3>2. \A k \in Keys : cache'[k].expires \in Int /\ Shaped(cache'[k].value)
        BY <1>3, <2>1, <3>1 DEF Typed, Keys
      <3>3. \A q \in Requests : Shaped(draft'[q])
        BY <1>4, <2>2 DEF Typed
      <3> QED
        BY <1>1, <1>5, <2>1, <2>2, <3>2, <3>3 DEF Typed
    <2>4. SoundCache'
      <3>1. began[r] + ListTTL <= read.list + ListTTL
        BY <1>1, <1>3
      <3> QED
        BY <2>1, <3>1 DEF SoundCache, TTL, Feeds
    <2>5. SoundDrafts'
      BY <1>1, <1>4, <1>5, <2>2 DEF SoundDrafts
    <2>6. FreshAnswers'
      BY <1>1, <1>5 DEF FreshAnswers, TTL
    <2> QED
      BY <2>3, <2>4, <2>5, <2>6
  <1>6. CASE stage[r] = "reading" /\ Throw(r)
    <2>1. /\ stage'[r] = "failed" /\ draft'[r] = Nothing
          /\ \A q \in Requests \ {r} : stage'[q] = stage[q] /\ draft'[q] = draft[q]
          /\ stage' \in [Requests -> Stages] /\ DOMAIN draft' = Requests
          /\ UNCHANGED <<reply, cache>>
      BY <1>6 DEF Throw, Leave, Typed, Stages
    <2>2. Typed'
      BY <1>1, <2>1, NothingFacts DEF Typed
    <2> QED
      BY <1>1, <2>1, <2>2, ReadOn
  <1>7. CASE UNCHANGED <<stage, draft, busy, next, reply, cache>>
    <2>1. Typed'
      BY <1>1, <1>7 DEF Typed
    <2>2. SoundCache' /\ SoundDrafts' /\ FreshAnswers'
      BY <1>1, <1>7 DEF SoundCache, SoundDrafts, FreshAnswers, TTL
    <2> QED
      BY <2>1, <2>2
  <1> QED
    BY <1>5, <1>6, <1>7 DEF ReadProducts, read, v, parts

LEMMA ReadingInv ==
  ASSUME FeedInv, NEW r \in Requests,
         \/ ReadMarkets(r) \/ (\E i \in 1..Coins : Quote(r, i))
         \/ ReadChunk(r) \/ ReadRepository(r) \/ (\E name \in Details : ReadDetail(r, name))
  PROVE  FeedInv'
  <1>1. CASE ReadMarkets(r)
    <2>1. stage[r] = "reading" /\ Kept /\ UNCHANGED listing
      BY <1>1 DEF ReadMarkets, Reading
    <2>2. ASSUME Join(r, With(draft[r], Part(Markets, "data"))), UNCHANGED <<stage, reply, cache>>
          PROVE  FeedInv'
      <3>1. \E index, items : Proceed(r, With(draft[r], Part(Markets, "data")), index, items)
        BY <2>2 DEF Join, Proceed
      <3> QED
        BY <2>1, <3>1, ProceedInv
    <2> QED
      BY <1>1, <2>1, <2>2, ThrowInv DEF ReadMarkets
  <1>2. ASSUME NEW parts, NEW index, NEW items, stage[r] = "reading", Kept, UNCHANGED listing,
               \/ Answer(r, With(draft[r], parts))
               \/ Proceed(r, With(draft[r], parts), index, items)
        PROVE  FeedInv'
    BY <1>2, DraftGrows, AnswerInv, ProceedInv
  <1>3. ASSUME NEW i \in 1..Coins, Quote(r, i) PROVE FeedInv'
    BY <1>3, <1>2 DEF Quote, Reading
  <1>4. CASE ReadChunk(r)
    BY <1>4, <1>2, ThrowInv DEF ReadChunk, Reading
  <1>5. CASE ReadRepository(r)
    BY <1>5, <1>2, ThrowInv DEF ReadRepository, Reading
  <1>6. ASSUME NEW name \in Details, ReadDetail(r, name) PROVE FeedInv'
    BY <1>6, <1>2, ThrowInv DEF ReadDetail, Reading
  <1> QED
    BY <1>1, <1>3, <1>4, <1>5, <1>6

LEMMA FeedStep == FeedInv /\ [Next]_vars => FeedInv'
  <1> SUFFICES ASSUME FeedInv, [Next]_vars PROVE FeedInv'
    OBVIOUS
  <1>1. CASE Next
    BY <1>1, GateInv, LookupInv, ReadProductsInv, ReadingInv DEF Next
  <1>2. CASE UNCHANGED vars
    BY <1>2 DEF vars, request, FeedInv, Typed, SoundCache, SoundDrafts, FreshAnswers, Shaped, TTL
  <1> QED
    BY <1>1, <1>2

\* No answer holds anything read longer ago than its time to live.
THEOREM FreshAnswersAlways == Spec => []FreshAnswers
  <1>1. FeedInv => FreshAnswers
    BY DEF FeedInv
  <1> QED
    BY InitFeedInv, FeedStep, <1>1, PTL DEF Spec

-----------------------------------------------------------------------------
(* MarketFeeds: the parts. Between its first read and its answer a request *)
(* keeps account of what it still needs: the rows its pool has not begun   *)
(* or still waits for, the days behind its cursor, the details it has      *)
(* asked for. A value leaves a draft, for the cache and the answer, only   *)
(* when the account is settled.                                            *)

\* What an answer to a request for feed f must be.
Whole(f, v) ==
    /\ f = "snapshot" => WholeSnapshot(v)
    /\ f = "candles" => WholeCandles(v)
    /\ f = "repo" => WholeRepository(v)

\* Whatever was put into the cache is whole.
WholeCache ==
    /\ \A f \in Feeds : cache[f].expires > 0 => Whole(f, cache[f].value.parts)
    /\ cache["products"].expires > 0 => DOMAIN cache["products"].value.parts = {Products}

\* The pool of a snapshot, n its next item: every row before that is there,
\* except those its workers hold.
Done(n, held) == (1..(n - 1)) \ held
Rowed(v, done) ==
    /\ DOMAIN v = {Markets, Products} \cup {Row(i) : i \in done}
    /\ \A i \in done : v[Row(i)] \in {0} \cup ({i} \cap Listed)
Pooled(v, n, held, waiting) ==
    IF {Markets, Products} \subseteq DOMAIN v
    THEN /\ ~waiting
         /\ n \in 1..(Coins + 1) /\ held # {} /\ held \subseteq 1..(n - 1)
         /\ Rowed(v, Done(n, held))
    ELSE /\ DOMAIN v \subseteq {Markets, Products} /\ held = {}
         /\ Products \in DOMAIN v => ~waiting

\* The chunks of the candles up to the day `end`: the days before the cursor,
\* and perhaps its own.
Chunked(v, cursor, end) ==
    /\ cursor \in (end - Days)..(end - 1)
    /\ {DayOf(d) : d \in (end - Days)..(cursor - 1)} \subseteq DOMAIN v
    /\ DOMAIN v \subseteq {DayOf(d) : d \in (end - Days)..cursor}
    /\ \A n \in DOMAIN v : v[n] = "closed"

\* The details of a repository, after its own record.
Detailed(v) ==
    /\ DOMAIN v \subseteq {Repository} \cup (Details \X {0})
    /\ DOMAIN v # {} => Repository \in DOMAIN v
    /\ \A n \in Optional :
          <<n, 0>> \in DOMAIN v => v[<<n, 0>>] \in {"200"} \cup Missing

WholeDraft(r) ==
    /\ listing[r] => feed[r] = "snapshot"
    /\ stage[r] # "reading" => busy[r] = {}
    /\ stage[r] = "reading" =>
          /\ feed[r] = "snapshot" => Pooled(draft[r].parts, next[r], busy[r], listing[r])
          /\ feed[r] = "candles" => Chunked(draft[r].parts, next[r], Day(began[r]))
          /\ feed[r] = "repo" => Detailed(draft[r].parts)
WholeAnswer(r) == stage[r] = "answered" => Whole(feed[r], reply[r].parts)

PartsInv ==
    /\ DOMAIN next = Requests /\ DOMAIN busy = Requests
    /\ WholeCache
    /\ \A r \in Requests : WholeDraft(r) /\ WholeAnswer(r)

\* What a request is working on stays as it is.
Still(q) ==
    /\ stage'[q] = stage[q] /\ began'[q] = began[q] /\ draft'[q] = draft[q]
    /\ next'[q] = next[q] /\ busy'[q] = busy[q] /\ listing'[q] = listing[q]
    /\ reply'[q] = reply[q]

LEMMA DayFacts ==
  ASSUME NEW a \in Nat, NEW b \in Nat, a <= b
  PROVE  Day(a) \in Nat /\ Day(b) \in Nat /\ Day(a) <= Day(b)
  <1>1. Days \in Nat /\ DayLength \in Nat \ {0}
    BY SizeAssumption
  <1>2. a \div DayLength \in Nat /\ b \div DayLength \in Nat
        /\ a \div DayLength <= b \div DayLength
    BY <1>1, WindowsGrow
  <1> DEFINE p == a \div DayLength
             q == b \div DayLength
  <1> HIDE DEF p, q
  <1>3. Days + p \in Nat /\ Days + q \in Nat /\ Days + p <= Days + q
    BY <1>1, <1>2 DEF p, q
  <1> QED
    BY <1>3 DEF Day, p, q

\* The clock only adds days to the range that an answer may cover.
LEMMA WholeStays ==
  ASSUME clock \in Nat, clock' \in Nat, clock <= clock'
  PROVE  \A f, v : Whole(f, v) => Whole(f, v)'
  <1>1. \A end : end \in 0..Day(clock) => end \in 0..Day(clock')
    <2>1. Day(clock) \in Nat /\ Day(clock') \in Nat /\ Day(clock) <= Day(clock')
      BY DayFacts
    <2> QED
      BY <2>1
  <1>2. ASSUME NEW v, WholeCandles(v) PROVE WholeCandles(v)'
    BY <1>1, <1>2 DEF WholeCandles
  <1>3. \A v : (WholeSnapshot(v) => WholeSnapshot(v)') /\ (WholeRepository(v) => WholeRepository(v)')
    BY DEF WholeSnapshot, WholeRepository
  <1> QED
    BY <1>2, <1>3 DEF Whole

LEMMA WithParts ==
  ASSUME NEW v, Shaped(v), NEW parts
  PROVE  LET w == With(v, parts).parts IN
         /\ DOMAIN w = DOMAIN parts \cup DOMAIN v.parts
         /\ \A n \in DOMAIN parts : w[n] = parts[n]
         /\ \A n \in DOMAIN v.parts \ DOMAIN parts : w[n] = v.parts[n]
  <1> DEFINE g == Least(v.from, clock)
             p == [n \in DOMAIN parts \cup DOMAIN v.parts |->
                      IF n \in DOMAIN parts THEN parts[n] ELSE v.parts[n]]
             w == [v EXCEPT !.from = g, !.parts = p]
  <1>1. With(v, parts) = w
    BY DEF With
  <1>2. v \in [from : 0..LastTick, list : 0..LastTick, parts : {v.parts}]
    BY DEF Shaped
  <1>3. /\ DOMAIN p = DOMAIN parts \cup DOMAIN v.parts
        /\ \A n \in DOMAIN parts : p[n] = parts[n]
        /\ \A n \in DOMAIN v.parts \ DOMAIN parts : p[n] = v.parts[n]
    OBVIOUS
  <1> HIDE DEF p, g
  <1>4. w.parts = p
    BY <1>2
  <1> QED
    BY <1>1, <1>3, <1>4

\* One part more.
LEMMA WithPart ==
  ASSUME NEW v, Shaped(v), NEW name, NEW x
  PROVE  LET w == With(v, Part(name, x)).parts IN
         /\ DOMAIN w = {name} \cup DOMAIN v.parts
         /\ w[name] = x
         /\ \A n \in DOMAIN v.parts \ {name} : w[n] = v.parts[n]
  <1>1. DOMAIN Part(name, x) = {name} /\ Part(name, x)[name] = x
    BY DEF Part
  <1> QED
    BY <1>1, WithParts

\* A step of one request that leaves the cache whole.
LEMMA AloneKeeps ==
  ASSUME PartsInv, FeedInv, NEW r \in Requests, UNCHANGED <<clock, feed>>,
         \A q \in Requests \ {r} : Still(q),
         DOMAIN next' = Requests, DOMAIN busy' = Requests,
         WholeCache', WholeDraft(r)', WholeAnswer(r)'
  PROVE  PartsInv'
  <1>1. clock \in Nat
    BY SizeAssumption DEF FeedInv, Typed
  <1>2. ASSUME NEW q \in Requests, q # r PROVE WholeDraft(q)' /\ WholeAnswer(q)'
    <2>1. WholeDraft(q) /\ WholeAnswer(q) /\ Still(q)
      BY <1>2 DEF PartsInv
    <2>2. WholeDraft(q)'
      BY <2>1 DEF WholeDraft, Still
    <2>3. WholeAnswer(q)'
      BY <1>1, <2>1, WholeStays DEF WholeAnswer, Still
    <2> QED
      BY <2>2, <2>3
  <1> QED
    BY <1>2 DEF PartsInv

-----------------------------------------------------------------------------
(* One lemma per reader: a draft with one more part, or whole. *)

\* With the ranking and the list of products the pool takes its first items.
LEMMA JoinPools ==
  ASSUME NEW v, DOMAIN v \subseteq {Markets, Products}, NEW waiting \in BOOLEAN,
         Products \in DOMAIN v => ~waiting,
         NEW first, first = IF {Markets, Products} \subseteq DOMAIN v THEN Least(Pool, Coins) ELSE 0
  PROVE  Pooled(v, first + 1, 1..first, waiting)
  <1>1. CASE {Markets, Products} \subseteq DOMAIN v
    <2>1. first \in 1..Coins /\ Coins \in Nat
      BY <1>1, SizeAssumption DEF Least
    <2>2. /\ first + 1 \in 1..(Coins + 1) /\ 1..first # {}
          /\ 1..first \subseteq 1..((first + 1) - 1)
      BY <2>1
    <2>3. Done(first + 1, 1..first) = {}
      BY <2>1 DEF Done
    <2>4. Rowed(v, {}) /\ ~waiting
      BY <1>1 DEF Rowed
    <2>5. Rowed(v, Done(first + 1, 1..first))
      BY <2>3, <2>4
    <2> QED
      BY <1>1, <2>2, <2>4, <2>5 DEF Pooled
  <1>2. CASE ~({Markets, Products} \subseteq DOMAIN v)
    <2>1. first = 0 /\ 1..first = {}
      BY <1>2
    <2> QED
      BY <1>2, <2>1 DEF Pooled
  <1> QED
    BY <1>1, <1>2

\* The row of item i comes in, and its worker takes the next item or none.
LEMMA QuotePools ==
  ASSUME NEW v, NEW n, NEW held, NEW waiting, Pooled(v, n, held, waiting),
         NEW i \in held, NEW quote \in {0} \cup (IF i \in Listed THEN {i} ELSE {}),
         NEW w, DOMAIN w = {Row(i)} \cup DOMAIN v, w[Row(i)] = quote,
         \A x \in DOMAIN v \ {Row(i)} : w[x] = v[x],
         NEW more, more = IF n <= Coins THEN {n} ELSE {}
  PROVE  LET items == (held \ {i}) \cup more
         IN  IF items = {} THEN WholeSnapshot(w)
             ELSE Pooled(w, n + Cardinality(more), items, waiting)
  <1> DEFINE done == Done(n, held)
             items == (held \ {i}) \cup more
             next1 == n + Cardinality(more)
  <1>1. /\ {Markets, Products} \subseteq DOMAIN v /\ ~waiting
        /\ n \in 1..(Coins + 1) /\ held \subseteq 1..(n - 1)
        /\ Rowed(v, done)
    BY DEF Pooled
  <1>2. Coins \in Nat \ {0} /\ i \in 1..Coins /\ i < n /\ i \in Int /\ n \in Int
    BY <1>1, SizeAssumption
  <1>3. \A j : Row(j) = Row(i) => j = i
    BY DEF Row
  <1>4. /\ next1 = IF n <= Coins THEN n + 1 ELSE n
        /\ more = IF n <= Coins THEN {n} ELSE {}
    <2>1. Cardinality({n}) = 1 /\ Cardinality({}) = 0
      BY FS_Singleton, FS_EmptySet
    <2> QED
      BY <1>2, <2>1
  <1> HIDE DEF next1
  <1>5. Done(next1, items) = done \cup {i}
    <2>1. CASE n <= Coins
      <3>1. 1..(next1 - 1) = 1..(n - 1) \cup {n} /\ n \notin 1..(n - 1)
        BY <1>1, <1>2, <1>4, <2>1
      <3> QED
        BY <1>1, <1>4, <2>1, <3>1 DEF Done
    <2>2. CASE ~(n <= Coins)
      <3>1. next1 = n /\ items = held \ {i}
        BY <1>4, <2>2
      <3> QED
        BY <1>1, <3>1 DEF Done
    <2> QED
      BY <2>1, <2>2
  <1>6. next1 \in 1..(Coins + 1) /\ items \subseteq 1..(next1 - 1)
    BY <1>1, <1>2, <1>4
  <1> HIDE DEF done, items
  <1>7. Rowed(w, done \cup {i})
    <2>1. DOMAIN w = {Markets, Products} \cup {Row(j) : j \in done \cup {i}}
      BY <1>1 DEF Rowed
    <2>2. ASSUME NEW j \in done \cup {i} PROVE w[Row(j)] \in {0} \cup ({j} \cap Listed)
      <3>1. CASE j = i
        BY <3>1
      <3>2. CASE j # i
        <4>1. j \in done /\ Row(j) # Row(i)
          BY <1>3, <3>2
        <4> QED
          BY <1>1, <4>1 DEF Rowed
      <3> QED
        BY <3>1, <3>2
    <2> QED
      BY <2>1, <2>2 DEF Rowed
  <1>8. CASE items = {}
    <2>1. ~(n <= Coins) /\ next1 - 1 = Coins
      BY <1>1, <1>2, <1>4, <1>8 DEF items
    <2>2. Done(next1, {}) = 1..(next1 - 1)
      BY DEF Done
    <2>3. done \cup {i} = 1..Coins
      BY <1>5, <1>8, <2>1, <2>2
    <2> QED
      BY <1>7, <1>8, <2>3 DEF WholeSnapshot, Rowed, items
  <1>9. CASE items # {}
    <2>1. {Markets, Products} \subseteq DOMAIN w
      BY <1>7 DEF Rowed
    <2>2. Pooled(w, next1, items, waiting)
      BY <1>1, <1>5, <1>6, <1>7, <1>9, <2>1 DEF Pooled
    <2> QED
      BY <1>9, <2>2 DEF items, next1
  <1> QED
    BY <1>8, <1>9 DEF items, next1

\* A chunk brings the days from the cursor to the start of the next chunk.
LEMMA ChunkReads ==
  ASSUME NEW v, NEW cursor, NEW end \in Nat, Chunked(v, cursor, end),
         NEW rows, rows = {d \in Rows(cursor, Least(cursor + Chunk, end)) :
                              d >= end - Days /\ d < end},
         NEW w, DOMAIN w = {DayOf(d) : d \in rows} \cup DOMAIN v,
         \A n \in DOMAIN w : w[n] = "closed"
  PROVE  IF cursor + Chunk >= end
         THEN DOMAIN w = {DayOf(d) : d \in (end - Days)..(end - 1)}
         ELSE Chunked(w, cursor + Chunk, end)
  <1>1. /\ cursor \in (end - Days)..(end - 1)
        /\ {DayOf(d) : d \in (end - Days)..(cursor - 1)} \subseteq DOMAIN v
        /\ DOMAIN v \subseteq {DayOf(d) : d \in (end - Days)..cursor}
    BY DEF Chunked
  <1>2. /\ Days \in Nat \ {0} /\ Chunk \in Nat \ {0} /\ end - Days \in Int /\ end \in Int
        /\ cursor \in Int /\ cursor >= end - Days /\ cursor < end
    BY <1>1, SizeAssumption
  <1>3. CASE cursor + Chunk >= end
    <2>1. rows = cursor..(end - 1)
      BY <1>2, <1>3 DEF Rows, Least
    <2>2. (end - Days)..(end - 1) = (end - Days)..(cursor - 1) \cup rows
          /\ (end - Days)..cursor \subseteq (end - Days)..(end - 1)
      BY <1>2, <2>1
    <2>3. DOMAIN w \subseteq {DayOf(d) : d \in (end - Days)..(end - 1)}
      BY <1>1, <2>2
    <2>4. {DayOf(d) : d \in (end - Days)..(end - 1)} \subseteq DOMAIN w
      BY <1>1, <2>2
    <2> QED
      BY <1>3, <2>3, <2>4
  <1>4. CASE ~(cursor + Chunk >= end)
    <2> DEFINE then == cursor + Chunk
    <2>1. then \in Int /\ then < end /\ cursor < then /\ then \in (end - Days)..(end - 1)
      BY <1>2, <1>4
    <2>2. rows = cursor..then
      BY <1>2, <1>4, <2>1 DEF Rows, Least
    <2> HIDE DEF then
    <2>3. (end - Days)..(then - 1) \subseteq (end - Days)..(cursor - 1) \cup rows
          /\ (end - Days)..cursor \cup rows \subseteq (end - Days)..then
      BY <1>2, <2>1, <2>2
    <2>4. DOMAIN w \subseteq {DayOf(d) : d \in (end - Days)..then}
      BY <1>1, <2>3
    <2>5. {DayOf(d) : d \in (end - Days)..(then - 1)} \subseteq DOMAIN w
      BY <1>1, <2>3
    <2>6. Chunked(w, then, end)
      BY <2>1, <2>4, <2>5 DEF Chunked
    <2> QED
      BY <1>4, <2>6 DEF then
  <1> QED
    BY <1>3, <1>4

\* A detail comes in as GitHub gave it, or as missing, but not for an outage.
LEMMA DetailReads ==
  ASSUME NEW v, Detailed(v), NEW name, NEW said,
         name \in Details /\ Repository \in DOMAIN v,
         name \in Optional => said \in {"200"} \cup Missing,
         NEW w, DOMAIN w = {<<name, 0>>} \cup DOMAIN v, w[<<name, 0>>] = said,
         \A n \in DOMAIN v \ {<<name, 0>>} : w[n] = v[n]
  PROVE  /\ Detailed(w)
         /\ Details \X {0} \subseteq DOMAIN w => WholeRepository(w)
  <1>1. Detailed(w)
    <2>1. DOMAIN w \subseteq {Repository} \cup (Details \X {0}) /\ Repository \in DOMAIN w
      BY DEF Detailed
    <2>2. ASSUME NEW n \in Optional, <<n, 0>> \in DOMAIN w
          PROVE  w[<<n, 0>>] \in {"200"} \cup Missing
      <3>1. CASE n = name
        BY <3>1
      <3>2. CASE n # name
        <4>1. <<n, 0>> # <<name, 0>>
          BY <3>2
        <4> QED
          BY <2>2, <4>1 DEF Detailed
      <3> QED
        BY <3>1, <3>2
    <2> QED
      BY <2>1, <2>2 DEF Detailed
  <1>2. ASSUME Details \X {0} \subseteq DOMAIN w PROVE WholeRepository(w)
    <2>1. DOMAIN w = {Repository} \cup (Details \X {0})
      BY <1>1, <1>2 DEF Detailed
    <2>2. ASSUME NEW n \in Details \cap Optional
          PROVE  w[<<n, 0>>] \in {"200"} \cup Missing
      <3>1. <<n, 0>> \in DOMAIN w
        BY <2>1
      <3> QED
        BY <1>1, <3>1 DEF Detailed
    <2> QED
      BY <2>1, <2>2 DEF WholeRepository
  <1> QED
    BY <1>1, <1>2

\* A request that has read nothing owes everything.
LEMMA NothingRead ==
  /\ DOMAIN Nothing.parts = {}
  /\ \A waiting \in BOOLEAN : Pooled(Nothing.parts, 0, {}, waiting)
  /\ \A end \in Nat : Chunked(Nothing.parts, end - Days, end)
  /\ Detailed(Nothing.parts)
  <1>1. DOMAIN Nothing.parts = {}
    BY DEF Nothing
  <1>2. \A waiting \in BOOLEAN : Pooled(Nothing.parts, 0, {}, waiting)
    BY <1>1 DEF Pooled
  <1>3. ASSUME NEW end \in Nat PROVE Chunked(Nothing.parts, end - Days, end)
    <2>1. Days \in Nat \ {0}
      BY SizeAssumption
    <2>2. (end - Days)..((end - Days) - 1) = {}
      BY <2>1
    <2>3. end - Days \in (end - Days)..(end - 1)
      BY <2>1
    <2> QED
      BY <1>1, <2>2, <2>3 DEF Chunked
  <1>4. Detailed(Nothing.parts)
    BY <1>1 DEF Detailed
  <1> QED
    BY <1>1, <1>2, <1>3, <1>4

-----------------------------------------------------------------------------
(* The actions. *)

LEMMA PartsInit == Init => PartsInv
  BY DEF Init, PartsInv, WholeCache, WholeDraft, WholeAnswer, Keys, Feeds

\* Cached values stay whole for as long as the cache and the clock stay.
LEMMA CacheKept ==
  ASSUME WholeCache, FeedInv, UNCHANGED <<cache, clock>>
  PROVE  WholeCache'
  <1>1. clock \in Nat
    BY SizeAssumption DEF FeedInv, Typed
  <1>2. \A f, v : Whole(f, v) => Whole(f, v)'
    BY <1>1, WholeStays
  <1> QED
    BY <1>2 DEF WholeCache

LEMMA PartsThrow ==
  ASSUME PartsInv, FeedInv, NEW r \in Requests, Throw(r), Kept, UNCHANGED listing
  PROVE  PartsInv'
  <1>1. /\ stage'[r] = "failed" /\ busy'[r] = {} /\ UNCHANGED <<clock, feed, cache, listing>>
        /\ DOMAIN next' = Requests /\ DOMAIN busy' = Requests
        /\ \A q \in Requests \ {r} : Still(q)
    BY DEF Throw, Leave, Kept, Still, FeedInv, Typed, PartsInv
  <1>2. WholeCache'
    BY <1>1, CacheKept DEF PartsInv
  <1>3. WholeDraft(r)' /\ WholeAnswer(r)'
    BY <1>1 DEF PartsInv, WholeDraft, WholeAnswer
  <1> QED
    BY <1>1, <1>2, <1>3, AloneKeeps

LEMMA PartsProceed ==
  ASSUME PartsInv, FeedInv, NEW r \in Requests, stage[r] = "reading", Kept, UNCHANGED listing,
         NEW value, NEW index, NEW items, Proceed(r, value, index, items),
         feed[r] = "snapshot" => Pooled(value.parts, index, items, listing[r]),
         feed[r] = "candles" => Chunked(value.parts, index, Day(began[r])),
         feed[r] = "repo" => Detailed(value.parts)
  PROVE  PartsInv'
  <1>1. /\ draft'[r] = value /\ next'[r] = index /\ busy'[r] = items
        /\ UNCHANGED <<clock, feed, cache, listing, began, stage, reply>>
        /\ DOMAIN next' = Requests /\ DOMAIN busy' = Requests
        /\ \A q \in Requests \ {r} : Still(q)
    BY DEF Proceed, Kept, Still, FeedInv, Typed, PartsInv
  <1>2. WholeCache'
    BY <1>1, CacheKept DEF PartsInv
  <1>3. WholeDraft(r)' /\ WholeAnswer(r)'
    BY <1>1 DEF PartsInv, WholeDraft, WholeAnswer
  <1> QED
    BY <1>1, <1>2, <1>3, AloneKeeps

LEMMA PartsAnswer ==
  ASSUME PartsInv, FeedInv, NEW r \in Requests, stage[r] = "reading", Kept, UNCHANGED listing,
         NEW value, Answer(r, value), Whole(feed[r], value.parts)
  PROVE  PartsInv'
  <1>1. /\ stage'[r] = "answered" /\ busy'[r] = {} /\ reply'[r] = value
        /\ UNCHANGED <<clock, feed, listing>>
        /\ DOMAIN next' = Requests /\ DOMAIN busy' = Requests
        /\ \A q \in Requests \ {r} : Still(q)
    BY DEF Answer, Leave, Kept, Still, FeedInv, Typed, PartsInv
  <1>2. /\ feed[r] \in Feeds /\ "products" \notin Feeds /\ DOMAIN cache = Feeds \cup {"products"}
        /\ clock \in Nat
    BY SizeAssumption DEF FeedInv, Typed, Keys, Feeds
  <1>3. cache'[feed[r]].value = value /\ \A k \in DOMAIN cache \ {feed[r]} : cache'[k] = cache[k]
    BY <1>2 DEF Answer
  <1>4. \A f, v : Whole(f, v) => Whole(f, v)'
    BY <1>1, <1>2, WholeStays
  <1>5. WholeCache'
    <2>1. ASSUME NEW f \in Feeds
          PROVE  (cache[f].expires > 0 => Whole(f, cache[f].value.parts))'
      <3>1. CASE f = feed[r]
        BY <1>3, <1>4, <3>1
      <3>2. CASE f # feed[r]
        <4>1. cache'[f] = cache[f]
          BY <1>2, <1>3, <3>2
        <4> QED
          BY <1>4, <4>1 DEF PartsInv, WholeCache
      <3> QED
        BY <3>1, <3>2
    <2>2. cache'["products"] = cache["products"]
      BY <1>2, <1>3
    <2> QED
      BY <2>1, <2>2 DEF PartsInv, WholeCache
  <1>6. WholeDraft(r)'
    BY <1>1 DEF PartsInv, WholeDraft
  <1>7. WholeAnswer(r)'
    BY <1>1, <1>4 DEF WholeAnswer
  <1> QED
    BY <1>1, <1>5, <1>6, <1>7, AloneKeeps

LEMMA PartsAtGate ==
  ASSUME PartsInv, FeedInv, FeedInv',
         \/ Tick \/ InitSucceeds \/ InitFails
         \/ \E r \in Requests, paid \in BOOLEAN : Arrive(r, paid)
  PROVE  PartsInv'
  <1>0. clock \in Nat /\ clock' \in Nat
    BY SizeAssumption DEF FeedInv, Typed
  <1>1. CASE Tick
    <2>1. clock <= clock' /\ UNCHANGED <<cache, stage, feed, began, draft, next, busy, listing, reply>>
      BY <1>0, <1>1 DEF Tick, request
    <2>2. \A f, v : Whole(f, v) => Whole(f, v)'
      BY <1>0, <2>1, WholeStays
    <2>3. WholeCache'
      BY <2>1, <2>2 DEF PartsInv, WholeCache
    <2>4. \A r \in Requests : WholeDraft(r)' /\ WholeAnswer(r)'
      BY <2>1, <2>2 DEF PartsInv, WholeDraft, WholeAnswer
    <2> QED
      BY <2>1, <2>3, <2>4 DEF PartsInv
  <1>2. ASSUME NEW to \in {"handler", "failed"}, Resume(to) PROVE PartsInv'
    <2>1. /\ \A r \in Requests : \/ stage'[r] = stage[r]
                                 \/ stage[r] = "gate" /\ stage'[r] \in {"handler", "failed"}
          /\ UNCHANGED <<clock, cache, feed, began, draft, next, busy, listing, reply>>
      BY <1>2 DEF Resume
    <2>2. \A f, v : Whole(f, v) => Whole(f, v)'
      BY <1>0, <2>1, WholeStays
    <2>3. WholeCache'
      BY <2>1, CacheKept DEF PartsInv
    <2>4. \A r \in Requests : WholeDraft(r)' /\ WholeAnswer(r)'
      BY <2>1, <2>2 DEF PartsInv, WholeDraft, WholeAnswer
    <2> QED
      BY <2>1, <2>3, <2>4 DEF PartsInv
  <1>3. ASSUME NEW r \in Requests, NEW paid \in BOOLEAN, Arrive(r, paid) PROVE PartsInv'
    <2>1. /\ stage'[r] \in {"handler", "gate", "failed"} /\ stage[r] # "reading"
          /\ \A q \in Requests \ {r} : Still(q)
          /\ UNCHANGED <<clock, cache, feed, draft, next, busy, listing>>
      BY <1>3 DEF Arrive, Still, FeedInv, Typed
    <2>2. WholeCache'
      BY <2>1, CacheKept DEF PartsInv
    <2>3. WholeDraft(r)' /\ WholeAnswer(r)'
      BY <2>1 DEF PartsInv, WholeDraft, WholeAnswer
    <2> QED
      BY <2>1, <2>2, <2>3, AloneKeeps DEF PartsInv
  <1> QED
    BY <1>1, <1>2, <1>3 DEF InitSucceeds, InitFails

LEMMA PartsAtLookup ==
  ASSUME PartsInv, FeedInv, NEW r \in Requests, Lookup(r)
  PROVE  PartsInv'
  <1>1. /\ clock \in Nat /\ feed[r] \in Feeds /\ stage[r] = "handler" /\ busy[r] = {}
        /\ UNCHANGED <<clock, cache, feed, busy>> /\ began'[r] = clock
        /\ \A q \in Requests \ {r} : Still(q)
        /\ DOMAIN next' = Requests /\ DOMAIN busy' = Requests
    BY SizeAssumption DEF Lookup, Still, FeedInv, Typed, PartsInv, WholeDraft
  <1>2. WholeCache'
    BY <1>1, CacheKept DEF PartsInv
  <1>3. CASE Hit(feed[r])
    <2>1. /\ stage'[r] = "answered" /\ reply'[r] = cache[feed[r]].value /\ UNCHANGED listing
      BY <1>3 DEF Lookup, FeedInv, Typed
    <2>2. cache[feed[r]].expires > 0
      BY <1>1, <1>3 DEF Hit, FeedInv, Typed, Keys
    <2>3. WholeDraft(r)'
      BY <1>1, <2>1 DEF PartsInv, WholeDraft
    <2>4. WholeAnswer(r)'
      BY <1>1, <2>1, <2>2, WholeStays DEF PartsInv, WholeCache, WholeAnswer
    <2> QED
      BY <1>1, <1>2, <2>3, <2>4, AloneKeeps
  <1>4. CASE ~Hit(feed[r])
    <2>1. /\ stage'[r] = "reading"
          /\ next'[r] = IF feed[r] = "candles" THEN Day(clock) - Days ELSE 0
          /\ listing'[r] = (feed[r] = "snapshot" /\ ~Hit("products"))
          /\ draft'[r] = IF feed[r] = "snapshot" /\ Hit("products")
                          THEN [cache["products"].value EXCEPT !.from = LastTick]
                          ELSE Nothing
      BY <1>4 DEF Lookup, FeedInv, Typed, PartsInv
    <2>2. ASSUME feed[r] = "snapshot" /\ Hit("products") PROVE WholeDraft(r)'
      <3>1. Shaped(cache["products"].value) /\ cache["products"].expires > 0
        BY <1>1, <2>2 DEF Hit, FeedInv, Typed, Keys
      <3>2. draft'[r].parts = cache["products"].value.parts /\ ~listing'[r]
        BY <2>1, <2>2, <3>1 DEF Shaped
      <3>3. DOMAIN draft'[r].parts = {Products}
        BY <3>1, <3>2 DEF PartsInv, WholeCache
      <3>4. Pooled(draft'[r].parts, next'[r], {}, listing'[r])
        BY <3>2, <3>3 DEF Pooled, Markets, Products
      <3> QED
        BY <1>1, <2>1, <2>2, <3>4 DEF WholeDraft
    <2>3. ASSUME ~(feed[r] = "snapshot" /\ Hit("products")) PROVE WholeDraft(r)'
      <3>1. draft'[r] = Nothing /\ listing'[r] \in BOOLEAN
        BY <2>1, <2>3
      <3>2. Day(clock) \in Nat
        BY <1>1, DayFacts
      <3> QED
        BY <1>1, <2>1, <2>3, <3>1, <3>2, NothingRead DEF WholeDraft
    <2>4. WholeAnswer(r)'
      BY <2>1 DEF WholeAnswer
    <2> QED
      BY <1>1, <1>2, <2>2, <2>3, <2>4, AloneKeeps
  <1> QED
    BY <1>3, <1>4

\* A list belongs to a request for the snapshot, and nothing else writes the
\* entry of the list.
LEMMA PartsAtProducts ==
  ASSUME PartsInv, FeedInv, NEW r \in Requests, ReadProducts(r)
  PROVE  PartsInv'
  <1> DEFINE read == [With(Nothing, Part(Products, "data")) EXCEPT !.list = clock]
             w == [With(draft[r], Part(Products, "data")) EXCEPT !.list = clock]
  <1>1. /\ clock \in 0..LastTick /\ clock \in Nat /\ UNCHANGED <<clock, feed, began>>
        /\ listing[r] /\ feed[r] = "snapshot" /\ listing'[r] = FALSE
        /\ stage[r] # "reading" => busy[r] = {}
        /\ stage[r] = "reading" => Pooled(draft[r].parts, next[r], busy[r], listing[r])
    <2>1. /\ clock \in 0..LastTick /\ clock \in Nat /\ listing \in [Requests -> BOOLEAN]
      BY SizeAssumption DEF FeedInv, Typed
    <2>2. UNCHANGED <<clock, feed, began>> /\ listing[r] /\ listing'[r] = FALSE
      BY <2>1 DEF ReadProducts, Kept
    <2> QED
      BY <2>1, <2>2 DEF PartsInv, WholeDraft
  <1>2. ASSUME NEW d, Shaped(d)
        PROVE  DOMAIN [With(d, Part(Products, "data")) EXCEPT !.list = clock].parts
                  = {Products} \cup DOMAIN d.parts
    <2> DEFINE u == With(d, Part(Products, "data"))
    <2>1. Shaped(u) /\ DOMAIN u.parts = {Products} \cup DOMAIN d.parts
      BY <1>1, <1>2, WithFacts, WithPart
    <2> HIDE DEF u
    <2>2. [u EXCEPT !.list = clock].parts = u.parts
      BY <2>1 DEF Shaped
    <2> QED
      BY <2>1, <2>2 DEF u
  <1>3. DOMAIN read.parts = {Products}
    BY <1>2, NothingFacts, NothingRead
  <1>4. stage[r] = "reading" =>
          DOMAIN w.parts \subseteq {Markets, Products} /\ Products \in DOMAIN w.parts
    <2>1. DOMAIN w.parts = {Products} \cup DOMAIN draft[r].parts
      BY <1>2 DEF FeedInv, Typed
    <2> QED
      BY <1>1, <2>1 DEF Pooled
  <1> HIDE DEF read, w
  <1>5. CASE /\ cache' = [cache EXCEPT !["products"] =
                             [expires |-> Expiry(r, "products"), value |-> read]]
             /\ IF stage[r] = "reading" THEN Join(r, w) ELSE UNCHANGED <<draft, busy, next>>
             /\ UNCHANGED <<stage, reply>>
    <2>1. /\ cache'["products"].value = read /\ \A f \in Feeds : cache'[f] = cache[f]
      BY <1>5 DEF FeedInv, Typed, Keys, Feeds
    <2>2. /\ DOMAIN next' = Requests /\ DOMAIN busy' = Requests
          /\ \A q \in Requests \ {r} : Still(q)
      BY <1>1, <1>5 DEF ReadProducts, Kept, Join, Still, FeedInv, Typed, PartsInv
    <2>3. WholeCache'
      <3>1. \A f, v : Whole(f, v) => Whole(f, v)'
        BY <1>1, WholeStays
      <3> QED
        BY <1>3, <2>1, <3>1 DEF PartsInv, WholeCache
    <2>4. ASSUME stage[r] = "reading"
          PROVE  Pooled(draft'[r].parts, next'[r], busy'[r], listing'[r])
      <3> DEFINE first == IF {Markets, Products} \subseteq DOMAIN w.parts
                          THEN Least(Pool, Coins) ELSE 0
      <3>1. draft'[r] = w /\ busy'[r] = 1..first /\ next'[r] = first + 1
        BY <1>5, <2>4 DEF Join, Has, FeedInv, Typed, PartsInv
      <3> HIDE DEF first
      <3>2. Pooled(w.parts, first + 1, 1..first, FALSE)
        BY <1>4, <2>4, JoinPools DEF first
      <3> QED
        BY <1>1, <3>1, <3>2
    <2>5. WholeDraft(r)' /\ WholeAnswer(r)'
      <3>1. WholeAnswer(r)'
        BY <1>1, <1>5, WholeStays DEF PartsInv, WholeAnswer
      <3> QED
        BY <1>1, <1>5, <2>4, <3>1 DEF WholeDraft
    <2> QED
      BY <1>1, <2>2, <2>3, <2>5, AloneKeeps
  <1>6. CASE stage[r] = "reading" /\ Throw(r)
    <2>1. /\ stage'[r] = "failed" /\ busy'[r] = {} /\ UNCHANGED cache
          /\ DOMAIN next' = Requests /\ DOMAIN busy' = Requests
          /\ \A q \in Requests \ {r} : Still(q)
      BY <1>6 DEF ReadProducts, Kept, Throw, Leave, Still, FeedInv, Typed, PartsInv
    <2>2. WholeCache'
      BY <1>1, <2>1, CacheKept DEF PartsInv
    <2>3. WholeDraft(r)' /\ WholeAnswer(r)'
      BY <1>1, <2>1 DEF WholeDraft, WholeAnswer
    <2> QED
      BY <1>1, <2>1, <2>2, <2>3, AloneKeeps
  <1>7. CASE stage[r] # "reading" /\ UNCHANGED <<stage, draft, busy, next, reply, cache>>
    <2>1. \A q \in Requests \ {r} : Still(q)
      BY <1>7 DEF ReadProducts, Kept, Still, FeedInv, Typed
    <2>2. WholeCache'
      BY <1>1, <1>7, CacheKept DEF PartsInv
    <2>3. WholeDraft(r)' /\ WholeAnswer(r)'
      BY <1>1, <1>7, WholeStays DEF PartsInv, WholeDraft, WholeAnswer
    <2> QED
      BY <1>1, <1>7, <2>1, <2>2, <2>3, AloneKeeps DEF PartsInv
  <1> QED
    BY <1>5, <1>6, <1>7 DEF ReadProducts, read, w

LEMMA PartsAtMarkets ==
  ASSUME PartsInv, FeedInv, NEW r \in Requests, ReadMarkets(r)
  PROVE  PartsInv'
  <1> DEFINE value == With(draft[r], Part(Markets, "data"))
             first == IF {Markets, Products} \subseteq DOMAIN value.parts
                      THEN Least(Pool, Coins) ELSE 0
  <1>1. /\ stage[r] = "reading" /\ feed[r] = "snapshot" /\ Kept /\ UNCHANGED listing
        /\ Markets \notin DOMAIN draft[r].parts
        /\ Pooled(draft[r].parts, next[r], busy[r], listing[r]) /\ listing[r] \in BOOLEAN
    BY DEF ReadMarkets, Reading, Has, FeedInv, Typed, PartsInv, WholeDraft
  <1>2. DOMAIN value.parts = {Markets} \cup DOMAIN draft[r].parts
    BY WithPart DEF FeedInv, Typed
  <1> HIDE DEF value
  <1>3. /\ DOMAIN value.parts \subseteq {Markets, Products}
        /\ Products \in DOMAIN value.parts => ~listing[r]
    BY <1>1, <1>2 DEF Pooled, Markets, Products
  <1>4. CASE Join(r, value) /\ UNCHANGED <<stage, reply, cache>>
    <2>1. Proceed(r, value, first + 1, 1..first)
      BY <1>4 DEF Join, Proceed, Has
    <2> HIDE DEF first
    <2>2. Pooled(value.parts, first + 1, 1..first, listing[r])
      BY <1>1, <1>3, JoinPools DEF first
    <2> QED
      BY <1>1, <2>1, <2>2, PartsProceed
  <1> QED
    BY <1>1, <1>4, PartsThrow DEF ReadMarkets, value

LEMMA PartsAtQuote ==
  ASSUME PartsInv, FeedInv, NEW r \in Requests, NEW i \in 1..Coins, Quote(r, i)
  PROVE  PartsInv'
  <1>1. /\ stage[r] = "reading" /\ feed[r] = "snapshot" /\ Kept /\ UNCHANGED listing
        /\ i \in busy[r] /\ Pooled(draft[r].parts, next[r], busy[r], listing[r])
    BY DEF Quote, Reading, PartsInv, WholeDraft
  <1> DEFINE more == IF next[r] <= Coins THEN {next[r]} ELSE {}
             items == (busy[r] \ {i}) \cup more
             index == next[r] + Cardinality(more)
  <1>2. PICK quote \in {0} \cup (IF i \in Listed THEN {i} ELSE {}) :
           IF items = {} THEN Answer(r, With(draft[r], Part(Row(i), quote)))
           ELSE Proceed(r, With(draft[r], Part(Row(i), quote)), index, items)
    BY DEF Quote, Place
  <1> DEFINE value == With(draft[r], Part(Row(i), quote))
  <1>3. /\ DOMAIN value.parts = {Row(i)} \cup DOMAIN draft[r].parts
        /\ value.parts[Row(i)] = quote
        /\ \A x \in DOMAIN draft[r].parts \ {Row(i)} : value.parts[x] = draft[r].parts[x]
    BY WithPart DEF FeedInv, Typed
  <1> HIDE DEF value
  <1>4. IF items = {} THEN WholeSnapshot(value.parts)
        ELSE Pooled(value.parts, index, items, listing[r])
    <2> DEFINE v == draft[r].parts
               w == value.parts
               held == busy[r]
    <2>1. Pooled(v, next[r], held, listing[r]) /\ i \in held
      BY <1>1
    <2>2. /\ DOMAIN w = {Row(i)} \cup DOMAIN v /\ w[Row(i)] = quote
          /\ \A x \in DOMAIN v \ {Row(i)} : w[x] = v[x]
      BY <1>3
    <2>3. more = IF next[r] <= Coins THEN {next[r]} ELSE {}
      OBVIOUS
    <2> HIDE DEF v, w, more
    <2> QED
      BY <2>1, <2>2, <2>3, QuotePools DEF v, w
  <1> HIDE DEF items, index, more
  <1>5. CASE items = {}
    <2>1. Answer(r, value) /\ Whole(feed[r], value.parts)
      BY <1>1, <1>2, <1>4, <1>5 DEF Whole, value
    <2> QED
      BY <1>1, <2>1, PartsAnswer
  <1>6. CASE items # {}
    <2>1. Proceed(r, value, index, items)
      BY <1>2, <1>6 DEF value
    <2> QED
      BY <1>1, <1>4, <1>6, <2>1, PartsProceed
  <1> QED
    BY <1>5, <1>6

LEMMA PartsAtChunk ==
  ASSUME PartsInv, FeedInv, NEW r \in Requests, ReadChunk(r)
  PROVE  PartsInv'
  <1> DEFINE end == Day(began[r])
             rows == {d \in Rows(next[r], Least(next[r] + Chunk, end)) : InRange(r, d)}
             candles == [n \in {DayOf(d) : d \in rows} |->
                            IF n[2] < Day(clock) THEN "closed" ELSE "open"]
             value == With(draft[r], candles)
             v == draft[r].parts
             w == value.parts
  <1>1. /\ stage[r] = "reading" /\ feed[r] = "candles" /\ Kept /\ UNCHANGED listing
        /\ Chunked(v, next[r], end)
    BY DEF ReadChunk, Reading, PartsInv, WholeDraft
  <1>2. /\ Day(clock) \in Nat /\ end \in Nat /\ end <= Day(clock)
        /\ Days \in Nat \ {0} /\ Chunk \in Nat \ {0}
    <2>1. clock \in Nat /\ began[r] \in Nat /\ began[r] <= clock
      BY SizeAssumption DEF FeedInv, Typed, SoundDrafts
    <2> QED
      BY <2>1, DayFacts, SizeAssumption
  <1>3. rows = {d \in Rows(next[r], Least(next[r] + Chunk, end)) : d >= end - Days /\ d < end}
    BY DEF InRange
  <1>4. /\ DOMAIN w = {DayOf(d) : d \in rows} \cup DOMAIN v
        /\ \A n \in {DayOf(d) : d \in rows} : w[n] = candles[n]
        /\ \A n \in DOMAIN v \ {DayOf(d) : d \in rows} : w[n] = v[n]
    BY WithParts DEF FeedInv, Typed
  <1>5. ASSUME NEW d \in rows PROVE candles[DayOf(d)] = "closed"
    <2>1. d \in Int /\ d < end
      <3>1. next[r] \in Int /\ Least(next[r] + Chunk, end) \in Int
        BY <1>1, <1>2 DEF Chunked, Least
      <3> QED
        BY <1>3, <3>1 DEF Rows
    <2>2. d < Day(clock)
      BY <1>2, <2>1
    <2>3. DayOf(d)[2] = d
      BY DEF DayOf
    <2> QED
      BY <2>2, <2>3
  <1> HIDE DEF rows, candles, value, end
  <1>6. \A n \in DOMAIN w : w[n] = "closed"
    BY <1>1, <1>4, <1>5 DEF Chunked
  <1>7. IF next[r] + Chunk >= end
        THEN DOMAIN w = {DayOf(d) : d \in (end - Days)..(end - 1)}
        ELSE Chunked(w, next[r] + Chunk, end)
    BY <1>1, <1>2, <1>3, <1>4, <1>6, ChunkReads
  <1>8. CASE next[r] + Chunk >= end /\ Answer(r, value)
    <2>1. WholeCandles(w)
      BY <1>2, <1>6, <1>7, <1>8 DEF WholeCandles
    <2>2. Whole(feed[r], w)
      BY <1>1, <2>1 DEF Whole
    <2> QED
      BY <1>1, <1>8, <2>2, PartsAnswer
  <1>9. CASE ~(next[r] + Chunk >= end) /\ Proceed(r, value, next[r] + Chunk, {})
    <2>1. Chunked(value.parts, next[r] + Chunk, Day(began[r]))
      BY <1>7, <1>9 DEF end
    <2> QED
      BY <1>1, <1>9, <2>1, PartsProceed
  <1> QED
    BY <1>1, <1>8, <1>9, PartsThrow DEF ReadChunk, rows, candles, value, end

LEMMA PartsAtRepository ==
  ASSUME PartsInv, FeedInv, NEW r \in Requests, ReadRepository(r)
  PROVE  PartsInv'
  <1> DEFINE value == With(draft[r], Part(Repository, "200"))
  <1>1. /\ stage[r] = "reading" /\ feed[r] = "repo" /\ Kept /\ UNCHANGED listing
        /\ Detailed(draft[r].parts)
        /\ Repository \notin DOMAIN draft[r].parts
    BY DEF ReadRepository, Reading, Has, PartsInv, WholeDraft
  <1>2. DOMAIN value.parts = {Repository} \cup DOMAIN draft[r].parts
    BY WithPart DEF FeedInv, Typed
  <1> HIDE DEF value
  <1>3. Detailed(value.parts)
    BY <1>1, <1>2 DEF Detailed, Repository, Optional
  <1>4. CASE Proceed(r, value, 0, {})
    BY <1>1, <1>3, <1>4, PartsProceed
  <1> QED
    BY <1>1, <1>4, PartsThrow DEF ReadRepository, value

LEMMA PartsAtDetail ==
  ASSUME PartsInv, FeedInv, NEW r \in Requests, NEW name \in Details, ReadDetail(r, name)
  PROVE  PartsInv'
  <1>1. /\ stage[r] = "reading" /\ feed[r] = "repo" /\ Kept /\ UNCHANGED listing
        /\ Detailed(draft[r].parts) /\ Repository \in DOMAIN draft[r].parts
    BY DEF ReadDetail, Reading, Has, PartsInv, WholeDraft
  <1>2. CASE Throw(r)
    BY <1>1, <1>2, PartsThrow
  <1>3. ASSUME ~Throw(r) PROVE PartsInv'
    <2>1. PICK said \in {"200", "503"} \cup (IF name \in Optional THEN Missing ELSE {}) :
             /\ ~(said # "200" /\ ~Absent(name, said))
             /\ IF Has(With(draft[r], Part(<<name, 0>>, said)), Details \X {0})
                THEN Answer(r, With(draft[r], Part(<<name, 0>>, said)))
                ELSE Proceed(r, With(draft[r], Part(<<name, 0>>, said)), 0, {})
      BY <1>3 DEF ReadDetail
    <2> DEFINE value == With(draft[r], Part(<<name, 0>>, said))
    <2>2. name \in Optional => said \in {"200"} \cup Missing
      BY <2>1 DEF Absent
    <2>3. /\ DOMAIN value.parts = {<<name, 0>>} \cup DOMAIN draft[r].parts
          /\ value.parts[<<name, 0>>] = said
          /\ \A n \in DOMAIN draft[r].parts \ {<<name, 0>>} : value.parts[n] = draft[r].parts[n]
      BY WithPart DEF FeedInv, Typed
    <2> HIDE DEF value
    <2>4. /\ Detailed(value.parts)
          /\ Details \X {0} \subseteq DOMAIN value.parts => WholeRepository(value.parts)
      BY <1>1, <2>2, <2>3, DetailReads
    <2>5. CASE Details \X {0} \subseteq DOMAIN value.parts
      <3>1. Answer(r, value) /\ Whole(feed[r], value.parts)
        BY <1>1, <2>1, <2>4, <2>5 DEF Has, Whole, value
      <3> QED
        BY <1>1, <3>1, PartsAnswer
    <2>6. CASE ~(Details \X {0} \subseteq DOMAIN value.parts)
      <3>1. Proceed(r, value, 0, {})
        BY <2>1, <2>6 DEF Has, value
      <3> QED
        BY <1>1, <2>4, <3>1, PartsProceed
    <2> QED
      BY <2>5, <2>6
  <1> QED
    BY <1>2, <1>3

LEMMA PartsStep == FeedInv /\ PartsInv /\ [Next]_vars => PartsInv'
  <1> SUFFICES ASSUME FeedInv, FeedInv', PartsInv, [Next]_vars PROVE PartsInv'
    BY FeedStep
  <1>1. CASE Next
    BY <1>1, PartsAtGate, PartsAtLookup, PartsAtMarkets, PartsAtProducts, PartsAtQuote,
       PartsAtChunk, PartsAtRepository, PartsAtDetail DEF Next
  <1>2. CASE UNCHANGED vars
    <2>1. UNCHANGED <<clock, cache, stage, feed, began, draft, next, busy, listing, reply>>
      BY <1>2 DEF vars, request
    <2>2. \A f, v : Whole(f, v) => Whole(f, v)'
      BY <2>1, WholeStays, SizeAssumption DEF FeedInv, Typed
    <2>3. WholeCache'
      BY <2>1, <2>2 DEF PartsInv, WholeCache
    <2>4. \A r \in Requests : WholeDraft(r)' /\ WholeAnswer(r)'
      BY <2>1, <2>2 DEF PartsInv, WholeDraft, WholeAnswer
    <2> QED
      BY <2>1, <2>3, <2>4 DEF PartsInv
  <1> QED
    BY <1>1, <1>2

\* However the parts of a value come in, and whoever cached it, an answer has
\* every row, every closed day, every detail that it should.
THEOREM WholeAnswersAlways == Spec => []WholeAnswers
  <1>1. FeedInv /\ PartsInv => WholeAnswers
    BY DEF PartsInv, WholeAnswer, WholeAnswers, Whole, FeedInv, Typed, Feeds
  <1> QED
    BY InitFeedInv, FeedStep, PartsInit, PartsStep, <1>1, PTL DEF Spec

\* The rest of the types.
Counters ==
    /\ ready \in BOOLEAN /\ init \in {"none", "pending", "done"}
    /\ \A k \in Keys : cache[k].expires \in Nat
    /\ next \in [Requests -> Nat] /\ busy \in [Requests -> SUBSET (1..Coins)]

LEMMA CountersStep == FeedInv /\ PartsInv /\ Counters /\ [Next]_vars => Counters'
  <1> SUFFICES ASSUME FeedInv, PartsInv, Counters, [Next]_vars PROVE Counters'
    OBVIOUS
  <1> USE DEF Counters
  <1>1. /\ began \in [Requests -> Nat] /\ DOMAIN cache = Keys /\ clock \in Nat
        /\ feed \in [Requests -> Feeds] /\ Feeds \subseteq Keys /\ "products" \in Keys
        /\ Coins \in Nat \ {0} /\ Chunk \in Nat
    BY SizeAssumption DEF FeedInv, Typed, Keys
  <1>2. ASSUME NEW r \in Requests, NEW key \in Keys PROVE Expiry(r, key) \in Nat
    BY <1>1, TTLType DEF Expiry
  <1>3. ASSUME NEW r \in Requests, NEW to, Leave(r, to), UNCHANGED <<ready, init, cache>>
        PROVE  Counters'
    BY <1>3 DEF Leave
  <1>4. ASSUME NEW r \in Requests, NEW value, Answer(r, value), UNCHANGED <<ready, init>>
        PROVE  Counters'
    <2>1. feed[r] \in Keys /\ Expiry(r, feed[r]) \in Nat
      BY <1>1, <1>2
    <2> QED
      BY <1>1, <1>4, <2>1 DEF Answer, Leave
  <1>5. ASSUME NEW r \in Requests, NEW value, NEW index \in Nat, NEW items \in SUBSET (1..Coins),
               Proceed(r, value, index, items), UNCHANGED <<ready, init>>
        PROVE  Counters'
    BY <1>5 DEF Proceed
  <1>6. ASSUME NEW r \in Requests, NEW value, Join(r, value)
        PROVE  next' \in [Requests -> Nat] /\ busy' \in [Requests -> SUBSET (1..Coins)]
    <2> DEFINE first == IF Has(value, {Markets, Products}) THEN Least(Pool, Coins) ELSE 0
    <2>1. first \in 0..Coins
      BY SizeAssumption DEF Least
    <2>2. busy' = [busy EXCEPT ![r] = 1..first] /\ next' = [next EXCEPT ![r] = first + 1]
      BY <1>6 DEF Join
    <2> HIDE DEF first
    <2>3. 1..first \subseteq 1..Coins /\ first + 1 \in Nat
      BY <1>1, <2>1
    <2> QED
      BY <2>2, <2>3
  <1>7. CASE \/ Tick \/ InitSucceeds \/ InitFails
             \/ \E r \in Requests, paid \in BOOLEAN : Arrive(r, paid)
    BY <1>7 DEF Tick, InitSucceeds, InitFails, Resume, Arrive, request
  <1>8. ASSUME NEW r \in Requests, Lookup(r) PROVE Counters'
    <2>1. Day(clock) - Days \in Nat
      <3>1. clock \div DayLength \in Nat /\ Days \in Nat
        BY <1>1, WindowsGrow, SizeAssumption
      <3> QED
        BY <3>1 DEF Day
    <2> QED
      BY <1>8, <2>1 DEF Lookup
  <1>9. ASSUME NEW r \in Requests, ReadMarkets(r) PROVE Counters'
    BY <1>9, <1>3, <1>6 DEF ReadMarkets, Throw, Kept
  <1>10. ASSUME NEW r \in Requests, ReadProducts(r) PROVE Counters'
    <2>1. Expiry(r, "products") \in Nat
      BY <1>1, <1>2
    <2>2. UNCHANGED <<ready, init>>
      BY <1>10 DEF ReadProducts, Kept
    <2>3. \/ UNCHANGED cache
          \/ \E v : cache' = [cache EXCEPT !["products"] =
                                 [expires |-> Expiry(r, "products"), value |-> v]]
      BY <1>10 DEF ReadProducts, Throw
    <2>4. \A k \in Keys : cache'[k].expires \in Nat
      BY <1>1, <2>1, <2>3
    <2>5. \/ \E v : Join(r, v)
          \/ UNCHANGED <<busy, next>>
          \/ Leave(r, "failed") /\ UNCHANGED cache
      BY <1>10 DEF ReadProducts, Throw
    <2> QED
      BY <1>3, <1>6, <2>2, <2>4, <2>5
  <1>11. ASSUME NEW r \in Requests, NEW i \in 1..Coins, Quote(r, i) PROVE Counters'
    <2> DEFINE more == IF next[r] <= Coins THEN {next[r]} ELSE {}
               items == (busy[r] \ {i}) \cup more
               index == next[r] + Cardinality(more)
    <2>1. next[r] \in 1..(Coins + 1)
      BY <1>11 DEF Quote, Reading, PartsInv, WholeDraft, Pooled
    <2>2. items \in SUBSET (1..Coins) /\ index \in Nat
      <3>1. more \in SUBSET (1..Coins)
        BY <1>1, <2>1
      <3>2. Cardinality({next[r]}) = 1 /\ Cardinality({}) = 0
        BY FS_Singleton, FS_EmptySet
      <3>3. Cardinality(more) \in Nat
        BY <3>2
      <3> HIDE DEF more
      <3> QED
        BY <2>1, <3>1, <3>3
    <2>3. UNCHANGED <<ready, init>> /\ \E v : Answer(r, v) \/ Proceed(r, v, index, items)
      BY <1>11 DEF Quote, Kept
    <2> HIDE DEF index, items
    <2> QED
      BY <1>4, <1>5, <2>2, <2>3
  <1>12. ASSUME NEW r \in Requests, ReadChunk(r) PROVE Counters'
    <2>1. PICK v : \/ Answer(r, v) \/ Proceed(r, v, next[r] + Chunk, {})
                   \/ Leave(r, "failed") /\ UNCHANGED cache
      BY <1>12 DEF ReadChunk, Throw
    <2>2. UNCHANGED <<ready, init>> /\ next[r] + Chunk \in Nat /\ {} \in SUBSET (1..Coins)
      BY <1>1, <1>12 DEF ReadChunk, Kept
    <2>3. CASE Answer(r, v)
      BY <1>4, <2>2, <2>3
    <2>4. CASE Proceed(r, v, next[r] + Chunk, {})
      BY <1>5, <2>2, <2>4
    <2>5. CASE Leave(r, "failed") /\ UNCHANGED cache
      BY <1>3, <2>2, <2>5
    <2> QED
      BY <2>1, <2>3, <2>4, <2>5
  <1>13. ASSUME NEW r \in Requests, NEW name \in Details, ReadRepository(r) \/ ReadDetail(r, name)
         PROVE  Counters'
    <2>1. /\ UNCHANGED <<ready, init>>
          /\ \E v : \/ Answer(r, v) \/ Proceed(r, v, 0, {})
                    \/ Leave(r, "failed") /\ UNCHANGED cache
      BY <1>13 DEF ReadRepository, ReadDetail, Throw, Kept
    <2>2. 0 \in Nat /\ {} \in SUBSET (1..Coins)
      OBVIOUS
    <2> QED
      BY <1>3, <1>4, <1>5, <2>1, <2>2
  <1>14. CASE UNCHANGED vars
    BY <1>14 DEF vars, request
  <1>15. Details # {}
    BY SizeAssumption
  <1> QED
    BY <1>7, <1>8, <1>9, <1>10, <1>11, <1>12, <1>13, <1>14, <1>15 DEF Next

\* Types of the gate, the cache and the requests.
THEOREM FeedsTypeCorrect == Spec => []TypeOK
  <1>1. Init => Counters
    <2> SUFFICES ASSUME Init PROVE Counters
      OBVIOUS
    <2>1. next \in [Requests -> Nat] /\ busy \in [Requests -> SUBSET (1..Coins)]
      BY DEF Init
    <2>2. ready \in BOOLEAN /\ init \in {"none", "pending", "done"}
          /\ \A k \in Keys : cache[k].expires \in Nat
      BY DEF Init
    <2> QED
      BY <2>1, <2>2 DEF Counters
  <1>2. FeedInv /\ Counters => TypeOK
    BY DEF FeedInv, Typed, Counters, TypeOK, Stages, Shaped, IsValue
  <1> QED
    BY InitFeedInv, FeedStep, PartsInit, PartsStep, <1>1, CountersStep, <1>2, PTL DEF Spec

-----------------------------------------------------------------------------
(* RepoScan: the limit. *)

\* So does the quota, taken once for every window.
LEMMA QuotaGrows ==
  ASSUME NEW x \in Nat, NEW y \in Nat, x <= y, NEW k \in Nat
  PROVE  /\ k * x \in Nat /\ k * x <= k * y
         /\ k * (x + 1) = k * x + k
  OBVIOUS

\* Calls are counted by the window they fell into; those before the current
\* window are bounded by the windows there can have been, and those of the last
\* Window seconds before it by one quota.
Counted ==
    /\ \A s, t \in 0..now : s <= t => passed[s] <= passed[t]
    /\ passed[now] = Upto(windowStart - 1) + count
    /\ now - windowStart >= Window => passed[now] = Upto(now - 1)
    /\ Upto(windowStart - 1) <= Quota * (windowStart \div Window)
    /\ Upto(windowStart - 1) - Upto(windowStart - 1 - Window) <= Quota

\* The types of the limiter.
LimiterOK ==
    /\ now \in 0..LastSecond /\ windowStart \in 0..now /\ count \in 0..Quota
    /\ passed \in [0..LastSecond -> Nat]

LimitInv == LimiterOK /\ Counted /\ QuotaKept

LEMMA UptoFacts ==
  ASSUME LimiterOK, Counted, NEW s \in Int, NEW t \in Int, s <= t, t <= now
  PROVE  Upto(s) \in Nat /\ Upto(t) \in Nat /\ Upto(s) <= Upto(t)
  <1>1. now \in Nat /\ now <= LastSecond /\ LastSecond \in Nat
    BY ScanAssumption DEF LimiterOK
  <1>2. \A u \in 0..now : Upto(u) = passed[u] /\ passed[u] \in Nat
    BY <1>1 DEF LimiterOK, Upto
  <1>3. \A u \in Int : u < 0 => Upto(u) = 0
    BY DEF Upto
  <1>4. CASE s < 0
    BY <1>1, <1>2, <1>3, <1>4
  <1>5. CASE s >= 0
    <2>1. s \in 0..now /\ t \in 0..now
      BY <1>1, <1>5
    <2> QED
      BY <1>2, <2>1 DEF Counted
  <1> QED
    BY <1>4, <1>5

\* QuotaKept at this second.
QuotaHere ==
    /\ Upto(now) <= Quota * (now \div Window + 1)
    /\ Upto(now) - Upto(now - Window) <= 2 * Quota

LEMMA QuotaNow == LimiterOK /\ Counted => QuotaHere
  <1> SUFFICES ASSUME LimiterOK, Counted PROVE QuotaHere
    OBVIOUS
  <1>1. /\ now \in Nat /\ windowStart \in Nat /\ windowStart <= now /\ count \in Nat
        /\ count <= Quota /\ Quota \in Nat /\ Window \in Nat \ {0}
    BY ScanAssumption DEF LimiterOK
  <1>2. Upto(now) = Upto(windowStart - 1) + count
    BY <1>1 DEF Counted, Upto
  <1>3. Upto(now) <= Quota * (now \div Window + 1)
    <2> DEFINE x == windowStart \div Window
               y == now \div Window
    <2>1. x \in Nat /\ y \in Nat /\ x <= y
      BY <1>1, WindowsGrow
    <2>2. Upto(windowStart - 1) <= Quota * x
      BY DEF Counted
    <2>3. Upto(windowStart - 1) \in Nat
      BY <1>1, UptoFacts
    <2> HIDE DEF x, y
    <2>4. Quota * x <= Quota * y /\ Quota * (y + 1) = Quota * y + Quota
          /\ Quota * x \in Nat /\ Quota * y \in Nat
      BY <1>1, <2>1, QuotaGrows
    <2>5. Upto(now) <= Quota * (y + 1)
      BY <1>1, <1>2, <2>2, <2>3, <2>4
    <2> QED
      BY <2>5 DEF y
  <1>4. Upto(now) - Upto(now - Window) <= 2 * Quota
    <2>1. Upto(windowStart - 1 - Window) <= Upto(now - Window)
          /\ Upto(windowStart - 1 - Window) \in Nat /\ Upto(now - Window) \in Nat
          /\ Upto(windowStart - 1) \in Nat
      BY <1>1, UptoFacts
    <2>2. Upto(windowStart - 1) - Upto(windowStart - 1 - Window) <= Quota
      BY DEF Counted
    <2> QED
      BY <1>1, <1>2, <2>1, <2>2
  <1> QED
    BY <1>3, <1>4 DEF QuotaHere

LEMMA LimitInit == ScanInit => LimiterOK /\ Counted
  <1> SUFFICES ASSUME ScanInit PROVE LimiterOK /\ Counted
    OBVIOUS
  <1>1. LimiterOK
    BY ScanAssumption DEF ScanInit, LimiterOK
  <1>2. \A t \in Int : t <= 0 => Upto(t) = 0
    BY ScanAssumption DEF ScanInit, Upto
  <1>3. Quota \in Nat /\ Window \in Nat \ {0} /\ 0 \div Window \in Nat
    BY ScanAssumption, WindowsGrow
  <1>4. Quota * (0 \div Window) >= 0
    BY <1>3, QuotaGrows
  <1>5. now = 0 /\ windowStart = 0 /\ count = 0 /\ passed[0] = 0
    BY ScanAssumption DEF ScanInit
  <1>6. \A s, t \in 0..now : s <= t => passed[s] <= passed[t]
    BY <1>5
  <1>7. Upto(-1) = 0 /\ Upto(-1 - Window) = 0
    BY <1>2, <1>3
  <1>8. Upto(windowStart - 1) = 0 /\ Upto(windowStart - 1 - Window) = 0 /\ Upto(now - 1) = 0
    BY <1>5, <1>7
  <1> QED
    BY <1>1, <1>3, <1>4, <1>5, <1>6, <1>8 DEF Counted

LEMMA SecondCounts ==
  ASSUME LimitInv, Second
  PROVE  LimiterOK' /\ Counted'
  <1> USE DEF LimitInv
  <1>1. /\ now \in Nat /\ now' = now + 1 /\ now' \in 0..LastSecond
        /\ windowStart \in Nat /\ windowStart <= now
        /\ UNCHANGED <<windowStart, count>>
        /\ passed' \in [0..LastSecond -> Nat] /\ passed'[now'] = passed[now]
        /\ \A t \in 0..now : passed'[t] = passed[t]
        /\ Window \in Nat \ {0} /\ Quota \in Nat /\ LastSecond \in Nat
    <2>1. Window \in Nat \ {0} /\ Quota \in Nat /\ LastSecond \in Nat
      BY ScanAssumption
    <2>2. /\ now \in Nat /\ now < LastSecond /\ windowStart \in Nat /\ windowStart <= now
          /\ passed \in [0..LastSecond -> Nat]
      BY <2>1 DEF Second, LimiterOK
    <2>3. /\ now' = now + 1 /\ passed' = [passed EXCEPT ![now + 1] = passed[now]]
          /\ UNCHANGED <<windowStart, count>>
      BY DEF Second
    <2> HIDE DEF LimitInv
    <2>4. /\ now' \in 0..LastSecond /\ now + 1 \in 0..LastSecond
          /\ \A t \in 0..now : t \in 0..LastSecond /\ t # now + 1
      BY <2>1, <2>2, <2>3
    <2>5. passed[now] \in Nat
      BY <2>1, <2>2
    <2>6. passed' \in [0..LastSecond -> Nat] /\ passed'[now'] = passed[now]
      BY <2>2, <2>3, <2>4, <2>5
    <2>7. \A t \in 0..now : passed'[t] = passed[t]
      BY <2>2, <2>3, <2>4
    <2> QED
      BY <2>1, <2>2, <2>3, <2>4, <2>6, <2>7
  <1>2. LimiterOK'
    BY <1>1 DEF LimiterOK
  <1>3. \A t \in Int : t <= now => Upto(t)' = Upto(t)
    <2> SUFFICES ASSUME NEW t \in Int, t <= now PROVE Upto(t)' = Upto(t)
      OBVIOUS
    <2>1. CASE t < 0
      BY <2>1 DEF Upto
    <2>2. CASE t >= 0
      <3>1. passed'[t] = passed[t] /\ ~(t < 0)
        BY <1>1, <2>2
      <3> QED
        BY <3>1 DEF Upto
    <2> QED
      BY <2>1, <2>2
  <1>4. \A s, t \in 0..now' : s <= t => passed'[s] <= passed'[t]
    <2> SUFFICES ASSUME NEW s \in 0..now', NEW t \in 0..now', s <= t
                 PROVE  passed'[s] <= passed'[t]
      OBVIOUS
    <2>0. \A a, b \in 0..now : a <= b => passed[a] <= passed[b]
      BY DEF Counted
    <2>1. CASE t <= now
      BY <1>1, <2>0, <2>1
    <2>2. CASE t = now' /\ s <= now
      BY <1>1, <2>0, <2>2
    <2>3. CASE s = now' /\ t = now'
      BY <1>1, <2>3
    <2> QED
      BY <1>1, <2>1, <2>2, <2>3
  <1>5. /\ Upto(windowStart - 1)' = Upto(windowStart - 1)
        /\ Upto(windowStart - 1 - Window)' = Upto(windowStart - 1 - Window)
        /\ Upto(now - 1)' = passed[now]
    BY <1>1, <1>3 DEF Upto
  <1> QED
    BY <1>1, <1>2, <1>4, <1>5 DEF Counted

LEMMA CallCounts ==
  ASSUME LimitInv, Call
  PROVE  LimiterOK' /\ Counted'
  <1> USE DEF LimitInv
  <1>1. /\ now \in Nat /\ now \in 0..LastSecond /\ windowStart \in Nat /\ windowStart <= now
        /\ count \in 0..Quota /\ passed[now] \in Nat /\ now' = now
        /\ Window \in Nat \ {0} /\ Quota \in Nat \ {0} /\ LastSecond \in Nat
    BY ScanAssumption DEF Call, LimiterOK
  <1>2. CASE Opened.used >= Quota
    <2>1. windowStart' = windowStart /\ count' = count /\ passed' = passed
      BY <1>1, <1>2 DEF Call, Opened
    <2> QED
      BY <1>1, <2>1 DEF LimiterOK, Counted, Upto
  <1>3. CASE Opened.used < Quota
    <2>1. /\ passed' \in [0..LastSecond -> Nat] /\ passed'[now] = passed[now] + 1
          /\ \A t \in 0..LastSecond : t # now => passed'[t] = passed[t]
          /\ count' = Opened.used + 1 /\ windowStart' = Opened.start
      BY <1>1, <1>3 DEF Call, LimiterOK, Opened
    <2>2. \A t \in Int : t < now => Upto(t)' = Upto(t)
      BY <1>1, <2>1 DEF Upto
    <2>3. \A s, t \in 0..now' : s <= t => passed'[s] <= passed'[t]
      <3> SUFFICES ASSUME NEW s \in 0..now, NEW t \in 0..now, s <= t
                   PROVE  passed'[s] <= passed'[t]
        BY <1>1
      <3>1. passed[s] <= passed[t]
        BY DEF Counted
      <3>2. passed[s] \in Nat /\ passed[t] \in Nat
        BY <1>1 DEF LimiterOK
      <3>3. s \in 0..LastSecond /\ t \in 0..LastSecond /\ (t # now => s # now)
        BY <1>1
      <3>4. passed'[now] = passed[now] + 1
        BY <2>1
      <3>5. (s # now => passed'[s] = passed[s]) /\ (t # now => passed'[t] = passed[t])
        BY <2>1, <3>3
      <3> HIDE DEF LimitInv
      <3>6. CASE t # now
        BY <3>1, <3>3, <3>5, <3>6
      <3>7. CASE t = now /\ s = now
        BY <1>1, <3>4, <3>7
      <3>8. CASE t = now /\ s # now
        <4>1. passed'[t] = passed[t] + 1 /\ passed'[s] = passed[s]
          BY <3>4, <3>5, <3>8
        <4> QED
          BY <3>1, <3>2, <4>1
      <3> QED
        BY <3>6, <3>7, <3>8
    <2>4. CASE now - windowStart < Window
      <3>1. windowStart' = windowStart /\ count' = count + 1 /\ count < Quota
        BY <1>1, <1>3, <2>1, <2>4 DEF Opened
      <3>2. /\ Upto(windowStart - 1)' = Upto(windowStart - 1)
            /\ Upto(windowStart - 1 - Window)' = Upto(windowStart - 1 - Window)
            /\ Upto(windowStart - 1) \in Nat
        BY <1>1, <2>2, <3>1, UptoFacts
      <3>3. LimiterOK'
        BY <1>1, <2>1, <3>1 DEF LimiterOK
      <3>4. passed'[now'] = Upto(windowStart - 1)' + count'
        BY <1>1, <2>1, <3>1, <3>2 DEF Counted
      <3> QED
        BY <1>1, <2>3, <2>4, <3>1, <3>2, <3>3, <3>4 DEF Counted
    <2>5. CASE now - windowStart >= Window
      <3> DEFINE x == windowStart \div Window
                 y == now \div Window
      <3>1. windowStart' = now /\ count' = 1
        BY <1>1, <2>1, <2>5 DEF Opened
      <3>2. /\ Upto(windowStart - 1)' = Upto(now - 1)
            /\ Upto(windowStart - 1 - Window)' = Upto(now - 1 - Window)
        BY <1>1, <2>2, <3>1
      <3>3. /\ Upto(now - 1) = passed[now] /\ passed[now] = Upto(windowStart - 1) + count
            /\ Upto(windowStart - 1) \in Nat
        BY <1>1, <2>5, UptoFacts DEF Counted
      <3>4. LimiterOK'
        BY <1>1, <2>1, <3>1 DEF LimiterOK
      <3>5. Upto(now - 1) <= Quota * y
        <4>1. x \in Nat /\ y \in Nat /\ x + 1 <= y
          BY <1>1, <2>5, WindowsGrow
        <4>2. Upto(windowStart - 1) <= Quota * x
          BY DEF Counted
        <4> HIDE DEF x, y
        <4>3. Quota * (x + 1) <= Quota * y /\ Quota * (x + 1) = Quota * x + Quota
              /\ Quota * x \in Nat /\ Quota * (x + 1) \in Nat /\ Quota * y \in Nat
          BY <1>1, <4>1, QuotaGrows
        <4> QED
          BY <1>1, <3>3, <4>2, <4>3
      <3>6. Upto(now - 1) - Upto(now - 1 - Window) <= Quota
        <4>1. Upto(windowStart - 1) <= Upto(now - 1 - Window) /\ Upto(now - 1 - Window) \in Nat
          BY <1>1, <2>5, UptoFacts
        <4> QED
          BY <1>1, <3>3, <4>1
      <3>7. now' - windowStart' < Window /\ Window \in Int
        BY <1>1, <3>1
      <3>8. passed'[now'] = Upto(windowStart - 1)' + count'
        BY <1>1, <2>1, <3>1, <3>2, <3>3
      <3> QED
        BY <1>1, <2>3, <3>1, <3>2, <3>4, <3>5, <3>6, <3>7, <3>8 DEF Counted
    <2> QED
      BY <1>1, <2>4, <2>5
  <1> QED
    <2>1. Opened.used \in Nat
      BY <1>1 DEF Opened
    <2> QED
      BY <1>1, <1>2, <1>3, <2>1

\* Calls have been let through for good: the quota of past seconds stays kept.
LEMMA QuotaStays ==
  ASSUME LimitInv, LimiterOK', Counted', now' \in {now, now + 1},
         \A t \in 0..(now - 1) : passed'[t] = passed[t],
         now' = now + 1 => passed'[now] = passed[now]
  PROVE  QuotaKept'
  <1> USE DEF LimitInv
  <1>1. now \in Nat /\ now' \in Nat /\ Window \in Nat \ {0}
    BY ScanAssumption DEF LimiterOK
  <1>2. QuotaHere'
    BY QuotaNow, PTL
  <1>3. ASSUME NEW t \in 0..now', t # now'
        PROVE  /\ Upto(t)' <= Quota * (t \div Window + 1)
               /\ Upto(t)' - Upto(t - Window)' <= 2 * Quota
    <2>1. t \in 0..now /\ Upto(t)' = Upto(t) /\ Upto(t - Window)' = Upto(t - Window)
      BY <1>1, <1>3 DEF Upto
    <2> QED
      BY <2>1 DEF QuotaKept
  <1> QED
    BY <1>2, <1>3 DEF QuotaKept, QuotaHere

LEMMA LimitStep == LimitInv /\ [ScanNext]_scanVars => LimitInv'
  <1> SUFFICES ASSUME LimitInv, [ScanNext]_scanVars PROVE LimitInv'
    OBVIOUS
  <1>0. now \in Nat /\ now \in 0..LastSecond /\ LastSecond \in Nat
    BY ScanAssumption DEF LimitInv, LimiterOK
  <1>1. CASE Second
    <2>1. LimiterOK' /\ Counted'
      BY <1>1, SecondCounts
    <2>2. now' = now + 1 /\ \A t \in 0..now : passed'[t] = passed[t]
      BY <1>0, <1>1 DEF Second, LimitInv, LimiterOK
    <2> QED
      BY <1>0, <2>1, <2>2, QuotaStays DEF LimitInv
  <1>2. CASE Call
    <2>1. LimiterOK' /\ Counted'
      BY <1>2, CallCounts
    <2>2. now' = now /\ \A t \in 0..(now - 1) : passed'[t] = passed[t]
      BY <1>0, <1>2 DEF Call, LimitInv, LimiterOK
    <2> QED
      BY <1>0, <2>1, <2>2, QuotaStays DEF LimitInv
  <1>3. CASE UNCHANGED <<now, limiter>>
    BY <1>3 DEF limiter, LimitInv, LimiterOK, Counted, QuotaKept, Upto
  <1>4. [ScanNext]_scanVars => Second \/ Call \/ UNCHANGED <<now, limiter>>
    BY DEF ScanNext, scanVars, Change, Reject, Fail, ReadArchived, ReadIssues, ReadPulls
  <1> QED
    BY <1>1, <1>2, <1>3, <1>4

\* However the calls with the token come, a window that begins when the last one
\* has ended lets no more than the quota through for each Window since the
\* start, and no more than twice the quota in any span of one Window.
THEOREM QuotaKeptAlways == ScanSpec => []QuotaKept
  <1>1. ScanInit => LimitInv
    <2> SUFFICES ASSUME ScanInit PROVE LimitInv
      OBVIOUS
    <2>1. LimiterOK /\ Counted /\ now = 0
      BY LimitInit DEF ScanInit
    <2> QED
      BY <2>1, QuotaNow DEF LimitInv, QuotaKept, QuotaHere
  <1>2. LimitInv => QuotaKept
    BY DEF LimitInv
  <1> QED
    BY <1>1, <1>2, LimitStep, PTL DEF ScanSpec

-----------------------------------------------------------------------------
(* RepoScan: the pick. *)

LEMMA ScoreType ==
  ASSUME NEW i \in Issues, NEW n \in Nat
  PROVE  Score(i, n) \in 0..100
  <1> DEFINE t == Traits[i]
  <1>1. OfLabels(t.labels) \in Int
    <2> DEFINE Found(names) == Cardinality(t.labels \cap names)
    <2>1. IsFiniteSet(t.labels)
      BY GitHubAssumption
    <2> HIDE DEF t
    <2>2. ASSUME NEW names PROVE Found(names) \in Nat
      BY <2>1, FS_Subset, FS_CardinalityType
    <2>3. /\ Found({"good first issue"}) \in Nat /\ Found(Wanted) \in Nat
          /\ Found({"bug"}) \in Nat /\ Found(Risky) \in Nat
      BY <2>2
    <2>4. \A a, b, c, d \in Nat : 25 * a + 20 * b + 5 * c - 20 * d \in Int
      OBVIOUS
    <2> QED
      BY <2>3, <2>4 DEF OfLabels
  <1>2. OfComments(t.comments) \in Int /\ OfAge(t.age) \in Int
    BY GitHubAssumption DEF OfComments, OfAge
  <1>3. Bounded(25 * n, 0, 50) \in Int
    BY DEF Bounded
  <1>4. \A x \in Int : Bounded(x, 0, 100) \in 0..100
    BY DEF Bounded
  <1> HIDE DEF t
  <1> QED
    BY <1>1, <1>2, <1>3, <1>4 DEF Score, t

LEMMA ScoreInType ==
  ASSUME NEW i \in Issues, NEW prs \in SUBSET Pulls
  PROVE  ScoreIn(i, prs) \in 0..100
  <1>1. Competition(i, prs) \in SUBSET Pulls
    BY DEF Competition
  <1>2. Cardinality(Competition(i, prs)) \in Nat
    BY <1>1, FS_Subset, FS_CardinalityType, GitHubAssumption
  <1> QED
    BY <1>2, ScoreType DEF ScoreIn

\* The first of a ranking is one of the rows, and none of them scores higher.
LEMMA TopOfRanking ==
  ASSUME NEW rows \in SUBSET Issues, NEW prs \in SUBSET Pulls,
         NEW ranked \in Rankings(rows, prs)
  PROVE  /\ DOMAIN ranked \subseteq 1..Candidates
         /\ DOMAIN ranked # {} =>
              /\ ranked[1] \in rows
              /\ \A i \in rows : ScoreIn(i, prs) <= ScoreIn(ranked[1], prs)
  <1> DEFINE size == Bounded(Cardinality(rows), 0, Candidates)
             places == 1..size
  <1>1. Cardinality(rows) \in Nat /\ Candidates \in Nat
    BY FS_Subset, FS_CardinalityType, GitHubAssumption, ScanAssumption
  <1>2. size \in 0..Candidates
    BY <1>1 DEF Bounded
  <1>3. ranked \in [places -> rows]
    BY DEF Rankings
  <1>4. /\ \A m, n \in places :
             m < n => ranked[m] # ranked[n] /\ Before(ranked[m], ranked[n], prs)
        /\ \A i \in rows : \/ \E n \in places : ranked[n] = i
                          \/ \A n \in places : Before(ranked[n], i, prs)
    BY DEF Rankings
  <1> HIDE DEF size
  <1>5. DOMAIN ranked \subseteq 1..Candidates
    BY <1>1, <1>2, <1>3
  <1>6. ASSUME DOMAIN ranked # {}
        PROVE  /\ ranked[1] \in rows
               /\ \A i \in rows : ScoreIn(i, prs) <= ScoreIn(ranked[1], prs)
    <2>1. 1 \in places
      BY <1>2, <1>3, <1>6
    <2>2. ranked[1] \in rows
      BY <1>3, <2>1
    <2>3. ASSUME NEW i \in rows PROVE ScoreIn(i, prs) <= ScoreIn(ranked[1], prs)
      <3>1. ScoreIn(i, prs) \in Int /\ ScoreIn(ranked[1], prs) \in Int
        BY <2>2, ScoreInType
      <3>2. i = ranked[1] \/ Before(ranked[1], i, prs)
        <4>1. CASE \A n \in places : Before(ranked[n], i, prs)
          BY <2>1, <4>1
        <4>2. ASSUME NEW n \in places, ranked[n] = i PROVE i = ranked[1] \/ Before(ranked[1], i, prs)
          <5>1. n = 1 \/ 1 < n
            BY <1>2
          <5> QED
            BY <1>4, <2>1, <4>2, <5>1
        <4> QED
          BY <1>4, <4>1, <4>2
      <3> QED
        BY <3>1, <3>2 DEF Before
    <2> QED
      BY <2>2, <2>3
  <1> QED
    BY <1>5, <1>6

\* A page that holds all that is open is all that is open.
LEMMA WholePage ==
  ASSUME NEW open \in SUBSET Pulls, Cardinality(open) <= PageSize, NEW rows \in Page(open)
  PROVE  rows = open
  <1>1. IsFiniteSet(open) /\ Cardinality(open) \in Nat
    BY FS_Subset, FS_CardinalityType, GitHubAssumption
  <1>2. rows \in SUBSET open /\ Cardinality(rows) = Cardinality(open)
    BY <1>1, ScanAssumption DEF Page, Bounded
  <1> QED
    BY <1>1, <1>2, FS_Subset

\* A list that is still to be read hides no pull request that stays open; one
\* that was read holds them all, unless a page was ever too short.
SteadySeen == seenPulls # Unread /\ ~crowded => steady \subseteq seenPulls

PickInv ==
    /\ ScanTypeOK
    /\ Cardinality(pulls) > PageSize => crowded
    /\ call = "repository" => seenIssues = Unread /\ seenPulls = Unread
    /\ call = "answered" => seenIssues \subseteq Issues /\ seenPulls \subseteq Pulls
    /\ SteadySeen
    /\ SoundPick

LEMMA UnreadIsNoList == ~(Unread \subseteq Issues) /\ ~(Unread \subseteq Pulls)
  BY GitHubAssumption DEF Unread

LEMMA NoReportFacts == NoReport.decision = "none" /\ DOMAIN NoReport.candidates = {}
  BY DEF NoReport

LEMMA PickInit == ScanInit => PickInv
  <1> SUFFICES ASSUME ScanInit PROVE PickInv
    OBVIOUS
  <1>1. ScanTypeOK
    <2>1. /\ now \in 0..LastSecond /\ windowStart \in 0..now /\ count \in 0..Quota
          /\ passed \in [0..LastSecond -> Nat] /\ changes \in 0..MaxChanges
      BY ScanAssumption DEF ScanInit
    <2>0. crowded \in BOOLEAN
      <3>1. \A a, b : (a > b) \in BOOLEAN
        OBVIOUS
      <3> QED
        BY <3>1, Zenon DEF ScanInit
    <2>2. /\ issues \subseteq Issues /\ pulls \subseteq Pulls
          /\ closed \in BOOLEAN /\ repository \in BOOLEAN
          /\ call \in Ended \cup {"repository", "rows"} /\ steady \subseteq pulls
          /\ seenIssues = Unread /\ seenPulls = Unread
      BY DEF ScanInit, Ended
    <2>3. DOMAIN report.candidates \subseteq 1..Candidates
      BY NoReportFacts DEF ScanInit
    <2> QED
      BY <2>0, <2>1, <2>2, <2>3 DEF ScanTypeOK
  <1> QED
    BY <1>1, NoReportFacts DEF ScanInit, PickInv, SteadySeen, SoundPick

\* A call that is refused, or a scan that fails, leaves nothing behind.
LEMMA RefuseKeeps ==
  ASSUME PickInv, Refuse, UNCHANGED github,
         now' \in 0..LastSecond, windowStart' \in 0..now', count' \in 0..Quota,
         passed' \in [0..LastSecond -> Nat]
  PROVE  PickInv'
  <1>1. ScanTypeOK'
    BY NoReportFacts DEF PickInv, ScanTypeOK, Refuse, Forget, github, Ended
  <1> QED
    BY <1>1 DEF PickInv, SteadySeen, SoundPick, Refuse, Forget, github

LEMMA ChangeKeeps ==
  ASSUME PickInv, Change
  PROVE  PickInv'
  <1> USE DEF PickInv
  <1>1. /\ issues' \subseteq Issues /\ pulls' \subseteq Pulls /\ closed' \in BOOLEAN
        /\ steady' = steady \cap pulls'
        /\ crowded' = (crowded \/ Cardinality(pulls') > PageSize)
        /\ changes' \in 0..MaxChanges
        /\ UNCHANGED <<now, limiter, call, reads, report>>
    <2>1. issues' \subseteq Issues /\ pulls' \subseteq Pulls /\ closed' \in BOOLEAN
      <3>1. \A S, T : \A x \in T : S \subseteq T => SymDiff(S, {x}) \subseteq T
        BY DEF SymDiff
      <3>2. issues \subseteq Issues /\ pulls \subseteq Pulls /\ closed \in BOOLEAN
        BY DEF ScanTypeOK
      <3>3. \/ (\E i \in Issues : issues' = SymDiff(issues, {i})) /\ UNCHANGED <<pulls, closed>>
            \/ (\E p \in Pulls : pulls' = SymDiff(pulls, {p})) /\ UNCHANGED <<issues, closed>>
            \/ closed' = ~closed /\ UNCHANGED <<issues, pulls>>
        BY DEF Change
      <3> QED
        BY <3>1, <3>2, <3>3
    <2>2. changes' \in 0..MaxChanges
      BY ScanAssumption DEF Change, ScanTypeOK
    <2> QED
      BY <2>1, <2>2 DEF Change
  <1>2. ScanTypeOK'
    BY <1>1 DEF ScanTypeOK, limiter, reads
  <1>3. SteadySeen'
    BY <1>1 DEF SteadySeen, reads, ScanTypeOK
  <1>4. SoundPick'
    BY <1>1 DEF SoundPick, reads, ScoreIn, Competition, ScanTypeOK
  <1> QED
    BY <1>1, <1>2, <1>3, <1>4 DEF reads

\* The second of the lists completes the report.
LEMMA CompleteKeeps ==
  ASSUME PickInv, call = "rows", UNCHANGED <<now, limiter, github>>,
         NEW rows, NEW prs, Complete(rows, prs),
         rows = Unread \/ rows \subseteq Issues, prs = Unread \/ prs \subseteq Pulls,
         prs # Unread /\ ~crowded => steady \subseteq prs
  PROVE  PickInv'
  <1> USE DEF PickInv
  <1>1. /\ seenIssues' = rows /\ seenPulls' = prs /\ UNCHANGED <<steady, repository>>
        /\ UNCHANGED <<now, windowStart, count, passed, issues, pulls, closed, changes, crowded>>
    BY DEF Complete, limiter, github
  <1>2. SteadySeen'
    BY <1>1 DEF SteadySeen
  <1>3. CASE Unread \in {rows, prs}
    <2>1. UNCHANGED <<call, report>>
      BY <1>3 DEF Complete
    <2>2. ScanTypeOK'
      BY <1>1, <2>1 DEF ScanTypeOK
    <2> QED
      BY <1>1, <1>2, <2>1, <2>2 DEF SoundPick
  <1>4. CASE Unread \notin {rows, prs}
    <2>1. PICK ranked \in Rankings(rows, prs) :
             report' = [decision |-> Decision(repository, ranked, prs), candidates |-> ranked]
      BY <1>4 DEF Complete
    <2>2. call' = "answered" /\ rows \in SUBSET Issues /\ prs \in SUBSET Pulls
      BY <1>4 DEF Complete
    <2>3. report'.candidates = ranked /\ report'.decision = Decision(repository, ranked, prs)
      BY <2>1
    <2>4. ScanTypeOK'
      BY <1>1, <2>2, <2>3, TopOfRanking DEF ScanTypeOK, Ended
    <2>5. ASSUME report'.decision = "inspect_top_candidate"
          PROVE  /\ ~repository
                 /\ ~crowded => \A p \in steady : ranked[1] \notin Refs[p]
                 /\ \A i \in rows : ScoreIn(i, prs) <= ScoreIn(ranked[1], prs)
      <3>1. ~repository /\ DOMAIN ranked # {} /\ Uncontested(ranked[1], prs)
        BY <2>3, <2>5 DEF Decision
      <3>2. \A p \in prs : ranked[1] \notin Refs[p]
        BY <3>1 DEF Uncontested, Competition
      <3> QED
        BY <1>4, <2>2, <3>1, <3>2, TopOfRanking
    <2>6. SoundPick'
      BY <1>1, <2>2, <2>3, <2>5 DEF SoundPick, ScoreIn, Competition
    <2> QED
      BY <1>1, <1>2, <2>2, <2>4, <2>6
  <1> QED
    BY <1>3, <1>4

LEMMA PickStep == LimitInv /\ PickInv /\ [ScanNext]_scanVars => PickInv'
  <1> SUFFICES ASSUME LimitInv, LimitInv', PickInv, [ScanNext]_scanVars PROVE PickInv'
    BY LimitStep
  <1> USE DEF PickInv
  <1>0. LimiterOK /\ LimiterOK'
    BY DEF LimitInv
  <1>1. CASE Second
    <2>1. ScanTypeOK'
      BY <1>0, <1>1 DEF Second, ScanTypeOK, LimiterOK, github, reads
    <2> QED
      BY <1>1, <2>1 DEF Second, github, reads, SteadySeen, SoundPick, ScoreIn, Competition
  <1>2. CASE Change
    BY <1>2, ChangeKeeps
  <1>3. CASE Reject
    BY <1>0, <1>3, RefuseKeeps DEF Reject, limiter, LimiterOK
  <1>4. CASE Call
    <2>1. CASE Refuse
      BY <1>0, <1>4, <2>1, RefuseKeeps DEF Call, LimiterOK
    <2>2. CASE call' = "repository" /\ steady' = pulls /\ Forget
      <3>1. ScanTypeOK'
        BY <1>0, <1>4, <2>2, NoReportFacts DEF Call, ScanTypeOK, LimiterOK, github, Forget
      <3> QED
        BY <1>4, <2>2, <3>1 DEF Call, Forget, github, SteadySeen, SoundPick
    <2> QED
      BY <1>4, <2>1, <2>2 DEF Call
  <1>5. CASE Fail
    BY <1>0, <1>5, RefuseKeeps DEF Fail, limiter, LimiterOK
  <1>6. CASE ReadArchived
    <2>1. ScanTypeOK'
      BY <1>0, <1>6 DEF ReadArchived, ScanTypeOK, LimiterOK, limiter, github
    <2> QED
      BY <1>6, <2>1 DEF ReadArchived, github, SteadySeen, SoundPick
  <1>7. CASE ReadIssues
    <2>1. PICK page \in Page(issues \cup pulls) : Complete(page \cap Issues, seenPulls)
      BY <1>7 DEF ReadIssues
    <2>2. page \cap Issues \subseteq Issues
      OBVIOUS
    <2> QED
      BY <1>7, <2>1, <2>2, CompleteKeeps DEF ReadIssues, ScanTypeOK, SteadySeen
  <1>8. CASE ReadPulls
    <2>1. PICK prs \in Page(pulls) : Complete(seenIssues, prs)
      BY <1>8 DEF ReadPulls
    <2>2. prs \subseteq Pulls
      BY <2>1 DEF Page, ScanTypeOK
    <2>3. ~crowded => steady \subseteq prs
      <3>1. ASSUME ~crowded PROVE prs = pulls
        <4>1. pulls \in SUBSET Pulls /\ Cardinality(pulls) \in Nat
          BY FS_Subset, FS_CardinalityType, GitHubAssumption DEF ScanTypeOK
        <4>2. Cardinality(pulls) <= PageSize
          BY <3>1, <4>1, ScanAssumption
        <4> QED
          BY <2>1, <4>1, <4>2, WholePage
      <3> QED
        BY <3>1 DEF ScanTypeOK
    <2> QED
      BY <1>8, <2>1, <2>2, <2>3, CompleteKeeps DEF ReadPulls, ScanTypeOK
  <1>9. CASE UNCHANGED scanVars
    BY <1>9 DEF scanVars, limiter, github, reads, ScanTypeOK, SteadySeen, SoundPick,
       ScoreIn, Competition
  <1> QED
    BY <1>1, <1>2, <1>3, <1>4, <1>5, <1>6, <1>7, <1>8, <1>9 DEF ScanNext

LEMMA PickAlways == ScanSpec => []PickInv
  <1>1. ScanInit => LimitInv
    BY LimitInit, QuotaNow DEF ScanInit, LimitInv, QuotaKept, QuotaHere
  <1> QED
    BY <1>1, PickInit, LimitStep, PickStep, PTL DEF ScanSpec

\* Types of the limiter, of GitHub's lists and of the scan.
THEOREM ScanTypeCorrect == ScanSpec => []ScanTypeOK
  <1>1. PickInv => ScanTypeOK
    BY DEF PickInv
  <1> QED
    BY <1>1, PickAlways, PTL

\* A recommended issue is contested by no pull request that was open throughout
\* the call, and outscored by no issue read, for any repository and any changes.
THEOREM SoundPickAlways == ScanSpec => []SoundPick
  <1>1. PickInv => SoundPick
    BY DEF PickInv
  <1> QED
    BY <1>1, PickAlways, PTL

=============================================================================

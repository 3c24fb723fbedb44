---------------------------- MODULE MarketFeeds ----------------------------
(***************************************************************************)
(* src/index.js: the feeds kept in MARKET_CACHE (the crypto snapshot, the  *)
(* daily candles of one pair, the snapshot of one repository) and the      *)
(* initialisation of the facilitator that a paid route waits for first.    *)
(*                                                                         *)
(* A value is what was read from upstream: its parts by name, the tick of  *)
(* the oldest read (from) and that of its list of products (list).  Of a   *)
(* part only what the properties tell apart is kept; prices, words and     *)
(* layout are left out.  Requests are served concurrently, and every read  *)
(* is a step of its own.                                                   *)
(***************************************************************************)
EXTENDS Integers, FiniteSets

Feeds == {"snapshot", "candles", "repo"}
AllDetails == {"languages", "commits", "release", "package"}

CONSTANTS
    Requests,
    Loads,       \* what the requests ask for, by request
    Details,     \* what is asked of a repository after its own record
    Coins,       \* markets are ranked 1..Coins
    Listed,      \* the ranks whose symbol is traded for USD
    Pool,        \* concurrency of mapWithConcurrency, 8
    Days,        \* the days asked for
    Chunk,       \* maxChunkDays, 280
    DayLength,   \* ticks of a day
    PriceTTL, ListTTL, CandleTTL, RepoTTL,
    LastTick     \* bound on the clock

ASSUME SizeAssumption ==
    /\ {Coins, Pool, Days, Chunk, DayLength} \subseteq Nat \ {0}
    /\ {PriceTTL, ListTTL, CandleTTL, RepoTTL} \subseteq Nat \ {0}
    /\ Loads \subseteq [Requests -> Feeds] /\ Details \subseteq AllDetails /\ Details # {}
    /\ LastTick \in Nat /\ Listed \subseteq 1..Coins

VARIABLES
    clock,
    ready, init,   \* resourceServerReady, resourceServerInitPromise
    cache,         \* MARKET_CACHE: expiresAt and value by key
    stage, feed,   \* where a request is, and what it asks for
    began,         \* its `now`
    draft,         \* what it has read so far
    next, busy,    \* nextIndex or cursor; the items its workers hold
    listing,       \* its call of fetchCoinbaseUsdProducts is under way
    reply          \* the value in its answer

request == <<stage, feed, began, draft, next, busy, listing, reply>>
vars == <<clock, ready, init, cache, request>>

Keys == Feeds \cup {"products"}
Names == ({"markets", "products", "repository"} \cup Details) \X {0}
Markets == <<"markets", 0>>
Products == <<"products", 0>>
Repository == <<"repository", 0>>
Row(i) == <<"row", i>>
DayOf(d) == <<"day", d>>

Least(a, b) == IF a < b THEN a ELSE b
Day(t) == Days + t \div DayLength
Nothing == [from |-> LastTick, list |-> LastTick, parts |-> [n \in {} |-> 0]]
Part(name, x) == [n \in {name} |-> x]
\* v and the parts that have just been read.
With(v, parts) ==
    [v EXCEPT !.from = Least(@, clock),
              !.parts = [n \in DOMAIN parts \cup DOMAIN v.parts |->
                            IF n \in DOMAIN parts THEN parts[n] ELSE v.parts[n]]]
Has(v, names) == names \subseteq DOMAIN v.parts

TTL(key) ==
    CASE key = "snapshot" -> PriceTTL
      [] key = "products" -> ListTTL
      [] key = "candles" -> CandleTTL
      [] key = "repo" -> RepoTTL

IsValue(v) == v.from \in 0..LastTick /\ v.list \in 0..LastTick
TypeOK ==
    /\ clock \in 0..LastTick
    /\ ready \in BOOLEAN /\ init \in {"none", "pending", "done"}
    /\ DOMAIN cache = Keys
    /\ \A k \in Keys : cache[k].expires \in Nat /\ IsValue(cache[k].value)
    /\ stage \in [Requests -> {"idle", "gate", "handler", "reading", "answered", "failed"}]
    /\ feed \in [Requests -> Feeds]
    /\ began \in [Requests -> 0..LastTick]
    /\ \A r \in Requests : IsValue(draft[r]) /\ IsValue(reply[r])
    /\ next \in [Requests -> Nat]
    /\ busy \in [Requests -> SUBSET (1..Coins)]
    /\ listing \in [Requests -> BOOLEAN]

Init ==
    /\ clock = 0 /\ ready = FALSE /\ init = "none"
    /\ cache = [k \in Keys |-> [expires |-> 0, value |-> Nothing]]
    /\ stage = [r \in Requests |-> "idle"]
    /\ feed \in Loads
    /\ began = [r \in Requests |-> 0]
    /\ draft = [r \in Requests |-> Nothing]
    /\ next = [r \in Requests |-> 0]
    /\ busy = [r \in Requests |-> {}]
    /\ listing = [r \in Requests |-> FALSE]
    /\ reply = [r \in Requests |-> Nothing]

-----------------------------------------------------------------------------
(* The gate in front of the paid routes. *)

Tick ==
    /\ clock < LastTick /\ clock' = clock + 1
    /\ UNCHANGED <<ready, init, cache, request>>

\* A request by an open route, whose key may be wrong (the repository feed
\* asks for none), or by a paid one, which joins or starts the
\* initialisation unless that is done.  Clients ask again and again.
Arrive(r, paid) ==
    /\ stage[r] \in {"idle", "answered", "failed"} /\ ~listing[r]
    /\ \E to \in IF paid THEN {IF ready THEN "handler" ELSE "gate"}
                 ELSE {"handler"} \cup (IF feed[r] = "repo" THEN {} ELSE {"failed"}) :
          stage' = [stage EXCEPT ![r] = to]
    /\ init' = IF paid /\ ~ready /\ init = "none" THEN "pending" ELSE init
    /\ reply' = [reply EXCEPT ![r] = Nothing]
    /\ began' = [began EXCEPT ![r] = 0]
    /\ UNCHANGED <<clock, ready, cache, feed, draft, next, busy, listing>>

\* The promise settles, and everyone who awaits it goes on before any other
\* request is looked at.
Resume(to) ==
    /\ init = "pending"
    /\ stage' = [r \in Requests |-> IF stage[r] = "gate" THEN to ELSE stage[r]]
    /\ UNCHANGED <<clock, cache, feed, began, draft, next, busy, listing, reply>>

InitSucceeds == Resume("handler") /\ ready' = TRUE /\ init' = "done"
InitFails == Resume("failed") /\ ready' = ready /\ init' = "none"

-----------------------------------------------------------------------------
(* The cache. *)

Hit(key) == cache[key].expires > clock

\* Mutant of Expiry: the time to live runs from the last read.
ExpiryFromEnd(r, key) == clock + TTL(key)

\* expiresAt counts from `now`, taken before the first read.
Expiry(r, key) == began[r] + TTL(key)

\* getCryptoSnapshot, getDailyMarketCandles and buildRepoSnapshot up to the
\* first await: answer from the cache, or start to read.
Lookup(r) ==
    /\ stage[r] = "handler"
    /\ began' = [began EXCEPT ![r] = clock]
    /\ IF Hit(feed[r])
       THEN /\ stage' = [stage EXCEPT ![r] = "answered"]
            /\ reply' = [reply EXCEPT ![r] = cache[feed[r]].value]
            /\ UNCHANGED <<draft, next, listing>>
       ELSE /\ stage' = [stage EXCEPT ![r] = "reading"]
            /\ next' = [next EXCEPT ![r] =
                           IF feed[r] = "candles" THEN Day(clock) - Days ELSE 0]
            /\ listing' = [listing EXCEPT ![r] = feed[r] = "snapshot" /\ ~Hit("products")]
            /\ draft' = [draft EXCEPT ![r] =
                            IF feed[r] = "snapshot" /\ Hit("products")
                            THEN [cache["products"].value EXCEPT !.from = LastTick]
                            ELSE Nothing]
            /\ UNCHANGED reply
    /\ UNCHANGED <<clock, ready, init, cache, feed, busy>>

\* The call returns or throws, and its variables are gone.
Leave(r, to) ==
    /\ stage' = [stage EXCEPT ![r] = to]
    /\ draft' = [draft EXCEPT ![r] = Nothing]
    /\ next' = [next EXCEPT ![r] = 0]
    /\ busy' = [busy EXCEPT ![r] = {}]

\* The whole value is cached and returned, whatever is in the cache by now.
Answer(r, value) ==
    /\ Leave(r, "answered")
    /\ reply' = [reply EXCEPT ![r] = value]
    /\ cache' = [cache EXCEPT ![feed[r]] =
                    [expires |-> Expiry(r, feed[r]), value |-> value]]

\* Not yet.
Proceed(r, value, index, items) ==
    /\ draft' = [draft EXCEPT ![r] = value]
    /\ next' = [next EXCEPT ![r] = index]
    /\ busy' = [busy EXCEPT ![r] = items]
    /\ UNCHANGED <<stage, reply, cache>>

\* An exception: nothing is cached, what others have cached stays.
Throw(r) == Leave(r, "failed") /\ UNCHANGED <<reply, cache>>

Kept == UNCHANGED <<clock, ready, init, feed, began>>
Reading(r, f) == stage[r] = "reading" /\ feed[r] = f

-----------------------------------------------------------------------------
(* The crypto snapshot. *)

\* Promise.all over the ranking and the list of products: with both, the
\* pool takes its first items.
Join(r, value) ==
    LET first == IF Has(value, {Markets, Products}) THEN Least(Pool, Coins) ELSE 0
    IN  /\ draft' = [draft EXCEPT ![r] = value]
        /\ busy' = [busy EXCEPT ![r] = 1..first]
        /\ next' = [next EXCEPT ![r] = first + 1]

ReadMarkets(r) ==
    /\ Reading(r, "snapshot") /\ ~Has(draft[r], {Markets})
    /\ \/ /\ Join(r, With(draft[r], Part(Markets, "data")))
          /\ UNCHANGED <<stage, reply, cache>>
       \/ Throw(r)
    /\ Kept /\ UNCHANGED listing

\* The list is cached even when the request that asked for it has failed.
ReadProducts(r) ==
    /\ listing[r]
    /\ listing' = [listing EXCEPT ![r] = FALSE]
    /\ \/ /\ cache' = [cache EXCEPT !["products"] =
                          [expires |-> Expiry(r, "products"),
                           value |-> [With(Nothing, Part(Products, "data")) EXCEPT !.list = clock]]]
          /\ IF stage[r] = "reading"
             THEN Join(r, [With(draft[r], Part(Products, "data")) EXCEPT !.list = clock])
             ELSE UNCHANGED <<draft, busy, next>>
          /\ UNCHANGED <<stage, reply>>
       \/ IF stage[r] = "reading" THEN Throw(r)
          ELSE UNCHANGED <<stage, draft, busy, next, reply, cache>>
    /\ Kept

\* Mutant of Place: the index is read again after the ticker has come.
PlaceLast(r, i) == Row(next[r] - 1)

\* results[currentIndex]: the index was taken before the await.
Place(r, i) == Row(i)

\* A ticker that fails leaves a row without quote.  Its worker takes the next
\* item; when the last worker has none, the snapshot is complete.
Quote(r, i) ==
    /\ Reading(r, "snapshot") /\ i \in busy[r]
    /\ \E quote \in {0} \cup (IF i \in Listed THEN {i} ELSE {}) :
          LET value == With(draft[r], Part(Place(r, i), quote))
              more == IF next[r] <= Coins THEN {next[r]} ELSE {}
              items == (busy[r] \ {i}) \cup more
          IN  IF items = {} THEN Answer(r, value)
              ELSE Proceed(r, value, next[r] + Cardinality(more), items)
    /\ Kept /\ UNCHANGED listing

-----------------------------------------------------------------------------
(* The candles and the repository. *)

\* [start, end): whole days, today left out.
InRange(r, d) == d >= Day(began[r]) - Days /\ d < Day(began[r])

\* The exchange returns both ends of the range asked for.
Rows(first, last) == first..last

ReadChunk(r) ==
    /\ Reading(r, "candles")
    /\ \/ LET end == Day(began[r])
              rows == {d \in Rows(next[r], Least(next[r] + Chunk, end)) : InRange(r, d)}
              candles == [n \in {DayOf(d) : d \in rows} |->
                             IF n[2] < Day(clock) THEN "closed" ELSE "open"]
              value == With(draft[r], candles)
          IN  IF next[r] + Chunk >= end THEN Answer(r, value)
              ELSE Proceed(r, value, next[r] + Chunk, {})
       \/ Throw(r)
    /\ Kept /\ UNCHANGED listing

ReadRepository(r) ==
    /\ Reading(r, "repo") /\ ~Has(draft[r], {Repository})
    /\ \/ Proceed(r, With(draft[r], Part(Repository, "200")), 0, {})
       \/ Throw(r)
    /\ Kept /\ UNCHANGED listing

\* Languages and commits are left out on any failure.  A release or a package is
\* null when GitHub says that there is none, and when its 200 is "unread": the
\* body is null, or holds no base64 text that parses as a package.json.
Optional == {"release", "package"}
Missing == {"404", "unread"}
Absent(name, said) == name \notin Optional \/ said \in Missing

\* "503" is any other failure, a body that does not parse as JSON included; that
\* of a package is a SyntaxError, and is caught as unread.
ReadDetail(r, name) ==
    /\ Reading(r, "repo") /\ Has(draft[r], {Repository})
    /\ ~Has(draft[r], {<<name, 0>>})
    /\ \E said \in {"200", "503"} \cup (IF name \in Optional THEN Missing ELSE {}) :
          IF said # "200" /\ ~Absent(name, said) THEN Throw(r)
          ELSE LET value == With(draft[r], Part(<<name, 0>>, said))
               IN  IF Has(value, Details \X {0}) THEN Answer(r, value)
                   ELSE Proceed(r, value, 0, {})
    /\ Kept /\ UNCHANGED listing

-----------------------------------------------------------------------------

Next ==
    \/ Tick \/ InitSucceeds \/ InitFails
    \/ \E r \in Requests :
          \/ \E paid \in BOOLEAN : Arrive(r, paid)
          \/ Lookup(r) \/ ReadMarkets(r) \/ ReadProducts(r)
          \/ \E i \in 1..Coins : Quote(r, i)
          \/ ReadChunk(r) \/ ReadRepository(r)
          \/ \E name \in Details : ReadDetail(r, name)

Spec == Init /\ [][Next]_vars

-----------------------------------------------------------------------------
(* Properties. *)

\* Whoever filled the cache, in whatever order slow and fast readers wrote it,
\* nothing in an answer had been read longer ago than its time to live when
\* the request began; the list of products inside a cached snapshot was
\* itself cached, and may be as old as both times together.
FreshAnswers ==
    \A r \in Requests : stage[r] = "answered" =>
        /\ reply[r].from + TTL(feed[r]) > began[r]
        /\ feed[r] = "snapshot" => reply[r].list + ListTTL + PriceTTL > began[r]

\* An answer is whole however its parts came in: a row for every market, with
\* that market's quote or none; every day of a range of closed days, across
\* chunks and midnight; every detail of a repository.  An outage is never cached
\* as the absence of a release or a package; but a package that GitHub has, and
\* the code cannot decode or parse, is cached and reported as missing.
WholeSnapshot(v) ==
    /\ DOMAIN v = {Markets, Products} \cup {Row(i) : i \in 1..Coins}
    /\ \A i \in 1..Coins : v[Row(i)] \in {0} \cup ({i} \cap Listed)
WholeCandles(v) ==
    /\ \E end \in 0..Day(clock) : DOMAIN v = {DayOf(d) : d \in (end - Days)..(end - 1)}
    /\ \A n \in DOMAIN v : v[n] = "closed"
WholeRepository(v) ==
    /\ DOMAIN v = {Repository} \cup (Details \X {0})
    /\ \A n \in Details \cap Optional : v[<<n, 0>>] \in {"200"} \cup Missing
WholeAnswers ==
    \A r \in Requests : stage[r] = "answered" =>
        CASE feed[r] = "snapshot" -> WholeSnapshot(reply[r].parts)
          [] feed[r] = "candles" -> WholeCandles(reply[r].parts)
          [] feed[r] = "repo" -> WholeRepository(reply[r].parts)

=============================================================================

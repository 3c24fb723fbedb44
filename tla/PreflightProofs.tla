-------------------------- MODULE PreflightProofs --------------------------
(***************************************************************************)
(* Theorems about Preflight and the fetch inside it, for any origins,      *)
(* limits, policies and targets.  What holds of the requests already sent  *)
(* is kept because of what holds of the hop in progress: where it stands   *)
(* in the chain (Path), that its URL has been checked (Checked), whether   *)
(* it still carries secrets (Carried) and its payload (Payload).           *)
(***************************************************************************)
EXTENDS Preflight, FiniteSetTheorems, TLAPS

\* One request has been sent for every hop that reached the wire.
Path ==
    /\ at \in {"check", "lookup"} => Len(sent) = hop
    /\ at \in {"fetch", "body"} => Len(sent) = hop + 1
    /\ Len(sent) <= MaxRedirects + 1
    /\ at = "fetch" => sent[Len(sent)].init = init /\ sent[Len(sent)].to = url

Checked == at = "lookup" => url \notin Barred /\ (HttpsOnly => url \in Secure)

\* The chain has never left the first origin while it carries secrets.
Carried ==
    init.secret => url = call.url /\ \A i \in 1..Len(sent) : sent[i].to = call.url

Payload ==
    /\ init.body = (call.init.body /\ init.method = "POST")
    /\ init.method \in {call.init.method, "GET"}

FetchInv ==
    /\ FetchTypeOK
    /\ Path
    /\ Checked
    /\ Carried
    /\ Payload
    /\ SecretsStayHome
    /\ EveryHopAllowed
    /\ PayloadFollowsMethod

LEMMA FetchInitInv == FetchInit => FetchInv
  <1> SUFFICES ASSUME FetchInit PROVE FetchInv
    OBVIOUS
  <1>1. FetchTypeOK
    BY OriginAssumption, LimitAssumption
    DEF FetchInit, FetchTypeOK, Calls, Inits, Running, Ended, Codes
  <1>2. sent = <<>> /\ Len(sent) = 0
    BY DEF FetchInit
  <1>3. Payload
    BY DEF FetchInit, Payload, Asked, Calls, Inits, Callers, Methods
  <1> QED
    BY <1>1, <1>2, <1>3, LimitAssumption
    DEF FetchInit, FetchInv, Path, Checked, Carried, SecretsStayHome,
        EveryHopAllowed, PayloadFollowsMethod

\* The steps that send nothing and leave the chain where it is.
LEMMA StayInv ==
  ASSUME FetchInv, FetchTypeOK',
         UNCHANGED <<call, url, init, hop, sent>>,
         \/ at' = at
         \/ at' \in Ended
         \/ at = "fetch" /\ at' = "body"
         \/ at = "check" /\ at' = "lookup"
            /\ url \notin Barred /\ (HttpsOnly => url \in Secure)
  PROVE  FetchInv'
  <1>1. Path' /\ Checked'
    BY DEF FetchInv, Path, Checked, Ended, HttpsOnly
  <1>2. Carried' /\ Payload'
    BY DEF FetchInv, Carried, Payload
  <1>3. SecretsStayHome' /\ EveryHopAllowed' /\ PayloadFollowsMethod'
    BY DEF FetchInv, SecretsStayHome, EveryHopAllowed, PayloadFollowsMethod, HttpsOnly
  <1> QED
    BY <1>1, <1>2, <1>3 DEF FetchInv

LEMMA FetchType == FetchTypeOK /\ FetchNext => FetchTypeOK'
  <1> SUFFICES ASSUME FetchTypeOK, FetchNext PROVE FetchTypeOK'
    OBVIOUS
  <1> USE LimitAssumption DEF FetchTypeOK, Fail, Running, Ended, Codes
  <1>1. CASE Check
    BY <1>1 DEF Check
  <1>2. CASE Lookup
    <2>1. Wire(init) \in Requests
      BY DEF Wire, Requests
    <2>2. Append(sent, Wire(init)) \in Seq(Requests)
      BY <2>1
    <2>3. /\ at' \in {"fetch", "failed"} /\ sent' \in Seq(Requests) /\ code' \in Codes
          /\ UNCHANGED <<call, url, init, hop, clock, total>>
      BY <1>2, <2>2 DEF Lookup
    <2> QED
      BY <2>3
  <1>3. CASE Respond
    BY <1>3 DEF Respond
  <1>4. CASE Redirect
    <2>1. ASSUME NEW status \in RedirectStatuses, NEW next \in Origins
          PROVE  NextInit(status, next) \in Inits
      BY DEF NextInit, Inits, Methods
    <2> QED
      BY <1>4, <2>1 DEF Redirect
  <1>5. CASE Unreachable \/ Abort
    BY <1>5 DEF Unreachable, Abort
  <1>6. CASE Read
    BY <1>6 DEF Read, TooLarge, Chunk, LastChunk, Break, ChunkTimeout
  <1>7. CASE Tick
    BY <1>7 DEF Tick
  <1> QED
    BY <1>1, <1>2, <1>3, <1>4, <1>5, <1>6, <1>7 DEF FetchNext, Hop

\* The request of a hop is added to those sent.
LEMMA SendInv ==
  ASSUME FetchInv, FetchTypeOK', at = "lookup", at' = "fetch", clock < Timeout,
         sent' = Append(sent, Wire(init)),
         UNCHANGED <<call, url, init, hop, clock, total>>
  PROVE  FetchInv'
  <1> USE DEF FetchInv
  <1>1. /\ Len(sent') = Len(sent) + 1 /\ Len(sent) \in Nat
        /\ \A i \in 1..Len(sent) : sent'[i] = sent[i]
        /\ sent'[Len(sent) + 1] = [to |-> url, init |-> init, tick |-> clock]
    BY DEF FetchTypeOK, Wire
  <1>2. Path' /\ Checked'
    BY <1>1, LimitAssumption DEF Path, Checked, FetchTypeOK
  <1>3. Carried' /\ Payload'
    BY <1>1 DEF Carried, Payload
  <1>4. SecretsStayHome'
    BY <1>1 DEF SecretsStayHome, Carried
  <1>5. EveryHopAllowed'
    BY <1>1, <1>2 DEF EveryHopAllowed, Checked, Path, HttpsOnly
  <1>6. PayloadFollowsMethod'
    BY <1>1 DEF PayloadFollowsMethod, Payload
  <1> QED
    BY <1>2, <1>3, <1>4, <1>5, <1>6

\* The chain moves on to the next origin.
LEMMA RedirectInv ==
  ASSUME FetchInv, FetchTypeOK', at = "fetch", at' = "check", hop < MaxRedirects,
         NEW status \in RedirectStatuses, NEW next \in Origins,
         init' = NextInit(status, next), url' = next, hop' = hop + 1,
         UNCHANGED <<call, clock, total, sent>>
  PROVE  FetchInv'
  <1> USE DEF FetchInv
  <1>1. Path' /\ Checked'
    BY DEF Path, Checked
  <1>2. Carried'
    BY DEF Carried, NextInit
  <1>3. Payload'
    <2>1. init \in Inits /\ call.init \in Inits
      BY DEF FetchTypeOK, Calls
    <2>2. /\ init'.method = IF ChangesToGet(status, init.method) THEN "GET" ELSE init.method
          /\ init'.body = (init.body /\ ~ChangesToGet(status, init.method))
      BY DEF NextInit
    <2>3. init.method = "POST" /\ ~ChangesToGet(status, init.method) <=> init'.method = "POST"
      BY <2>2, <2>1 DEF Inits, Methods
    <2> QED
      BY <2>1, <2>2, <2>3 DEF Payload
  <1>4. SecretsStayHome' /\ EveryHopAllowed' /\ PayloadFollowsMethod'
    BY DEF SecretsStayHome, EveryHopAllowed, PayloadFollowsMethod, HttpsOnly
  <1> QED
    BY <1>1, <1>2, <1>3, <1>4

LEMMA FetchNextInv == FetchInv /\ FetchNext => FetchInv'
  <1> SUFFICES ASSUME FetchInv, FetchNext PROVE FetchInv'
    OBVIOUS
  <1>t. FetchTypeOK'
    BY FetchType DEF FetchInv
  <1>1. CASE Check
    <2>1. \/ at' \in Ended
          \/ at' = "lookup" /\ url \notin Barred /\ (HttpsOnly => url \in Secure)
      BY <1>1 DEF Check, Fail, Ended
    <2> QED
      BY <1>1, <1>t, <2>1, StayInv DEF Check
  <1>2. CASE Lookup
    <2>1. CASE at' = "failed" /\ UNCHANGED sent
      BY <1>2, <2>1, <1>t, StayInv DEF Lookup, Ended
    <2>2. CASE clock < Timeout /\ sent' = Append(sent, Wire(init)) /\ at' = "fetch"
      BY <1>2, <2>2, <1>t, SendInv DEF Lookup
    <2> QED
      BY <1>2, <2>1, <2>2 DEF Lookup, Fail
  <1>3. CASE Respond
    <2>1. at' = "body" \/ at' \in Ended
      BY <1>3 DEF Respond, Ended
    <2> QED
      BY <1>3, <1>t, <2>1, StayInv DEF Respond
  <1>4. CASE Redirect
    <2>1. CASE at' = "failed" /\ UNCHANGED <<url, init, hop>>
      BY <1>4, <2>1, <1>t, StayInv DEF Redirect, Ended
    <2>2. CASE hop # MaxRedirects /\ \E status \in RedirectStatuses, next \in Origins :
                  /\ init' = NextInit(status, next)
                  /\ url' = next /\ hop' = hop + 1
                  /\ at' = "check" /\ code' = code
      <3>1. hop < MaxRedirects
        BY <2>2, LimitAssumption DEF FetchInv, FetchTypeOK
      <3> QED
        BY <1>4, <2>2, <3>1, <1>t, RedirectInv DEF Redirect
    <2> QED
      BY <1>4, <2>1, <2>2 DEF Redirect, Fail
  <1>5. CASE Unreachable \/ Abort
    BY <1>5, <1>t, StayInv DEF Unreachable, Abort, Fail, Ended
  <1>6. CASE Read
    BY <1>6, <1>t, StayInv
    DEF Read, TooLarge, Chunk, LastChunk, Break, ChunkTimeout, Fail, Ended
  <1>7. CASE Tick
    BY <1>7, <1>t, StayInv DEF Tick
  <1> QED
    BY <1>1, <1>2, <1>3, <1>4, <1>5, <1>6, <1>7 DEF FetchNext, Hop

LEMMA FetchInvariance == Spec => []FetchInv
  <1>1. Init => FetchInv
    BY FetchInitInv DEF Init
  <1>2. FetchInv /\ [Next]_vars => FetchInv'
    <2> SUFFICES ASSUME FetchInv, [Next]_vars PROVE FetchInv'
      OBVIOUS
    <2>1. CASE FetchNext
      BY <2>1, FetchNextInv
    <2>2. CASE UNCHANGED fvars
      BY <2>2
      DEF fvars, FetchInv, FetchTypeOK, Path, Checked, Carried, Payload, SecretsStayHome,
          EveryHopAllowed, PayloadFollowsMethod, HttpsOnly
    <2> QED
      BY <2>1, <2>2
      DEF Next, MainProbe, Inspect, vars, Receive, Guard, Pass, CorsProbe, MainFails,
          ProbesDone, DocumentsDone, DocumentBreaks
  <1> QED
    BY <1>1, <1>2, PTL DEF Spec

\* Credentials and payment headers never reach a second origin, nor the first
\* one again, whatever the chain of redirects.
THEOREM SecretsStayHomeAlways == Spec => []SecretsStayHome
  <1>1. FetchInv => SecretsStayHome
    BY DEF FetchInv
  <1> QED
    BY <1>1, FetchInvariance, PTL

\* Every hop went to an origin the policy allows, in time, within the limit.
THEOREM EveryHopAllowedAlways == Spec => []EveryHopAllowed
  <1>1. FetchInv => EveryHopAllowed
    BY DEF FetchInv
  <1> QED
    BY <1>1, FetchInvariance, PTL

\* A payload travels with its POST, and with nothing else.
THEOREM PayloadFollowsMethodAlways == Spec => []PayloadFollowsMethod
  <1>1. FetchInv => PayloadFollowsMethod
    BY DEF FetchInv
  <1> QED
    BY <1>1, FetchInvariance, PTL
-----------------------------------------------------------------------------
(* The report.  It is written once, from the findings, and these are facts *)
(* about the findings of any observation.                                  *)

LEMMA WhenFinite == ASSUME NEW c, NEW f PROVE IsFiniteSet(When(c, f))
  BY FS_EmptySet, FS_Singleton DEF When

LEMMA FiveFinite ==
  ASSUME NEW A, NEW B, NEW C, NEW D, NEW E, IsFiniteSet(A), IsFiniteSet(B),
         IsFiniteSet(C), IsFiniteSet(D), IsFiniteSet(E)
  PROVE  IsFiniteSet(A \cup B \cup C \cup D \cup E)
  <1>1. IsFiniteSet(A \cup B)
    BY FS_Union
  <1>2. IsFiniteSet(A \cup B \cup C)
    BY <1>1, FS_Union
  <1>3. IsFiniteSet(A \cup B \cup C \cup D)
    BY <1>2, FS_Union
  <1> QED
    BY <1>3, FS_Union

LEMMA FindingsFinite ==
  ASSUME NEW t, NEW p, NEW a, NEW d
  PROVE  IsFiniteSet(Findings(t, p, a, d))
  <1>1. IsFiniteSet(ServedFindings(t))
    BY WhenFinite, FiveFinite DEF ServedFindings
  <1>2. IsFiniteSet(NetworkFindings(t, p)) /\ IsFiniteSet(PriceFindings(t, p))
    BY WhenFinite, FS_Union DEF NetworkFindings, PriceFindings
  <1>3. IsFiniteSet(AuditFindings(t, d))
    <2> DEFINE F(x) == Finding(x, "WARN", "DISCOVERY_NOT_READY", "medium")
               Four == {F("openapi")} \cup {F("llmsTxt")}
                       \cup {F("agentMetadata")} \cup {F("x402Metadata")}
    <2>1. IsFiniteSet({F(x) : x \in Documents \ d})
      <3>1. IsFiniteSet(Four)
        BY FS_Singleton, FS_Union
      <3>2. {F(x) : x \in Documents \ d} \subseteq Four
        BY DEF Documents
      <3> QED
        BY <3>1, <3>2, FS_Subset
    <2> QED
      BY <2>1, WhenFinite, FS_Union DEF AuditFindings
  <1> QED
    BY <1>1, <1>2, <1>3, FS_Union, FS_EmptySet DEF Findings

LEMMA CountFacts ==
  ASSUME NEW S, IsFiniteSet(S), NEW s
  PROVE  /\ Count(S, s) \in Nat
         /\ Count(S, s) = 0 <=> \A f \in S : f.severity # s
         /\ \A T \in SUBSET S : Count(T, s) \in Nat /\ Count(T, s) <= Count(S, s)
  <1> DEFINE Of(T) == {f \in T : f.severity = s}
  <1>1. IsFiniteSet(Of(S))
    BY FS_Subset
  <1>2. Cardinality(Of(S)) = 0 <=> Of(S) = {}
    BY <1>1, FS_EmptySet
  <1>3. ASSUME NEW T \in SUBSET S
        PROVE  Cardinality(Of(T)) \in Nat /\ Cardinality(Of(T)) <= Cardinality(Of(S))
    <2>1. Of(T) \subseteq Of(S)
      OBVIOUS
    <2> QED
      BY <2>1, <1>1, FS_Subset, FS_CardinalityType
  <1>4. Cardinality(Of(S)) \in Nat
    BY <1>1, FS_CardinalityType
  <1> QED
    BY <1>2, <1>3, <1>4 DEF Count

\* Among the findings of a target, those without a severity come with a severe
\* one, a failed check is a severe one, and a challenge is there unless the
\* findings are severe.
LEMMA FindingFacts ==
  ASSUME NEW t \in Targets, NEW p, NEW a \in BOOLEAN, NEW d
  PROVE  LET fs == Findings(t, p, a, d) IN
         /\ (\E f \in fs : f.status = "FAIL") <=> Severe(fs)
         /\ ~Detected(t) => Severe(fs)
         /\ fs = {} <=> ~Severe(fs) /\ ~Mild(fs)
  <1> DEFINE fs == Findings(t, p, a, d)
  <1> USE DEF Finding, When, Findings, ServedFindings
  <1>1. ASSUME ~Detected(t) PROVE Severe(fs)
    <2>1. Finding("challenge", "FAIL", "MISSING_X402_CHALLENGE", "high") \in fs
      BY <1>1
    <2> QED
      BY <2>1 DEF Severe
  <1>2. ~SchemaSound(t) => Severe(fs)
    <2>1. ASSUME Detected(t), ~SchemaSound(t) PROVE Severe(fs)
      <3>1. Finding("schema", "FAIL", "INVALID_X402_CHALLENGE", "high") \in fs
        BY <2>1
      <3> QED
        BY <3>1 DEF Severe
    <2> QED
      BY <1>1, <2>1
  <1>3. ASSUME p.network # None, Network(t) = None PROVE Severe(fs)
    BY <1>3, <1>2 DEF Network, SchemaSound
  <1>5. ASSUME NEW f \in fs
        PROVE  \/ f.severity \in {"critical", "high"} /\ f.status = "FAIL"
               \/ f.severity \in {"medium", "low"} /\ f.status = "WARN"
               \/ f.severity = "none" /\ p.network # None /\ Network(t) = None
    <2>1. CASE f \in ServedFindings(t)
      BY <2>1
    <2>2. CASE f \in NetworkFindings(t, p)
      BY <2>2 DEF NetworkFindings
    <2>3. CASE f \in PriceFindings(t, p)
      BY <2>3 DEF PriceFindings
    <2>4. CASE f \in AuditFindings(t, d)
      BY <2>4 DEF AuditFindings
    <2> QED
      BY <2>1, <2>2, <2>3, <2>4
  <1> HIDE DEF fs
  <1>6. (\E f \in fs : f.status = "FAIL") <=> Severe(fs)
    BY <1>3, <1>5 DEF Severe
  <1>7. fs = {} <=> ~Severe(fs) /\ ~Mild(fs)
    BY <1>3, <1>5 DEF Severe, Mild
  <1> QED
    BY <1>1, <1>6, <1>7 DEF fs

Points(c, h, m, l) ==
    LET penalty == 45 * c + 30 * h + 12 * m + 4 * l
    IN  IF penalty > 100 THEN 0 ELSE 100 - penalty

LEMMA FullPoints ==
  \A c, h, m, l \in Nat :
      Points(c, h, m, l) = 100 <=> c = 0 /\ h = 0 /\ m = 0 /\ l = 0
  BY DEF Points

LEMMA FewerPoints ==
  \A c, h, m, l, c0, h0, m0, l0 \in Nat :
      c0 <= c /\ h0 <= h /\ m0 <= m /\ l0 <= l
      => Points(c, h, m, l) <= Points(c0, h0, m0, l0)
  BY DEF Points

LEMMA ScorePoints ==
  ASSUME NEW fs
  PROVE  Score(fs) = Points(Count(fs, "critical"), Count(fs, "high"),
                            Count(fs, "medium"), Count(fs, "low"))
  BY Zenon DEF Score, Points

\* A full score is the same as nothing found.
LEMMA ScoreFacts ==
  ASSUME NEW t \in Targets, NEW p, NEW a \in BOOLEAN, NEW d
  PROVE  LET fs == Findings(t, p, a, d) IN Score(fs) = 100 <=> fs = {}
  <1> DEFINE fs == Findings(t, p, a, d)
  <1>1. IsFiniteSet(fs)
    BY FindingsFinite
  <1>2. fs = {} <=> ~Severe(fs) /\ ~Mild(fs)
    BY FindingFacts
  <1> HIDE DEF fs
  <1>3. fs = {} <=> /\ Count(fs, "critical") = 0 /\ Count(fs, "high") = 0
                    /\ Count(fs, "medium") = 0 /\ Count(fs, "low") = 0
    BY <1>1, <1>2, CountFacts DEF Severe, Mild
  <1>4. /\ Count(fs, "critical") \in Nat /\ Count(fs, "high") \in Nat
        /\ Count(fs, "medium") \in Nat /\ Count(fs, "low") \in Nat
    BY <1>1, CountFacts
  <1>5. Score(fs) = 100 <=> /\ Count(fs, "critical") = 0 /\ Count(fs, "high") = 0
                            /\ Count(fs, "medium") = 0 /\ Count(fs, "low") = 0
    <2> DEFINE c == Count(fs, "critical")
               h == Count(fs, "high")
               m == Count(fs, "medium")
               l == Count(fs, "low")
    <2>1. c \in Nat /\ h \in Nat /\ m \in Nat /\ l \in Nat
      BY <1>4
    <2>2. Score(fs) = Points(c, h, m, l)
      BY ScorePoints
    <2> HIDE DEF c, h, m, l
    <2>3. Points(c, h, m, l) = 100 <=> c = 0 /\ h = 0 /\ m = 0 /\ l = 0
      BY <2>1, FullPoints
    <2> QED
      BY <2>2, <2>3 DEF c, h, m, l
  <1> QED
    BY <1>3, <1>5 DEF fs

LEMMA SeverityGrows ==
  ASSUME NEW fs, IsFiniteSet(fs), NEW part \in SUBSET fs
  PROVE  Score(fs) <= Score(part)
  <1> DEFINE c == Count(fs, "critical")
             h == Count(fs, "high")
             m == Count(fs, "medium")
             l == Count(fs, "low")
             c0 == Count(part, "critical")
             h0 == Count(part, "high")
             m0 == Count(part, "medium")
             l0 == Count(part, "low")
  <1>1. /\ c \in Nat /\ h \in Nat /\ m \in Nat /\ l \in Nat
        /\ c0 \in Nat /\ h0 \in Nat /\ m0 \in Nat /\ l0 \in Nat
        /\ c0 <= c /\ h0 <= h /\ m0 <= m /\ l0 <= l
    BY CountFacts
  <1>2. Score(fs) = Points(c, h, m, l) /\ Score(part) = Points(c0, h0, m0, l0)
    BY ScorePoints
  <1> HIDE DEF c, h, m, l, c0, h0, m0, l0
  <1>3. Points(c, h, m, l) <= Points(c0, h0, m0, l0)
    BY <1>1, FewerPoints
  <1> QED
    BY <1>2, <1>3

\* What the inspection has by then, and the report as it was concluded.
Normalised ==
    phase \in {"guard", "probing", "discovering", "reported"} =>
        policy.price \in Prices \cup {None}
Observed == phase \in {"discovering", "reported"} => target \in Targets
Concluded ==
    phase = "reported" =>
        LET fs == Findings(target, policy, audit, ready) IN
        report = [findings |-> fs, decision |-> Decision(target, fs), score |-> Score(fs)]
ReportInv ==
    audit \in BOOLEAN /\ policy \in Wishes /\ Normalised /\ Observed /\ Concluded

LEMMA ReportInvariance == Spec => []ReportInv
  <1> USE DEF ReportInv, Normalised, Observed, Concluded
  <1>1. Init => ReportInv
    <2>1. Policies \subseteq Wishes /\ NoPolicy \in Wishes
      BY TargetAssumption DEF Wishes, NoPolicy
    <2> QED
      BY <2>1 DEF Init
  <1>2. ReportInv /\ [Next]_vars => ReportInv'
    <2> SUFFICES ASSUME ReportInv, [Next]_vars PROVE ReportInv'
      OBVIOUS
    <2>1. ASSUME NEW from, NEW to \in {"guard", "probing"}, Pass(from, to)
          PROVE  ReportInv'
      <3>1. Normal(policy) \in Wishes /\ (Valid(policy) => Normal(policy).price \in Prices \cup {None})
        BY PriceAssumption DEF Normal, Valid, Wishes
      <3> QED
        BY <2>1, <3>1 DEF Pass, Stop
    <2>2. CASE MainProbe
      BY <2>2 DEF MainProbe, pvars
    <2>3. CASE CorsProbe
      BY <2>3 DEF CorsProbe, Refuse, Setting
    <2>4. CASE MainFails
      BY <2>4 DEF MainFails, Refuse, Setting
    <2>5. CASE ProbesDone
      <3>1. CASE audit
        BY <2>5, <3>1 DEF ProbesDone, Setting
      <3>2. CASE ~audit
        <4>1. Findings(target', policy, audit, {}) = Findings(target', policy, audit, ready)
          BY <3>2 DEF Findings
        <4> QED
          BY <2>5, <3>2, <4>1 DEF ProbesDone, Setting, Conclude
      <3> QED
        BY <3>1, <3>2
    <2>6. CASE DocumentsDone
      BY <2>6 DEF DocumentsDone, Setting, Conclude
    <2>7. CASE DocumentBreaks
      BY <2>7 DEF DocumentBreaks, Refuse, Setting
    <2>8. CASE UNCHANGED vars
      BY <2>8 DEF vars, pvars
    <2> QED
      BY <2>1, <2>2, <2>3, <2>4, <2>5, <2>6, <2>7, <2>8
      DEF Next, Inspect, Receive, Guard
  <1> QED
    BY <1>1, <1>2, PTL DEF Spec

\* The decision and the score of every report are those its findings call for.
THEOREM VerdictFollowsFindingsAlways == Spec => []VerdictFollowsFindings
  <1>1. ReportInv => VerdictFollowsFindings
    <2> SUFFICES ASSUME ReportInv, phase = "reported"
                 PROVE  VerdictFollowsFindings
      BY DEF VerdictFollowsFindings
    <2> DEFINE fs == Findings(target, policy, audit, ready)
    <2>1. /\ (\E f \in fs : f.status = "FAIL") <=> Severe(fs)
          /\ ~Detected(target) => Severe(fs)
          /\ fs = {} <=> ~Severe(fs) /\ ~Mild(fs)
          /\ Score(fs) = 100 <=> fs = {}
      BY FindingFacts, ScoreFacts DEF ReportInv, Observed
    <2>2. report = [findings |-> fs, decision |-> Decision(target, fs), score |-> Score(fs)]
      BY DEF ReportInv, Concluded
    <2> HIDE DEF fs
    <2> QED
      BY <2>1, <2>2 DEF VerdictFollowsFindings, Decision
  <1> QED
    BY <1>1, ReportInvariance, PTL

\* A report that does not block keeps the policy for every option of the target.
THEOREM PolicyKeptAlways == Spec => []PolicyKept
  <1>1. ReportInv => PolicyKept
    <2> SUFFICES ASSUME ReportInv, phase = "reported", report.decision # "BLOCK",
                        NEW i \in DOMAIN target.offers
                 PROVE  LET offer == target.offers[i] IN
                        /\ None \notin {policy.network, offer.network}
                               => offer.network = policy.network
                        /\ (/\ None \notin {policy.price, offer.amount}
                            /\ offer.asset = Stablecoin
                            /\ offer.text /\ First(target).text)
                               => offer.amount <= policy.price
      BY DEF PolicyKept
    <2> DEFINE fs == Findings(target, policy, audit, ready)
               offer == target.offers[i]
    <2>1. ~Severe(fs)
      BY DEF ReportInv, Concluded, Decision
    <2>2. \A f \in fs : f.severity \notin {"critical", "high"}
      BY <2>1 DEF Severe
    <2>3. /\ target \in Targets /\ target \in Observations
          /\ policy.price \in Prices \cup {None}
      BY TargetAssumption DEF ReportInv, Observed, Normalised
    <2>4. /\ Detected(target) /\ SchemaSound(target) /\ ~Contradictory(target)
          /\ policy.network # None => Network(target) \in {None, policy.network}
          /\ policy.price # None /\ Price(target) # None => ~(Price(target) > policy.price)
      <3>1. \A f \in ServedFindings(target) \cup NetworkFindings(target, policy)
                      \cup PriceFindings(target, policy) :
              f.severity \notin {"critical", "high"}
        BY <2>2 DEF Findings
      <3>2. Detected(target)
        <4> SUFFICES ASSUME ~Detected(target) PROVE FALSE
          OBVIOUS
        <4>1. Finding("challenge", "FAIL", "MISSING_X402_CHALLENGE", "high")
              \in ServedFindings(target)
          BY DEF ServedFindings, When
        <4> QED
          BY <4>1, <3>1 DEF Finding
      <3>3. SchemaSound(target)
        <4> SUFFICES ASSUME ~SchemaSound(target) PROVE FALSE
          OBVIOUS
        <4>1. Finding("schema", "FAIL", "INVALID_X402_CHALLENGE", "high")
              \in ServedFindings(target)
          BY <3>2 DEF ServedFindings, When
        <4> QED
          BY <4>1, <3>1 DEF Finding
      <3>4. ~Contradictory(target)
        <4> SUFFICES ASSUME Contradictory(target) PROVE FALSE
          OBVIOUS
        <4>1. Finding("consistent", "FAIL", "CONTRADICTORY_PAYMENT_REQUIREMENTS", "high")
              \in ServedFindings(target)
          BY DEF ServedFindings, When
        <4> QED
          BY <4>1, <3>1 DEF Finding
      <3>5. policy.network # None => Network(target) \in {None, policy.network}
        <4> SUFFICES ASSUME policy.network # None,
                            Network(target) \notin {None, policy.network}
                     PROVE  FALSE
          OBVIOUS
        <4>1. Finding("network", "FAIL", "NETWORK_POLICY_MISMATCH", "critical")
              \in NetworkFindings(target, policy)
          BY DEF NetworkFindings, When
        <4> QED
          BY <4>1, <3>1 DEF Finding
      <3>6. policy.price # None /\ Price(target) # None => ~(Price(target) > policy.price)
        <4> SUFFICES ASSUME policy.price # None, Price(target) # None,
                            Price(target) > policy.price
                     PROVE  FALSE
          OBVIOUS
        <4>1. Finding("price", "FAIL", "PRICE_POLICY_EXCEEDED", "critical")
              \in PriceFindings(target, policy)
          BY DEF PriceFindings, When
        <4> QED
          BY <4>1, <3>1 DEF Finding
      <3> QED
        BY <3>2, <3>3, <3>4, <3>5, <3>6
    <2>5. /\ target.offers \in Seq(Offers) /\ 1 \in DOMAIN target.offers
          /\ offer \in Offers /\ First(target) \in Offers
      <3>1. target.offers \in Seq(Offers)
        BY <2>3 DEF Observations
      <3>2. 1 \in DOMAIN target.offers
        BY <3>1
      <3> QED
        BY <3>1, <3>2 DEF First
    <2>6. /\ Sound(target)
          /\ First(target).network # None /\ First(target).asset # None
          /\ First(target).amount # None
      BY <2>4 DEF SchemaSound
    <2>7. /\ offer.network # None => offer.network = First(target).network
          /\ offer.asset # None => offer.asset = First(target).asset
          /\ offer.text /\ First(target).text /\ offer.amount # None
                => offer.amount = First(target).amount
      BY <2>4, <2>5, <2>6 DEF Contradictory, First
    <2>8. None \notin {policy.network, offer.network} => offer.network = policy.network
      BY <2>4, <2>6, <2>7 DEF Network
    <2>9. ASSUME None \notin {policy.price, offer.amount}, offer.asset = Stablecoin,
                 offer.text, First(target).text
          PROVE  offer.amount <= policy.price
      <3>1. offer.asset # None
        BY <2>9, PriceAssumption
      <3>2. Price(target) = offer.amount
        BY <2>9, <3>1, <2>6, <2>7 DEF Price
      <3>3. offer.amount \in Nat /\ policy.price \in Nat
        BY <2>9, <2>3, <2>5, PriceAssumption DEF Offers
      <3> QED
        BY <2>9, <3>2, <3>3, <2>4
    <2> QED
      BY <2>8, <2>9
  <1> QED
    BY <1>1, ReportInvariance, PTL

\* An audit is never more lenient than the free inspection of the same target.
THEOREM AuditNoLaxerAlways == Spec => []AuditNoLaxer
  <1>1. ReportInv => AuditNoLaxer
    <2> SUFFICES ASSUME ReportInv, phase = "reported", audit
                 PROVE  LET free == Findings(target, policy, FALSE, {}) IN
                        /\ Rank[report.decision] >= Rank[Decision(target, free)]
                        /\ report.score <= Score(free)
      BY DEF AuditNoLaxer
    <2> DEFINE fs == Findings(target, policy, audit, ready)
               free == Findings(target, policy, FALSE, {})
    <2>1. free \in SUBSET fs /\ IsFiniteSet(fs)
      BY FindingsFinite DEF Findings
    <2>2. /\ Severe(free) => Severe(fs)
          /\ Mild(free) => Mild(fs)
      BY <2>1 DEF Severe, Mild
    <2>3. report = [findings |-> fs, decision |-> Decision(target, fs), score |-> Score(fs)]
      BY DEF ReportInv, Concluded
    <2>4. Score(fs) <= Score(free)
      BY <2>1, SeverityGrows
    <2> HIDE DEF fs, free
    <2>5. Rank[Decision(target, fs)] >= Rank[Decision(target, free)]
      BY <2>2 DEF Rank, Decision
    <2> QED
      BY <2>3, <2>4, <2>5 DEF fs, free
  <1> QED
    BY <1>1, ReportInvariance, PTL

-----------------------------------------------------------------------------
(* Types. *)

\* A score stays between 0 and 100, however much was found.
LEMMA ScoreBounded == ASSUME NEW fs, IsFiniteSet(fs) PROVE Score(fs) \in 0..100
  <1> DEFINE c == Count(fs, "critical")
             h == Count(fs, "high")
             m == Count(fs, "medium")
             l == Count(fs, "low")
  <1>1. c \in Nat /\ h \in Nat /\ m \in Nat /\ l \in Nat
    BY CountFacts
  <1>2. Score(fs) = Points(c, h, m, l)
    BY ScorePoints
  <1> HIDE DEF c, h, m, l
  <1>3. Points(c, h, m, l) \in 0..100
    BY <1>1 DEF Points
  <1> QED
    BY <1>2, <1>3

\* TypeOK without the part of the fetch.
InspectionTypeOK ==
    /\ audit \in BOOLEAN /\ policy \in Wishes
    /\ phase \in Phases
    /\ probe \in {"pending", "null", "answered", "refused"}
    /\ ready \subseteq Documents
    /\ target \in Targets \cup {Unseen}
    /\ report.decision \in {"none", "ALLOW", "CAUTION", "BLOCK", "UNKNOWN"}
    /\ report.score \in 0..100
    /\ refusal \in Codes \cup {"INVALID_FIELD_TYPE"}

LEMMA ConcludeType ==
  ASSUME NEW t, NEW documents, Conclude(t, documents)
  PROVE  /\ report'.decision \in {"none", "ALLOW", "CAUTION", "BLOCK", "UNKNOWN"}
         /\ report'.score \in 0..100
  <1> DEFINE fs == Findings(t, policy, audit, documents)
  <1>1. Score(fs) \in 0..100 /\ Decision(t, fs) \in {"ALLOW", "CAUTION", "BLOCK", "UNKNOWN"}
    BY FindingsFinite, ScoreBounded DEF Decision
  <1>2. report' = [findings |-> fs, decision |-> Decision(t, fs), score |-> Score(fs)]
    BY DEF Conclude
  <1> HIDE DEF fs
  <1> QED
    BY <1>1, <1>2

LEMMA InspectionTypeStep ==
  InspectionTypeOK /\ FetchTypeOK /\ [Next]_vars => InspectionTypeOK'
  <1> SUFFICES ASSUME InspectionTypeOK, FetchTypeOK, [Next]_vars PROVE InspectionTypeOK'
    OBVIOUS
  <1> USE DEF InspectionTypeOK
  <1>1. ASSUME NEW from, NEW to \in {"guard", "probing"}, Pass(from, to)
        PROVE  InspectionTypeOK'
    <2>1. Normal(policy) \in Wishes
      BY PriceAssumption DEF Normal, Wishes
    <2> QED
      BY <1>1, <2>1 DEF Pass, Stop, Phases, Codes
  <1>2. CASE MainProbe
    BY <1>2 DEF MainProbe, pvars
  <1>3. CASE CorsProbe
    BY <1>3 DEF CorsProbe, Refuse, Setting, Phases, Codes
  <1>4. CASE MainFails
    BY <1>4 DEF MainFails, Refuse, Setting, Phases, FetchTypeOK
  <1>5. CASE ProbesDone
    BY <1>5, ConcludeType DEF ProbesDone, Setting, Phases
  <1>6. CASE DocumentsDone
    BY <1>6, ConcludeType DEF DocumentsDone, Setting, Phases
  <1>7. CASE DocumentBreaks
    BY <1>7 DEF DocumentBreaks, Refuse, Setting, Phases, Codes
  <1>8. CASE UNCHANGED vars
    BY <1>8 DEF vars, pvars
  <1> QED
    BY <1>1, <1>2, <1>3, <1>4, <1>5, <1>6, <1>7, <1>8 DEF Next, Inspect, Receive, Guard

\* The fetch, the probes and the report keep their types; no score leaves
\* 0..100 and no error is outside the codes of target-policy.js and schemas.js.
THEOREM TypeCorrect == Spec => []TypeOK
  <1>1. Init => InspectionTypeOK
    <2> SUFFICES ASSUME Init PROVE InspectionTypeOK
      OBVIOUS
    <2>1. Policies \subseteq Wishes /\ NoPolicy \in Wishes
      BY TargetAssumption DEF Wishes, NoPolicy
    <2>2. report.decision = "none" /\ report.score = 100
      BY DEF Init, NoReport
    <2>3. audit \in BOOLEAN /\ policy \in Wishes
      BY <2>1 DEF Init
    <2>4. /\ phase \in Phases /\ ready \subseteq Documents
          /\ probe \in {"pending", "null", "answered", "refused"}
          /\ target \in Targets \cup {Unseen}
          /\ refusal \in Codes \cup {"INVALID_FIELD_TYPE"}
      BY DEF Init, Phases, Codes
    <2> QED
      BY <2>2, <2>3, <2>4 DEF InspectionTypeOK
  <1>2. FetchInv => FetchTypeOK
    BY DEF FetchInv
  <1>3. FetchTypeOK /\ InspectionTypeOK => TypeOK
    BY DEF InspectionTypeOK, TypeOK
  <1> QED
    BY <1>1, <1>2, <1>3, InspectionTypeStep, FetchInvariance, PTL DEF Spec

=============================================================================

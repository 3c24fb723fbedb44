----------------------------- MODULE Preflight -----------------------------
(***************************************************************************)
(* src/preflight: an inspection probes the resource (SafeFetch in detail)  *)
(* and its CORS answer at the same time, parses the payment challenge,     *)
(* looks at four discovery documents when it is an audit, and reports      *)
(* checks, issues, a score and a decision.                                 *)
(*                                                                         *)
(* A payment option is its network, asset and amount, whether the amount   *)
(* is text or a JSON number, and whether the rest (version, scheme,        *)
(* receiver) is in order.                                                  *)
(***************************************************************************)
EXTENDS SafeFetch, FiniteSets

CONSTANTS
    Networks, Assets,
    None, Missing,  \* null and undefined
    DefaultNetwork, \* options.defaultNetwork
    Stablecoin,     \* the asset whose amounts convert to USD
    Prices,         \* amounts and limits
    Policies,       \* expected_network and max_price_usd as they may be sent
    Targets         \* what a resource may publish: a set of Observations

ASSUME PriceAssumption ==
    /\ Prices \subseteq Nat /\ DefaultNetwork \in Networks /\ Stablecoin \in Assets
    /\ {None, Missing} \cap (Prices \cup Networks \cup Assets) = {}
    /\ None # Missing

Offers == [network : Networks \cup {None}, asset : Assets \cup {None},
           amount : Prices \cup {None}, text : BOOLEAN, rest : BOOLEAN]
Documents == {"openapi", "llmsTxt", "agentMetadata", "x402Metadata"}
Observations ==
    [status : {200, 402}, challenge : {"none", "garbled", "sound"},
     offers : Seq(Offers), bazaar : BOOLEAN, cors : BOOLEAN,
     json : BOOLEAN, noStore : BOOLEAN]

ASSUME TargetAssumption ==
    /\ Policies \subseteq [network : Networks \cup {Missing}, price : Prices \cup {Missing}]
    /\ Targets \subseteq Observations
    /\ \A t \in Targets : (t.challenge = "sound") = (t.offers # <<>>)
    /\ \A t \in Targets : t.bazaar => t.challenge = "sound"
-----------------------------------------------------------------------------
\* validatePreflightInput accepts undefined and no null, and writes the default
\* network and a null price for what is missing.
Valid(input) == None \notin {input.network, input.price}
Normal(input) ==
    [network |-> IF input.network = Missing THEN DefaultNetwork ELSE input.network,
     price |-> IF input.price = Missing THEN None ELSE input.price]

\* parseX402Challenge.  A header that is there and cannot be decoded counts as
\* detected; the first option is the one that is judged.
Detected(t) == t.challenge # "none"
Sound(t) == t.challenge = "sound"
First(t) == t.offers[1]

\* Mutant of SchemaSound: a missing network is left to the policy check.
SchemaSoundAnywhere(t) ==
    Sound(t) /\ First(t).rest /\ None \notin {First(t).asset, First(t).amount}

\* validateRequirements: x402Version, scheme and payTo are in rest.
SchemaSound(t) ==
    Sound(t) /\ First(t).rest /\ None \notin
        {First(t).network, First(t).asset, First(t).amount}

Network(t) == IF Sound(t) THEN First(t).network ELSE None
\* usdPrice, in the unit of the limits.
Price(t) == IF Sound(t) /\ First(t).asset = Stablecoin THEN First(t).amount ELSE None

\* Mutant of Contradictory: the amounts may differ.
ContradictoryUnpriced(t) ==
    \E i, j \in DOMAIN t.offers : LET a == t.offers[i] b == t.offers[j] IN
        \/ None \notin {a.network, b.network} /\ a.network # b.network
        \/ None \notin {a.asset, b.asset} /\ a.asset # b.asset

\* requirementContradictions compares text: stringOrNull drops what is missing
\* and what is a number.
Contradictory(t) ==
    \E i, j \in DOMAIN t.offers : LET a == t.offers[i] b == t.offers[j] IN
        \/ None \notin {a.network, b.network} /\ a.network # b.network
        \/ None \notin {a.asset, b.asset} /\ a.asset # b.asset
        \/ a.text /\ b.text /\ None \notin {a.amount, b.amount}
           /\ a.amount # b.amount
-----------------------------------------------------------------------------
\* assess: a finding is a check that did not pass and the issue it adds, if
\* any; severities are those of the issues.
Finding(check, status, issue, severity) ==
    [check |-> check, status |-> status, issue |-> issue, severity |-> severity]

When(condition, finding) == IF condition THEN {finding} ELSE {}

ServedFindings(t) ==
    When(t.status # 402,
         Finding("http", "FAIL", "PAYMENT_CHALLENGE_NOT_SERVED", "high"))
    \cup When(~Detected(t),
         Finding("challenge", "FAIL", "MISSING_X402_CHALLENGE", "high"))
    \cup When(Detected(t) /\ ~SchemaSound(t),
         Finding("schema", "FAIL", "INVALID_X402_CHALLENGE", "high"))
    \cup When(Contradictory(t),
         Finding("consistent", "FAIL", "CONTRADICTORY_PAYMENT_REQUIREMENTS", "high"))
    \cup When(~t.bazaar,
         Finding("bazaar", "WARN", "BAZAAR_METADATA", "medium"))

\* assessNetworkPolicy: a missing network fails its check and adds no issue.
NetworkFindings(t, policy) ==
    When(policy.network # None /\ Network(t) = None,
         Finding("network", "FAIL", "none", "none"))
    \cup When(policy.network # None /\ Network(t) \notin {None, policy.network},
         Finding("network", "FAIL", "NETWORK_POLICY_MISMATCH", "critical"))

PriceFindings(t, policy) ==
    When(policy.price # None /\ Price(t) = None,
         Finding("price", "WARN", "PRICE_NOT_DETERMINABLE", "medium"))
    \cup When(policy.price # None /\ Price(t) # None /\ Price(t) > policy.price,
         Finding("price", "FAIL", "PRICE_POLICY_EXCEEDED", "critical"))

\* assessAuditSignals; ready holds the documents that are usable.
AuditFindings(t, ready) ==
    When(~t.cors, Finding("cors", "WARN", "BROWSER_AGENT_CORS_INCOMPLETE", "medium"))
    \cup When(~t.json,
         Finding("content_type", "WARN", "NON_JSON_CHALLENGE_CONTENT_TYPE", "low"))
    \cup When(~t.noStore,
         Finding("cache_control", "WARN", "PAYMENT_CHALLENGE_CACHEABLE", "low"))
    \cup {Finding(d, "WARN", "DISCOVERY_NOT_READY", "medium") :
             d \in Documents \ ready}

\* Mutant of Findings: an audit looks at its signals instead of the policy.
FindingsInstead(t, policy, audit, ready) ==
    ServedFindings(t)
    \cup (IF audit THEN AuditFindings(t, ready)
          ELSE NetworkFindings(t, policy) \cup PriceFindings(t, policy))

Findings(t, policy, audit, ready) ==
    ServedFindings(t) \cup NetworkFindings(t, policy) \cup PriceFindings(t, policy)
    \cup (IF audit THEN AuditFindings(t, ready) ELSE {})

Severe(fs) == \E f \in fs : f.severity \in {"critical", "high"}
Mild(fs) == \E f \in fs : f.severity \in {"medium", "low"}
Decision(t, fs) ==
    IF Severe(fs) THEN "BLOCK" ELSE IF ~Detected(t) THEN "UNKNOWN"
    ELSE IF Mild(fs) THEN "CAUTION" ELSE "ALLOW"

Count(fs, severity) == Cardinality({f \in fs : f.severity = severity})
Score(fs) ==
    LET penalty == 45 * Count(fs, "critical") + 30 * Count(fs, "high")
                   + 12 * Count(fs, "medium") + 4 * Count(fs, "low")
    IN  IF penalty > 100 THEN 0 ELSE 100 - penalty
-----------------------------------------------------------------------------
VARIABLES
    audit, policy,  \* profile and input
    phase,          \* where inspectX402Endpoint is
    probe,          \* the CORS probe
    ready,          \* documents found usable
    target,         \* what the main probe observed
    report,         \* the findings, decision and score
    refusal         \* the error answered instead

pvars == <<audit, policy, phase, probe, ready, target, report, refusal>>
vars == <<fvars, pvars>>

Unseen == [status |-> 200, challenge |-> "none", offers |-> <<>>, bazaar |-> FALSE,
           cors |-> FALSE, json |-> FALSE, noStore |-> FALSE]
NoPolicy == [network |-> Missing, price |-> Missing]
NoReport == [findings |-> {}, decision |-> "none", score |-> 100]
Wishes == [network : Networks \cup {Missing}, price : Prices \cup {None, Missing}]
Phases == {"request", "guard", "probing", "discovering", "reported", "refused", "stopped", "other"}
Retryable(error) ==
    error \in {"TARGET_DNS_FAILED", "TARGET_TIMEOUT", "TARGET_UNREACHABLE"}

TypeOK ==
    /\ FetchTypeOK
    /\ audit \in BOOLEAN /\ policy \in Wishes
    /\ phase \in Phases
    /\ probe \in {"pending", "null", "answered", "refused"}
    /\ ready \subseteq Documents
    /\ target \in Targets \cup {Unseen}
    /\ report.decision \in {"none", "ALLOW", "CAUTION", "BLOCK", "UNKNOWN"}
    /\ report.score \in 0..100
    /\ refusal \in Codes \cup {"INVALID_FIELD_TYPE"}

Init ==
    /\ FetchInit
    /\ IF call.caller = "preflight"
       THEN /\ audit \in BOOLEAN /\ policy \in Policies
            /\ phase = "request" /\ call.url \in Secure
       ELSE audit = FALSE /\ policy = NoPolicy /\ phase = "other"
    /\ probe = "pending" /\ ready = {}
    /\ target = Unseen /\ report = NoReport /\ refusal = "none"

Refuse(error) == phase' = "refused" /\ refusal' = error
Setting == <<audit, policy>>

Stop(error) == phase' = "stopped" /\ refusal' = error

\* Validation and a lookup of the resource, first in the middleware (or the MCP
\* validator) and then, on what that one made of the request, in the inspector.
Pass(from, to) ==
    /\ phase = from
    /\ \/ ~Valid(policy) /\ Stop("INVALID_FIELD_TYPE") /\ UNCHANGED policy
       \/ /\ Valid(policy)
          /\ \/ call.url \notin Barred /\ phase' = to /\ policy' = Normal(policy)
                /\ UNCHANGED refusal
             \/ \E e \in {"TARGET_DNS_FAILED", "TARGET_ACCESS"} : Stop(e)
                /\ UNCHANGED policy
    /\ UNCHANGED <<fvars, audit, target, probe, ready, report>>

Receive == Pass("request", "guard")
Guard == Pass("guard", "probing")

\* probeResource; it goes on after the CORS probe has refused the inspection.
MainProbe ==
    /\ phase \notin {"request", "guard", "stopped"}
    /\ FetchNext
    /\ UNCHANGED pvars

\* probeCors: a temporary failure is no answer, any other refuses it all.
CorsProbe ==
    /\ phase = "probing" /\ probe = "pending"
    /\ \/ probe' \in {"answered", "null"} /\ UNCHANGED <<phase, refusal>>
       \/ probe' = "refused"
          /\ \E e \in {"TARGET_ACCESS", "TARGET_PROTOCOL_BLOCKED",
                       "TARGET_REDIRECT_BLOCKED"} : Refuse(e)
    /\ UNCHANGED <<fvars, Setting, target, ready, report>>

MainFails ==
    /\ phase = "probing" /\ at = "failed" /\ Refuse(code)
    /\ UNCHANGED <<fvars, Setting, target, probe, ready, report>>

Conclude(t, documents) ==
    LET fs == Findings(t, policy, audit, documents) IN
    report' = [findings |-> fs, decision |-> Decision(t, fs), score |-> Score(fs)]

\* Mutant of ProbesDone: the CORS probe must have answered.
ProbesDoneAnswered ==
    /\ phase = "probing" /\ at = "done" /\ probe = "answered"
    /\ target' \in Targets
    /\ \/ audit /\ phase' = "discovering" /\ UNCHANGED report
       \/ ~audit /\ phase' = "reported" /\ Conclude(target', {})
    /\ UNCHANGED <<fvars, Setting, probe, ready, refusal>>

ProbesDone ==
    /\ phase = "probing" /\ at = "done" /\ probe \in {"answered", "null"}
    /\ target' \in Targets
    /\ \/ audit /\ phase' = "discovering" /\ UNCHANGED report
       \/ ~audit /\ phase' = "reported" /\ Conclude(target', {})
    /\ UNCHANGED <<fvars, Setting, probe, ready, refusal>>

\* inspectDiscovery: four fetches at the same time, each with its own signal; a
\* TargetAccessError is an empty one.
DocumentsDone ==
    /\ phase = "discovering"
    /\ ready' \in SUBSET Documents
    /\ phase' = "reported" /\ Conclude(target, ready')
    /\ UNCHANGED <<fvars, Setting, target, probe, refusal>>

\* A stream that breaks is another error, and an optional document refuses all.
DocumentBreaks ==
    /\ phase = "discovering" /\ Refuse("STREAM")
    /\ UNCHANGED <<fvars, Setting, target, probe, ready, report>>

Inspect == Receive \/ Guard \/ CorsProbe \/ MainFails \/ ProbesDone
           \/ DocumentsDone \/ DocumentBreaks
Next == MainProbe \/ Inspect

\* The deadline of SafeFetch holds for the three kinds of fetch alike.
Spec == Init /\ [][Next]_vars
FairSpec ==
    /\ Spec
    /\ WF_vars(Inspect)
    /\ WF_vars(phase \notin {"request", "guard", "stopped"}
               /\ (Check \/ Lookup \/ Abort \/ ChunkTimeout \/ Tick)
               /\ UNCHANGED pvars)
-----------------------------------------------------------------------------
\* The decision agrees with what was found: a check that failed always blocks,
\* even the network check that adds no issue; a decision to allow is the same as
\* a full score and as nothing found; and, though the schema of the report
\* offers it, no report says UNKNOWN.
VerdictFollowsFindings ==
    phase = "reported" =>
        /\ (\E f \in report.findings : f.status = "FAIL") <=> report.decision = "BLOCK"
        /\ report.decision = "ALLOW" <=> report.score = 100
        /\ report.decision = "ALLOW" <=> report.findings = {}
        /\ report.decision # "UNKNOWN"

\* A report that does not block keeps the caller's policy for every option that
\* was published as text, not only for the first, which alone is judged: the
\* others must agree with it.
PolicyKept ==
    phase = "reported" /\ report.decision # "BLOCK" =>
        \A i \in DOMAIN target.offers : LET offer == target.offers[i] IN
            /\ None \notin {policy.network, offer.network}
                   => offer.network = policy.network
            /\ (/\ None \notin {policy.price, offer.amount}
                /\ offer.asset = Stablecoin
                /\ offer.text /\ First(target).text)
                   => offer.amount <= policy.price

Rank == [ALLOW |-> 0, CAUTION |-> 1, UNKNOWN |-> 2, BLOCK |-> 3]

\* The paid audit is never more lenient than the free inspection of the same
\* observation.
AuditNoLaxer ==
    phase = "reported" /\ audit =>
        LET free == Findings(target, policy, FALSE, {}) IN
        /\ Rank[report.decision] >= Rank[Decision(target, free)]
        /\ report.score <= Score(free)

\* What the first validation accepted, the second accepts: only the URL of the
\* resource is required.
OnlyUrlRequired == refusal # "INVALID_FIELD_TYPE"

\* An inspection ends in a report or an error, whatever the target does, the
\* order in which its fetches end and however slowly it answers.
InspectionEnds == <>(phase \in {"reported", "refused", "stopped", "other"})
=============================================================================

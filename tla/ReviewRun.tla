----------------------------- MODULE ReviewRun -----------------------------
(***************************************************************************)
(* What a worker does with one claimed job (processJob of worker.js): the  *)
(* target is normalised, a repository or an endpoint is inspected, and the *)
(* agent reviews the evidence, by rules or with a model that gets one      *)
(* repair.  withTimeout gives up waiting and stops nothing: an attempt     *)
(* that ran out of time goes on as an orphan beside the next one.          *)
(*                                                                         *)
(* The queue (leases, retries, rivals) is ReviewQueue; here a failure      *)
(* requeues the job while attempts are left.  A fetch is one step; it may  *)
(* never end, because no caller here has a deadline for the body           *)
(* (SafeFetch, CallEnds).  Model output is arbitrary.                      *)
(***************************************************************************)
EXTENDS Integers, Sequences, FiniteSets

CONSTANTS
    Files,          \* what selectFiles gives, in order: a sequence of paths
    Sizes,          \* decoded sizes of a file
    MaxFileBytes, MaxTotalBytes,
    Url, Nowhere, Elsewhere,    \* the endpoint; no location; one not in evidence
    ModelFindings,  \* sequences of findings a model may answer with
    MaxFindings,    \* maxFindingsFor
    Costs,          \* what a request may cost, by its usage
    Budget,         \* QUICK_REVIEW_MAX_COST_USD
    MaxAttempts

Paths == {Files[i] : i \in DOMAIN Files}
Severities == {"high", "medium", "low"}
FindingsOf(places) == Seq([severity : Severities, place : places])

ASSUME LimitAssumption ==
    /\ {MaxFileBytes, MaxTotalBytes, MaxFindings, Budget} \subseteq Nat
    /\ MaxAttempts \in Nat \ {0} /\ Sizes \subseteq Nat /\ Costs \subseteq Nat
ASSUME PlaceAssumption ==
    /\ Files \in Seq(Paths)
    /\ {Url, Nowhere, Elsewhere} \cap Paths = {}
    /\ Elsewhere \notin {Url, Nowhere}
    /\ ModelFindings \subseteq FindingsOf(Paths \cup {Url, Nowhere, Elsewhere})

VARIABLES
    kind, provider,     \* what the target is; REVIEW_AGENT_PROVIDER
    job, attempts,      \* the row: its status, "waiting" if queued for later; attempts
    current, late,      \* the attempt the worker waits for, 0 if none; its time ran out
    stage,              \* per attempt: where it is
    next,               \* per attempt: the file or probe to come
    evidence,           \* per attempt: files taken or probes answered
    bytes,              \* per attempt: totalBytes
    cost, calls,        \* per attempt: cost by usage, model requests made
    review,             \* per attempt: the result
    error,              \* per attempt: how it was thrown
    stored              \* the attempt whose result the job was closed with

vars == <<kind, provider, job, attempts, current, late, stage, next, evidence, bytes,
          cost, calls, review, error, stored>>
row == <<job, attempts, current, late, stored>>
setting == <<kind, provider>>

Attempts == 1..MaxAttempts
Closed == {"completed", "needs_input", "failed"}
Stages == {"off", "target", "github", "files", "probes", "agent", "repair",
           "limits", "ready", "thrown"}
Reviews == [findings : FindingsOf(Paths \cup {Url, Nowhere, Elsewhere}),
            verdict : {"ready", "needs_changes", "blocked", "inconclusive"},
            score : 0..100]
NoReview == [findings |-> <<>>, verdict |-> "inconclusive", score |-> 0]
Probes == {"options", "get", "challenge", "error"}

TypeOK ==
    /\ kind \in {"repository", "endpoint", "refused"}
    /\ provider \in {"deterministic", "model"}
    /\ job \in {"queued", "waiting", "processing"} \cup Closed
    /\ attempts \in 0..MaxAttempts
    /\ current \in 0..MaxAttempts /\ late \in BOOLEAN /\ stored \in 0..MaxAttempts
    /\ stage \in [Attempts -> Stages]
    /\ next \in [Attempts -> Nat]
    /\ evidence \in [Attempts -> SUBSET (Paths \cup Probes)]
    /\ bytes \in [Attempts -> Nat]
    /\ cost \in [Attempts -> Nat] /\ calls \in [Attempts -> Nat]
    /\ review \in [Attempts -> Reviews]
    /\ error \in [Attempts -> {"none", "target", "retry", "final"}]

Init ==
    /\ kind \in {"repository", "endpoint", "refused"}
    /\ provider \in {"deterministic", "model"}
    /\ job = "queued" /\ attempts = 0 /\ current = 0 /\ late = FALSE /\ stored = 0
    /\ stage = [a \in Attempts |-> "off"]
    /\ next = [a \in Attempts |-> 1]
    /\ evidence = [a \in Attempts |-> {}]
    /\ bytes = [a \in Attempts |-> 0]
    /\ cost = [a \in Attempts |-> 0] /\ calls = [a \in Attempts |-> 0]
    /\ review = [a \in Attempts |-> NoReview]
    /\ error = [a \in Attempts |-> "none"]

Goto(a, s) == stage' = [stage EXCEPT ![a] = s]
Throw(a, e) == Goto(a, "thrown") /\ error' = [error EXCEPT ![a] = e]
-----------------------------------------------------------------------------
\* normalizeReviewTarget.
Normalize(a) ==
    /\ stage[a] = "target"
    /\ CASE kind = "repository" -> Goto(a, "github") /\ UNCHANGED error
         [] kind = "endpoint" -> Goto(a, "probes") /\ UNCHANGED error
         [] kind = "refused" -> Throw(a, "target")
    /\ UNCHANGED <<setting, row, next, evidence, bytes, cost, calls, review>>

\* inspectRepository: metadata, branch and tree.  A private repository, a bad
\* answer or an unreachable API is a TargetAccessError; a broken stream is not.
ReadTree(a) ==
    /\ stage[a] = "github"
    /\ \/ Goto(a, "files") /\ UNCHANGED error
       \/ Throw(a, "target") \/ Throw(a, "retry")
    /\ UNCHANGED <<setting, row, next, evidence, bytes, cost, calls, review>>

Fits(a, size) == size <= MaxFileBytes /\ bytes[a] + size <= MaxTotalBytes

\* Each selected file: left out when it cannot be had or is too large.
ReadFile(a) ==
    /\ stage[a] = "files" /\ next[a] <= Len(Files) /\ bytes[a] < MaxTotalBytes
    /\ \/ /\ next' = [next EXCEPT ![a] = @ + 1]
          /\ \/ \E size \in Sizes :
                 /\ Fits(a, size)
                 /\ bytes' = [bytes EXCEPT ![a] = @ + size]
                 /\ evidence' = [evidence EXCEPT ![a] = @ \cup {Files[next[a]]}]
             \/ UNCHANGED <<bytes, evidence>>
          /\ UNCHANGED <<stage, error>>
       \/ Throw(a, "retry") /\ UNCHANGED <<next, bytes, evidence>>
    /\ UNCHANGED <<setting, row, cost, calls, review>>

FilesRead(a) ==
    /\ stage[a] = "files"
    /\ next[a] > Len(Files) \/ bytes[a] >= MaxTotalBytes
    /\ Goto(a, "agent")
    /\ UNCHANGED <<setting, row, next, evidence, bytes, cost, calls, review, error>>

\* inspectEndpoint: HEAD, OPTIONS, GET; a TargetAccessError is a probe without
\* answer.  "options" is a preflight answered below 400, "error" a GET answered
\* with a 5xx, "challenge" one with status 402 or a recognised challenge.
ProbeAnswers(n) ==
    CASE n = 1 -> {{}}
      [] n = 2 -> {{}, {"options"}}
      [] n = 3 -> {{}, {"get"}, {"get", "challenge"}, {"get", "error"},
                   {"get", "challenge", "error"}}

Probe(a) ==
    /\ stage[a] = "probes"
    /\ \/ /\ \E answer \in ProbeAnswers(next[a]) :
                evidence' = [evidence EXCEPT ![a] = @ \cup answer]
          /\ next' = [next EXCEPT ![a] = @ + 1]
          /\ IF next[a] = 3 THEN Goto(a, "agent") ELSE UNCHANGED stage
          /\ UNCHANGED error
       \/ Throw(a, "retry") /\ UNCHANGED <<next, evidence>>
    /\ UNCHANGED <<setting, row, bytes, cost, calls, review>>
-----------------------------------------------------------------------------
\* validateEvidenceReferences: a file must be in the snapshot, a URL among
\* those of the evidence.
Known(a) ==
    (evidence[a] \cap Paths) \cup {Nowhere}
    \cup (IF kind = "endpoint" THEN {Url} ELSE {})
Grounded(a, findings) ==
    \A i \in DOMAIN findings : findings[i].place \in Known(a)

Truncated(findings) == SubSeq(findings, 1, IF Len(findings) < MaxFindings
                                           THEN Len(findings) ELSE MaxFindings)

Note(condition, severity, place) ==
    IF condition THEN <<[severity |-> severity, place |-> place]>> ELSE <<>>

Marks == {"x402", "payment"}
Complain(missing, p1, p2) ==
    Note("x402" \in missing, "medium", p1) \o Note("payment" \in missing, "medium", p2)

\* Mutant of RepositoryFindings: an empty snapshot has nothing to complain about.
RepositoryFindingsLenient(a) ==
    {Complain(missing, Nowhere, Nowhere) : missing \in SUBSET Marks}

\* reviewRepository: the x402 marker and the payment words that the text has
\* not; without text, both.  firstPath names some file of the snapshot, if any.
Lacks(a) == IF evidence[a] = {} THEN {Marks} ELSE SUBSET Marks
FirstPaths(a) == IF evidence[a] = {} THEN {Nowhere} ELSE evidence[a]
RepositoryFindings(a) ==
    {Complain(missing, p1, p2) :
        missing \in Lacks(a), p1 \in FirstPaths(a), p2 \in FirstPaths(a)}

\* reviewEndpoint.
EndpointFindings(a) ==
    {Note("challenge" \notin evidence[a], "high", Url)
     \o Note("options" \notin evidence[a], "medium", Url)
     \o Note("error" \in evidence[a], "high", Url)}

RuleFindings(a) ==
    IF kind = "repository" THEN RepositoryFindings(a) ELSE EndpointFindings(a)

Many(findings, severity) ==
    Cardinality({i \in DOMAIN findings : findings[i].severity = severity})
Score(findings) ==
    LET s == 100 - 22 * Many(findings, "high") - 10 * Many(findings, "medium")
                 - 3 * Many(findings, "low")
    IN  IF s < 0 THEN 0 ELSE s
Verdict(findings) ==
    IF \E i \in DOMAIN findings : findings[i].severity \in {"high", "medium"}
    THEN "needs_changes" ELSE "ready"

\* deterministicReview: verdict and score count what the limit cuts off.
ReviewByRules(a) ==
    /\ stage[a] = "agent" /\ provider = "deterministic"
    /\ \E fs \in RuleFindings(a) :
        review' = [review EXCEPT ![a] = [findings |-> Truncated(fs),
                                         verdict |-> Verdict(fs), score |-> Score(fs)]]
    /\ Goto(a, "limits")
    /\ UNCHANGED <<setting, row, next, evidence, bytes, cost, calls, error>>

\* requestCompatibleModel and normalizeModelResult.  Usage that is not reported
\* costs nothing.
Request(a) == calls' = [calls EXCEPT ![a] = @ + 1]
Charge(a) == \E c \in Costs : cost' = [cost EXCEPT ![a] = @ + c]
Answered(a) ==
    \E fs \in ModelFindings, verdict \in {"ready", "needs_changes"} :
        /\ Grounded(a, fs)
        /\ review' = [review EXCEPT ![a] = [findings |-> fs, verdict |-> verdict,
                                            score |-> 50]]
        /\ Goto(a, "limits")

\* The first request is outside the try block: its failure has no retryable
\* flag, which the worker takes for yes.
AskModel(a) ==
    /\ stage[a] = "agent" /\ provider = "model" /\ Request(a)
    /\ \/ /\ Charge(a) /\ UNCHANGED error
          /\ \/ Answered(a)
             \/ Goto(a, "repair") /\ UNCHANGED review
       \/ Throw(a, "retry") /\ UNCHANGED <<cost, review>>
    /\ UNCHANGED <<setting, row, next, evidence, bytes>>

Repair(a) ==
    /\ stage[a] = "repair" /\ Request(a)
    /\ \/ Charge(a) /\ Answered(a) /\ UNCHANGED error
       \/ Charge(a) /\ Throw(a, "retry") /\ UNCHANGED review
       \/ Throw(a, "retry") /\ UNCHANGED <<cost, review>>
    /\ UNCHANGED <<setting, row, next, evidence, bytes>>

\* Mutant of Limit: a review that is over the budget is stored all the same.
LimitUnpriced(a) ==
    /\ stage[a] = "limits"
    /\ IF ~Grounded(a, Truncated(review[a].findings))
       THEN Throw(a, "retry") /\ UNCHANGED review
       ELSE /\ review' = [review EXCEPT ![a].findings = Truncated(@)]
            /\ Goto(a, "ready") /\ UNCHANGED error
    /\ UNCHANGED <<setting, row, next, evidence, bytes, cost, calls>>

\* Mutant of Limit: the error of the budget has lost its retryable flag.
LimitRetried(a) ==
    /\ stage[a] = "limits"
    /\ IF ~Grounded(a, Truncated(review[a].findings)) \/ cost[a] > Budget
       THEN Throw(a, "retry") /\ UNCHANGED review
       ELSE /\ review' = [review EXCEPT ![a].findings = Truncated(@)]
            /\ Goto(a, "ready") /\ UNCHANGED error
    /\ UNCHANGED <<setting, row, next, evidence, bytes, cost, calls>>

\* enforceServiceLimits, the second validation and the budget.
Limit(a) ==
    /\ stage[a] = "limits"
    /\ IF ~Grounded(a, Truncated(review[a].findings))
       THEN Throw(a, "retry") /\ UNCHANGED review
       ELSE IF cost[a] > Budget
       THEN Throw(a, "final") /\ UNCHANGED review
       ELSE /\ review' = [review EXCEPT ![a].findings = Truncated(@)]
            /\ Goto(a, "ready") /\ UNCHANGED error
    /\ UNCHANGED <<setting, row, next, evidence, bytes, cost, calls>>
-----------------------------------------------------------------------------
work == <<setting, next, evidence, bytes, cost, calls, review, error>>

Claim ==
    /\ job = "queued" /\ attempts < MaxAttempts
    /\ job' = "processing" /\ attempts' = attempts + 1 /\ current' = attempts + 1
    /\ Goto(attempts + 1, "target")
    /\ UNCHANGED <<work, late, stored>>

\* available_at passes.
BackoffEnds ==
    /\ job = "waiting" /\ job' = "queued"
    /\ UNCHANGED <<work, attempts, current, late, stage, stored>>

Close(status) ==
    /\ job' = status /\ current' = 0 /\ late' = FALSE
    /\ UNCHANGED <<work, attempts, stage>>

\* Mutant of Store: an orphan may answer for the job.
StoreAny ==
    \E a \in Attempts :
        /\ current # 0 /\ ~late /\ stage[a] = "ready"
        /\ Close("completed") /\ stored' = a

\* completeReviewJob with the result of the attempt that was waited for.
Store ==
    /\ current # 0 /\ ~late /\ stage[current] = "ready"
    /\ Close("completed") /\ stored' = current

\* Mutant of Retry: one attempt too many.
RetryOffByOne == Close(IF attempts <= MaxAttempts THEN "waiting" ELSE "failed")

\* failReviewJob: back to the queue, after a while, as long as attempts are left.
Retry == Close(IF attempts < MaxAttempts THEN "waiting" ELSE "failed")

\* The catch block.
GiveUp ==
    /\ current # 0 /\ ~late /\ stage[current] = "thrown"
    /\ CASE error[current] = "target" -> Close("needs_input")
         [] error[current] = "retry" -> Retry
         [] error[current] = "final" -> Close("failed")
    /\ UNCHANGED stored

\* The same block, for the error of withTimeout.
GiveUpLate == current # 0 /\ late /\ Retry /\ UNCHANGED stored

\* Mutant of Expire: the limit stops only the model, not a target that hangs.
ExpireModel ==
    /\ current # 0 /\ ~late /\ stage[current] \in {"agent", "repair", "limits"}
    /\ late' = TRUE
    /\ UNCHANGED <<work, job, attempts, current, stage, stored>>

\* withTimeout: the attempt goes on with nobody waiting for it.
Expire ==
    /\ current # 0 /\ ~late /\ stage[current] \notin {"ready", "thrown"}
    /\ late' = TRUE
    /\ UNCHANGED <<work, job, attempts, current, stage, stored>>

Inspect(a) == Normalize(a) \/ ReadTree(a) \/ ReadFile(a) \/ FilesRead(a) \/ Probe(a)
Agent(a) == ReviewByRules(a) \/ AskModel(a) \/ Repair(a) \/ Limit(a)
Worker == Claim \/ Store \/ GiveUp \/ Expire \/ GiveUpLate

Next == Worker \/ BackoffEnds \/ \E a \in Attempts : Inspect(a) \/ Agent(a)
Spec == Init /\ [][Next]_vars

\* The worker polls, its timers fire, its queries end and time passes; nothing is
\* assumed of targets, of GitHub or of the model.
FairSpec == Spec /\ WF_vars(Worker) /\ WF_vars(BackoffEnds)
-----------------------------------------------------------------------------
\* A completed job has the review of the attempt that was waited for to its
\* end, never of an orphan, and every finding in it points into the evidence
\* that this attempt collected, whatever a model answered or repaired.
ReportGrounded ==
    job = "completed" =>
        /\ stored = attempts /\ stage[stored] = "ready"
        /\ LET findings == review[stored].findings IN
            /\ Len(findings) <= MaxFindings
            /\ \A i \in DOMAIN findings :
                findings[i].place \in evidence[stored] \cup {Url, Nowhere}

\* By the rules, "ready" is the same as a full score, and it takes evidence: a
\* repository of which nothing was read, or an endpoint whose GET or preflight
\* did not answer, is never found ready.
ReadyNeedsEvidence ==
    job = "completed" /\ provider = "deterministic" =>
        /\ (review[stored].verdict = "ready") = (review[stored].score = 100)
        /\ (review[stored].verdict = "ready") =>
            (IF kind = "repository" THEN evidence[stored] # {}
             ELSE {"challenge", "options"} \subseteq evidence[stored])

\* Model requests are bounded by the attempts, orphans included; no attempt is
\* ready, to be stored, that broke the budget; and one that broke it with an
\* answer that could be used ends for good and is not tried again.  Without a
\* usable answer runCompatibleModel throws before the budget is looked at: the
\* job is queued again, however much the two requests have cost.
SpendingBounded ==
    \A a \in Attempts :
        /\ calls[a] <= IF a <= attempts THEN 2 ELSE 0
        /\ stage[a] = "ready" => cost[a] <= Budget
        /\ error[a] = "final" => cost[a] > Budget
        /\ stage[a] = "thrown" /\ cost[a] > Budget =>
            IF review[a] = NoReview THEN error[a] = "retry" /\ calls[a] = 2
            ELSE error[a] = "final"

\* A claimed job is closed although a target or a model may never answer.
JobCloses == <>(job \in Closed)

\* ReviewRun inside ReviewQueue: one paid order and one worker that neither
\* fails nor loses its lease.  The worker's place is read off the attempt it
\* waits for; Concurrency, as large as needed, lets it claim again at once.
WorkerAt ==
    IF current = 0 THEN "claim"
    ELSE IF late THEN "failRetry"
    ELSE IF stage[current] = "ready" THEN "complete"
    ELSE IF stage[current] = "thrown"
         THEN [none |-> "review", target |-> "blocked", retry |-> "failRetry",
               final |-> "failFinal"][error[current]]
    ELSE "review"

JobRow ==
    [status |-> IF job = "waiting" THEN "queued" ELSE job, attempts |-> attempts,
     available |-> IF job = "waiting" THEN "later" ELSE "now",
     owner |-> IF current = 0 THEN "nobody" ELSE "worker",
     lease |-> IF current = 0 THEN "none" ELSE "live"]

Queue == INSTANCE ReviewQueue
    WITH Orders <- {"order"}, Workers <- {"worker"}, Callbacks <- {},
         Concurrency <- MaxAttempts + 1, MaxFaults <- 0,
         NoOrder <- "none", NoWorker <- "nobody", NoResult <- "none",
         order <- [o \in {"order"} |-> "paid_intake_received"],
         job <- [o \in {"order"} |-> JobRow],
         result <- [o \in {"order"} |-> IF job \in Closed THEN job ELSE "none"],
         events <- {}, faults <- 0,
         pc <- [w \in {"worker"} |-> WorkerAt],
         held <- [w \in {"worker"} |-> IF current = 0 THEN "none" ELSE "order"],
         turn <- [w \in {"worker"} |-> attempts]

\* Whatever an attempt, its orphans and the timer do, the row changes only as
\* ReviewQueue has it: the inside of a review is one step of a worker there.
QueueSteps == [][Queue!Next]_(Queue!vars)
=============================================================================

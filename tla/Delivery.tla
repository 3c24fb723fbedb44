------------------------------ MODULE Delivery ------------------------------
(***************************************************************************)
(* Webhooks: the rows of delivery_attempts (src/order-store.js), and the   *)
(* worker processes that claim one, post it to the buyer's callback_url    *)
(* and record what came back (src/review/worker.js processDelivery,        *)
(* src/review/delivery.js sendWebhook).  Unlike review_jobs, these rows    *)
(* have no owner: a row that has been "sending" for ten minutes is queued  *)
(* again, and a sender records its outcome whoever sends by then.          *)
(***************************************************************************)
EXTENDS Integers

CONSTANTS
    Deliveries,   \* delivery ids, one per review event
    Senders,      \* worker processes, each started once
    MaxTries,     \* attempts markDeliveryFailed allows (6)
    MaxFaults,    \* bound: crashes, failed queries and lost replies
    MaxHangs,     \* bound: posts that outlive the ten minutes
    NoDelivery

ASSUME LimitsAssumption ==
    MaxTries \in Nat \ {0} /\ MaxFaults \in Nat /\ MaxHangs \in Nat
ASSUME NoDeliveryAssumption == NoDelivery \notin Deliveries

VARIABLES
    status,    \* delivery_attempts.status
    attempts,  \* attempt_count
    due,       \* next_attempt_at has passed ("now") or not ("later")
    age,       \* updated_at is less than ten minutes old ("fresh") or not
    pc,        \* where each process is in its loop
    held,      \* the delivery it sends
    accepted,  \* deliveries the receiver has answered with 2xx
    hangs,     \* hangs spent
    faults     \* faults spent

rows == <<status, attempts, due, age>>
vars == <<rows, pc, held, accepted, hangs, faults>>

\* What sendWebhook comes back with.  The retry test of processDelivery
\* searches the error's text, which for an HTTP status includes the first
\* characters of the receiver's answer.
\*   "ok"        2xx
\*   "error"     another status, a timeout, a failed connection
\*   "refused"   the destination is not public HTTPS: the text says so
\*   "worded"    another status, and the answer has a word of that test
Errors == {"error", "refused", "worded"}
Stages == Errors \cup {"sweep", "claim", "post", "hang", "ok", "dead"}

TypeOK ==
    /\ status \in [Deliveries -> {"absent", "pending", "sending", "delivered", "failed"}]
    /\ attempts \in [Deliveries -> Nat]
    /\ due \in [Deliveries -> {"now", "later"}]
    /\ age \in [Deliveries -> {"fresh", "stale"}]
    /\ pc \in [Senders -> Stages]
    /\ held \in [Senders -> Deliveries \cup {NoDelivery}]
    /\ accepted \subseteq Deliveries
    /\ hangs \in 0..MaxHangs
    /\ faults \in 0..MaxFaults

Init ==
    /\ status = [d \in Deliveries |-> "absent"]
    /\ attempts = [d \in Deliveries |-> 0]
    /\ due = [d \in Deliveries |-> "now"]
    /\ age = [d \in Deliveries |-> "fresh"]
    /\ pc = [s \in Senders |-> "sweep"]
    /\ held = [s \in Senders |-> NoDelivery]
    /\ accepted = {}
    /\ hangs = 0
    /\ faults = 0

Fault ==
    /\ faults < MaxFaults
    /\ faults' = faults + 1

Go(s, from, to) == pc[s] = from /\ pc' = [pc EXCEPT ![s] = to]

\* An UPDATE of the row of d: updated_at = NOW().
Update(d, newStatus) ==
    /\ status' = [status EXCEPT ![d] = newStatus]
    /\ age' = [age EXCEPT ![d] = "fresh"]

-----------------------------------------------------------------------------
(* The rows. *)

\* enqueueDelivery, when the review of the order ends.
EnqueueDelivery(d) ==
    /\ status[d] = "absent"
    /\ Update(d, "pending")
    /\ UNCHANGED <<attempts, due, pc, held, accepted, hangs, faults>>

\* next_attempt_at passes.
BackoffEnds(d) ==
    /\ status[d] = "pending"
    /\ due[d] = "later"
    /\ due' = [due EXCEPT ![d] = "now"]
    /\ UNCHANGED <<status, attempts, age, pc, held, accepted, hangs, faults>>

\* Ten minutes pass over a row whose sender died or hangs.  Any other post is
\* over in seconds: safeFetch has a deadline and a 2xx body is not read.
TenMinutesPass(d) ==
    /\ status[d] = "sending"
    /\ age[d] = "fresh"
    /\ \A s \in Senders : held[s] = d => pc[s] = "hang"
    /\ age' = [age EXCEPT ![d] = "stale"]
    /\ UNCHANGED <<status, attempts, due, pc, held, accepted, hangs, faults>>

-----------------------------------------------------------------------------
(* The loop of a process. *)

\* Mutants of Stale: any row being sent; none.
StaleOrFresh(d) == status[d] = "sending"
StaleNever(d) == d \notin Deliveries

Stale(d) == status[d] = "sending" /\ age[d] = "stale"

\* requeueStaleDeliveries, or its error, which is caught.
RequeueStaleDeliveries(s) ==
    /\ Go(s, "sweep", "claim")
    /\ \/ /\ status' = [d \in Deliveries |-> IF Stale(d) THEN "pending" ELSE status[d]]
          /\ due' = [d \in Deliveries |-> IF Stale(d) THEN "now" ELSE due[d]]
          /\ age' = [d \in Deliveries |-> IF Stale(d) THEN "fresh" ELSE age[d]]
          /\ UNCHANGED <<attempts, faults>>
       \/ Fault /\ UNCHANGED rows
    /\ UNCHANGED <<held, accepted, hangs>>

\* claimNextDelivery: the oldest pending row that is due and that no other
\* transaction has locked, with no regard to attempt_count.
ClaimNextDelivery(s, d) ==
    /\ Go(s, "claim", "post")
    /\ status[d] = "pending"
    /\ due[d] = "now"
    /\ Update(d, "sending")
    /\ attempts' = [attempts EXCEPT ![d] = @ + 1]
    /\ held' = [held EXCEPT ![s] = d]
    /\ UNCHANGED <<due, accepted, hangs, faults>>

\* Nothing to claim, or every row locked: round the loop.
ClaimNothing(s) ==
    /\ Go(s, "claim", "sweep")
    /\ UNCHANGED <<rows, held, accepted, hangs, faults>>

\* Mutant of Receive: the status of the response is not looked at.
ReceiveAny(s) ==
    \E outcome \in Errors : Go(s, "post", IF outcome = "refused" THEN outcome ELSE "ok")

\* The receiver's answer, and what sendWebhook makes of it.
Receive(s) == \E outcome \in Errors : Go(s, "post", outcome)

\* The receiver answers 2xx, and its answer arrives or is lost.
Accept(s) ==
    /\ \E outcome \in {"ok", "error"} : Go(s, "post", outcome)
    /\ accepted' = accepted \cup {held[s]}
    /\ UNCHANGED <<rows, held, hangs, faults>>

Reject(s) ==
    /\ Receive(s)
    /\ UNCHANGED <<rows, held, accepted, hangs, faults>>

\* The body of an answer other than 2xx trickles in: readResponseText is
\* called without a deadline.
Hang(s) ==
    /\ hangs < MaxHangs
    /\ Go(s, "post", "hang")
    /\ hangs' = hangs + 1
    /\ UNCHANGED <<rows, held, accepted, faults>>

HangEnds(s) ==
    /\ \E outcome \in {"error", "worded"} : Go(s, "hang", outcome)
    /\ UNCHANGED <<rows, held, accepted, hangs, faults>>

Release(s) == held' = [held EXCEPT ![s] = NoDelivery]

\* markDeliveryDelivered, by delivery_id alone.
MarkDeliveryDelivered(s) ==
    /\ Go(s, "ok", "sweep")
    /\ Update(held[s], "delivered")
    /\ Release(s)
    /\ UNCHANGED <<attempts, due, accepted, hangs, faults>>

\* The query fails, before or after its commit: the catch block takes it for
\* a failed delivery.
DeliveredLost(s) ==
    /\ Go(s, "ok", "error")
    /\ Fault
    /\ Update(held[s], "delivered") \/ UNCHANGED <<status, age>>
    /\ UNCHANGED <<attempts, due, held, accepted, hangs>>

\* Mutant of Retryable: attempt_count is not compared.
RetryableForever(s) == pc[s] = "error"

\* The retry flag and attempt_count < 6.
Retryable(s) == pc[s] = "error" /\ attempts[held[s]] < MaxTries

\* markDeliveryFailed, by delivery_id alone.
MarkDeliveryFailed(s) ==
    /\ pc[s] \in Errors
    /\ Update(held[s], IF Retryable(s) THEN "pending" ELSE "failed")
    /\ due' = IF Retryable(s) THEN [due EXCEPT ![held[s]] = "later"] ELSE due
    /\ pc' = [pc EXCEPT ![s] = "sweep"]
    /\ Release(s)
    /\ UNCHANGED <<attempts, accepted, hangs, faults>>

\* The process dies: killed, or a query outside a try block fails.
Crash(s) ==
    /\ pc[s] # "dead"
    /\ Fault
    /\ pc' = [pc EXCEPT ![s] = "dead"]
    /\ Release(s)
    /\ UNCHANGED <<rows, accepted, hangs>>

Claim(s) == \E d \in Deliveries : ClaimNextDelivery(s, d)

Post(s) == Accept(s) \/ Reject(s) \/ Hang(s) \/ HangEnds(s)

Record(s) == MarkDeliveryDelivered(s) \/ MarkDeliveryFailed(s)

Loop(s) ==
    RequeueStaleDeliveries(s) \/ Claim(s) \/ ClaimNothing(s) \/ Post(s) \/ Record(s)

Clock(d) == BackoffEnds(d) \/ TenMinutesPass(d)

Next ==
    \/ \E d \in Deliveries : EnqueueDelivery(d) \/ Clock(d)
    \/ \E s \in Senders : Loop(s) \/ DeliveredLost(s) \/ Crash(s)

Spec == Init /\ [][Next]_vars

\* A live process goes on (a hanging connection ends at last), time passes,
\* and a row is not locked at every poll.
FairSpec ==
    /\ Spec
    /\ \A s \in Senders : WF_vars(Loop(s)) /\ SF_vars(Claim(s))
    /\ \A d \in Deliveries : WF_vars(Clock(d))

-----------------------------------------------------------------------------
(* Properties. *)

\* A delivery is recorded as delivered only if its receiver answered 2xx to
\* one of its posts, whichever process recorded it and whatever came later.
DeliveredMeansAccepted == \A d \in Deliveries : status[d] = "delivered" => d \in accepted

\* Until something breaks or hangs, one process at a time sends a delivery,
\* and the row says so.
OneSender ==
    (faults = 0 /\ hangs = 0) =>
        \A s, t \in Senders :
            /\ held[s] # NoDelivery => status[held[s]] = "sending"
            /\ held[s] = held[t] /\ held[s] # NoDelivery => s = t

\* attempt_count is compared only when a sender reports a failure, not when a
\* row is claimed or recovered: every attempt beyond the sixth is owed to a
\* fault or to a hanging post.
TriesBounded == \A d \in Deliveries : attempts[d] <= MaxTries + faults + hangs

\* Every event is eventually delivered or given up for good, whatever the
\* senders, stale ones included, write over one another.
EveryEventEnds ==
    \A d \in Deliveries :
        status[d] = "pending" ~> [](status[d] \in {"delivered", "failed"})

=============================================================================

---------------------------- MODULE ReviewQueue ----------------------------
(***************************************************************************)
(* The durable review queue: the tables paid_service_orders, review_jobs,  *)
(* review_results and delivery_attempts as src/order-store.js writes them, *)
(* and the processes of src/review/worker.js that claim, review and close  *)
(* jobs.  Every function of the store is one PostgreSQL transaction, so it *)
(* is one action here; everything a worker does between two transactions   *)
(* is a place where other processes run, leases lapse and processes die.   *)
(*                                                                         *)
(* A worker is one PROCESS.  Its id holds a fresh random suffix, so the    *)
(* process systemd starts after a crash is another worker.                 *)
(***************************************************************************)
EXTENDS Integers

CONSTANTS
    Orders,        \* order ids
    Workers,       \* worker processes, each started at most once
    Callbacks,     \* the orders that carry a callback_url
    MaxAttempts,   \* REVIEW_JOB_MAX_ATTEMPTS
    Concurrency,   \* REVIEW_WORKER_CONCURRENCY: claims per loop iteration
    MaxFaults,     \* bound: crashes, lapsed leases and lost queries
    NoOrder, NoWorker, NoResult

ASSUME OrdersAssumption == Callbacks \subseteq Orders
ASSUME LimitsAssumption ==
    /\ MaxAttempts \in Nat \ {0}
    /\ Concurrency \in Nat \ {0}
    /\ MaxFaults \in Nat
ASSUME SentinelAssumption ==
    /\ NoOrder \notin Orders
    /\ NoWorker \notin Workers
    /\ NoResult \notin {"completed", "needs_input", "failed"}

VARIABLES
    order,    \* paid_service_orders.status
    job,      \* the review_jobs row of each order
    result,   \* review_results: the status of the stored result
    events,   \* delivery_attempts.event_id, the pair <<order, status>>
    pc,       \* where each worker process is in its loop
    held,     \* the job variable of processJob
    turn,     \* the loop index of runReviewWorker
    faults    \* faults spent

vars == <<order, job, result, events, pc, held, turn, faults>>
tables == <<order, job, result, events>>

FinalStatuses == {"completed", "needs_input", "failed"}
OrderStatuses ==
    {"absent", "payment_verified", "paid_intake_received", "settlement_failed"}
JobStatuses ==
    FinalStatuses \cup
        {"absent", "awaiting_settlement", "queued", "processing", "cancelled"}

\* available_at and lease_expires_at are compared with NOW() only, so the
\* row keeps whether each has passed.
Jobs == [status : JobStatuses, attempts : Nat, available : {"now", "later"},
         owner : Workers \cup {NoWorker}, lease : {"none", "live", "expired"}]

\* "blockedNow" is a TargetAccessError whose retryable flag is set (GitHub
\* answered 429 or 5xx, a timeout, a DNS failure), "blocked" one without it.
Blocked == {"blocked", "blockedNow"}
Outcomes == Blocked \cup {"complete", "failRetry", "failFinal"}
Stages == Outcomes \cup {"new", "sweep", "claim", "review", "dead"}

TypeOK ==
    /\ order \in [Orders -> OrderStatuses]
    /\ job \in [Orders -> Jobs]
    /\ result \in [Orders -> FinalStatuses \cup {NoResult}]
    /\ events \subseteq Orders \X FinalStatuses
    /\ pc \in [Workers -> Stages]
    /\ held \in [Workers -> Orders \cup {NoOrder}]
    /\ turn \in [Workers -> 0..Concurrency]
    /\ faults \in 0..MaxFaults

Row(status, attempts, available) ==
    [status |-> status, attempts |-> attempts, available |-> available,
     owner |-> NoWorker, lease |-> "none"]

Init ==
    /\ order = [o \in Orders |-> "absent"]
    /\ job = [o \in Orders |-> Row("absent", 0, "now")]
    /\ result = [o \in Orders |-> NoResult]
    /\ events = {}
    /\ pc = [w \in Workers |-> "new"]
    /\ held = [w \in Workers |-> NoOrder]
    /\ turn = [w \in Workers |-> 0]
    /\ faults = 0

Fault ==
    /\ faults < MaxFaults
    /\ faults' = faults + 1

-----------------------------------------------------------------------------
(* The API's transactions. *)

\* saveVerifiedOrder: the order and its job, before settlement.  A repeated
\* call finds both rows (ON CONFLICT) and changes nothing modelled here.
SaveVerifiedOrder(o) ==
    /\ order[o] = "absent"
    /\ order' = [order EXCEPT ![o] = "payment_verified"]
    /\ job' = [job EXCEPT ![o] = Row("awaiting_settlement", 0, "now")]
    /\ UNCHANGED <<result, events, pc, held, turn, faults>>

\* markOrderSettled, for the order's own transaction hash.
MarkOrderSettled(o) ==
    /\ order[o] # "absent"
    /\ order' = [order EXCEPT ![o] = "paid_intake_received"]
    /\ job' = IF job[o].status = "awaiting_settlement"
              THEN [job EXCEPT ![o] = Row("queued", job[o].attempts, "now")]
              ELSE job
    /\ UNCHANGED <<result, events, pc, held, turn, faults>>

\* Mutant of MarkOrderSettlementFailed: AND settlement_tx_hash IS NULL is missing.
SettlementFailedAlways(o) ==
    /\ order[o] # "absent"
    /\ order' = [order EXCEPT ![o] = "settlement_failed"]
    /\ job' = IF job[o].status = "awaiting_settlement"
              THEN [job EXCEPT ![o].status = "cancelled"]
              ELSE job
    /\ UNCHANGED <<result, events, pc, held, turn, faults>>

\* markOrderSettlementFailed: the order is left alone once it carries a
\* transaction, the job is cancelled whenever it still awaits settlement.
MarkOrderSettlementFailed(o) ==
    /\ order[o] # "absent"
    /\ order' = IF order[o] = "paid_intake_received" THEN order
                ELSE [order EXCEPT ![o] = "settlement_failed"]
    /\ job' = IF job[o].status = "awaiting_settlement"
              THEN [job EXCEPT ![o].status = "cancelled"]
              ELSE job
    /\ UNCHANGED <<result, events, pc, held, turn, faults>>

-----------------------------------------------------------------------------
(* The clock. *)

\* available_at passes.
BackoffEnds(o) ==
    /\ job[o].status = "queued"
    /\ job[o].available = "later"
    /\ job' = [job EXCEPT ![o].available = "now"]
    /\ UNCHANGED <<order, result, events, pc, held, turn, faults>>

\* lease_expires_at passes: no process is left to renew the lease.
LeaseLapses(o) ==
    /\ job[o].status = "processing"
    /\ job[o].lease = "live"
    /\ pc[job[o].owner] = "dead"
    /\ job' = [job EXCEPT ![o].lease = "expired"]
    /\ UNCHANGED <<order, result, events, pc, held, turn, faults>>

\* The owner lives, but its renewals, three per lease, were all lost.
RenewalsLost(o) ==
    /\ job[o].status = "processing"
    /\ job[o].lease = "live"
    /\ pc[job[o].owner] # "dead"
    /\ Fault
    /\ job' = [job EXCEPT ![o].lease = "expired"]
    /\ UNCHANGED <<order, result, events, pc, held, turn>>

-----------------------------------------------------------------------------
(* The worker's loop. *)

Start(w) ==
    /\ pc[w] = "new"
    /\ pc' = [pc EXCEPT ![w] = "sweep"]
    /\ UNCHANGED <<tables, held, turn, faults>>

\* A process dies anywhere: SIGKILL, out of memory, or a query outside a try
\* block (claimNextReviewJob, failReviewJob, completeNeedsInput) rejecting.
Crash(w) ==
    /\ pc[w] \notin {"new", "dead"}
    /\ Fault
    /\ pc' = [pc EXCEPT ![w] = "dead"]
    /\ held' = [held EXCEPT ![w] = NoOrder]
    /\ UNCHANGED <<tables, turn>>

\* Mutants of Lapsed: live leases are swept too; nothing is swept.
LapsedOrLive(o) == job[o].status = "processing"
LapsedNever(o) == o \notin Orders

\* The WHERE clause of requeueExpiredReviewJobs.
Lapsed(o) == job[o].status = "processing" /\ job[o].lease = "expired"

\* Mutant of Requeued: lease_owner is not cleared.
RequeuedOwned(o) == [job[o] EXCEPT !.status = "queued"]

\* The same job, back in the queue, its attempts kept.
Requeued(o) == Row("queued", job[o].attempts, "now")

\* requeueExpiredReviewJobs, one UPDATE over every expired row; an error is
\* caught and logged, and the loop goes on to claim.
Sweep(w) ==
    /\ pc[w] = "sweep"
    /\ \/ /\ job' = [o \in Orders |-> IF Lapsed(o) THEN Requeued(o) ELSE job[o]]
          /\ UNCHANGED faults
       \/ Fault /\ UNCHANGED job
    /\ pc' = [pc EXCEPT ![w] = "claim"]
    /\ turn' = [turn EXCEPT ![w] = 0]
    /\ UNCHANGED <<order, result, events, held>>

\* The WHERE clause of claimNextReviewJob.
Claimable(o) ==
    /\ job[o].status = "queued"
    /\ job[o].available = "now"
    /\ order[o] = "paid_intake_received"
    /\ job[o].lease # "live"

\* ORDER BY ... FOR UPDATE SKIP LOCKED takes the oldest row no transaction has
\* locked.  The query locks the order's row too, which every repeated
\* settlement of that order updates, so any claimable row may be skipped.
ClaimNextReviewJob(w, o) ==
    /\ pc[w] = "claim"
    /\ Claimable(o)
    /\ job' = [job EXCEPT ![o] =
                 [status |-> "processing", attempts |-> job[o].attempts + 1,
                  available |-> job[o].available, owner |-> w, lease |-> "live"]]
    /\ pc' = [pc EXCEPT ![w] = "review"]
    /\ held' = [held EXCEPT ![w] = o]
    /\ turn' = [turn EXCEPT ![w] = turn[w] + 1]
    /\ UNCHANGED <<order, result, events, faults>>

\* No row, or every row locked: leave the claims, deliver one webhook, sleep.
ClaimNothing(w) ==
    /\ pc[w] = "claim"
    /\ pc' = [pc EXCEPT ![w] = "sweep"]
    /\ UNCHANGED <<tables, held, turn, faults>>

\* The interval of processJob: heartbeatReviewJob looks at the owner and the
\* status and not at the expiry, so it revives a lease nobody has swept yet.
HeartbeatReviewJob(w) ==
    /\ held[w] \in Orders
    /\ job[held[w]].owner = w
    /\ job[held[w]].status = "processing"
    /\ job' = [job EXCEPT ![held[w]].lease = "live"]
    /\ UNCHANGED <<order, result, events, pc, held, turn, faults>>

\* Inspection and agent, bounded by withTimeout, end in one of the outcomes
\* the catch block of processJob tells apart.
Review(w) ==
    /\ pc[w] = "review"
    /\ \E outcome \in Outcomes : pc' = [pc EXCEPT ![w] = outcome]
    /\ UNCHANGED <<tables, held, turn, faults>>

-----------------------------------------------------------------------------
(* Closing a job. *)

\* Mutant of HoldsLease: AND lease_owner = $n is missing.
HoldsLeaseUnfenced(w) == held[w] # NoOrder

\* WHERE job_id = $1 AND lease_owner = $n: the fence of every closing write.
HoldsLease(w) == job[held[w]].owner = w

\* Mutant of RetryLeft: one attempt too many.
RetryLeftOffByOne(o) == job[o].attempts <= MaxAttempts

\* attempt_count < max_attempts in failReviewJob.
RetryLeft(o) == job[o].attempts < MaxAttempts

\* enqueueDelivery: one event per order and status, only with a callback_url.
EventFor(o, status) == IF o \in Callbacks THEN {<<o, status>>} ELSE {}

\* insertReviewResult, the job's final status and enqueueDelivery, together.
CloseJob(w, status) ==
    /\ job' = [job EXCEPT ![held[w]] =
                 Row(status, job[held[w]].attempts, job[held[w]].available)]
    /\ result' = [result EXCEPT ![held[w]] = status]
    /\ events' = events \cup EventFor(held[w], status)

\* The end of processJob: clear the heartbeat; claim again while the index
\* allows it, otherwise deliver one webhook and go round the loop.
NextTurn(w) ==
    /\ pc' = [pc EXCEPT ![w] = IF turn[w] < Concurrency THEN "claim" ELSE "sweep"]
    /\ held' = [held EXCEPT ![w] = NoOrder]

\* completeReviewJob commits.  If the acknowledgement is lost, processJob
\* sees an error and takes the failure path with the job already closed.
Complete(w) ==
    /\ pc[w] = "complete"
    /\ HoldsLease(w)
    /\ CloseJob(w, "completed")
    /\ \/ NextTurn(w) /\ UNCHANGED faults
       \/ Fault /\ pc' = [pc EXCEPT ![w] = "failRetry"] /\ UNCHANGED held
    /\ UNCHANGED <<order, turn>>

\* Mutant of CompleteRejected: the result is inserted outside the transaction.
RejectedKeepsResult(w) ==
    /\ pc[w] = "complete"
    /\ \/ ~HoldsLease(w) /\ UNCHANGED faults
       \/ Fault
    /\ pc' = [pc EXCEPT ![w] = "failRetry"]
    /\ result' = [result EXCEPT ![held[w]] = "completed"]
    /\ UNCHANGED <<order, job, events, held, turn>>

\* completeReviewJob throws and rolls back: the lease is another worker's, or
\* a query failed.  The catch block takes it for a failed review.
CompleteRejected(w) ==
    /\ pc[w] = "complete"
    /\ \/ ~HoldsLease(w) /\ UNCHANGED faults
       \/ Fault
    /\ pc' = [pc EXCEPT ![w] = "failRetry"]
    /\ UNCHANGED <<tables, held, turn>>

\* completeNeedsInput, for any TargetAccessError.
CompleteNeedsInput(w) ==
    /\ pc[w] \in Blocked
    /\ HoldsLease(w)
    /\ CloseJob(w, "needs_input")
    /\ NextTurn(w)
    /\ UNCHANGED <<order, turn, faults>>

\* completeNeedsInput runs in the catch block: when the lease is lost its
\* error leaves processJob and the loop, and the process exits.
NeedsInputRejected(w) ==
    /\ pc[w] \in Blocked
    /\ ~HoldsLease(w)
    /\ pc' = [pc EXCEPT ![w] = "dead"]
    /\ held' = [held EXCEPT ![w] = NoOrder]
    /\ UNCHANGED <<tables, turn, faults>>

\* failReviewJob, the lease still held: back to the queue with backoff, or
\* failed with a result and an event.
Fail(w) ==
    /\ pc[w] \in {"failRetry", "failFinal"}
    /\ HoldsLease(w)
    /\ IF pc[w] = "failRetry" /\ RetryLeft(held[w])
       THEN /\ job' = [job EXCEPT ![held[w]] =
                         Row("queued", job[held[w]].attempts, "later")]
            /\ UNCHANGED <<result, events>>
       ELSE CloseJob(w, "failed")
    /\ NextTurn(w)
    /\ UNCHANGED <<order, turn, faults>>

\* failReviewJob matches no row: stored is false and nothing is thrown.
FailIgnored(w) ==
    /\ pc[w] \in {"failRetry", "failFinal"}
    /\ ~HoldsLease(w)
    /\ NextTurn(w)
    /\ UNCHANGED <<tables, turn, faults>>

-----------------------------------------------------------------------------
Api(o) ==
    SaveVerifiedOrder(o) \/ MarkOrderSettled(o) \/ MarkOrderSettlementFailed(o)

Clock(o) == BackoffEnds(o) \/ LeaseLapses(o)

Close(w) ==
    \/ Complete(w) \/ CompleteRejected(w)
    \/ CompleteNeedsInput(w) \/ NeedsInputRejected(w)
    \/ Fail(w) \/ FailIgnored(w)

Claim(w) == \E o \in Orders : ClaimNextReviewJob(w, o)

Loop(w) ==
    \/ Start(w) \/ Sweep(w) \/ Claim(w) \/ ClaimNothing(w)
    \/ Review(w) \/ Close(w)

Next ==
    \/ \E o \in Orders : Api(o) \/ Clock(o) \/ RenewalsLost(o)
    \/ \E w \in Workers : Loop(w) \/ Crash(w) \/ HeartbeatReviewJob(w)

Spec == Init /\ [][Next]_vars

\* The event loop of a live process runs on (Review because withTimeout ends
\* it), time passes, and a row is not locked by another transaction at every
\* poll.  Nothing is assumed of the API or of the faults.
FairSpec ==
    /\ Spec
    /\ \A w \in Workers : WF_vars(Loop(w)) /\ SF_vars(Claim(w))
    /\ \A o \in Orders : WF_vars(Clock(o))

-----------------------------------------------------------------------------
(* Properties. *)

\* The review of an order is stored if and only if its job is final, with the
\* status of the job, and the buyer's webhook gets one event for it, of that
\* status: "order_id is the idempotency key against two final reviews".
OneAnswer ==
    \A o \in Orders :
        LET final == job[o].status \in FinalStatuses
        IN  /\ result[o] = IF final THEN job[o].status ELSE NoResult
            /\ {e \in events : e[1] = o} =
                  IF final THEN EventFor(o, job[o].status) ELSE {}

\* A job is under review if and only if some process owns it, and that
\* process is working on it or has died: no path through processJob returns
\* to the loop with the lease still held, which no sweep would ever free
\* while the process keeps renewing its other jobs.
NoLeakedLease ==
    \A o \in Orders :
        /\ job[o].status = "processing" <=> job[o].owner # NoWorker
        /\ job[o].status = "processing" <=> job[o].lease # "none"
        /\ job[o].owner # NoWorker =>
              pc[job[o].owner] = "dead" \/ held[job[o].owner] = o

\* Only settled orders are ever queued, and the payment's status agrees with
\* the job's whichever order settlement and failure are recorded in.
PaidBeforeReview ==
    \A o \in Orders :
        /\ job[o].status = "absent" <=> order[o] = "absent"
        /\ job[o].status = "awaiting_settlement" => order[o] = "payment_verified"
        /\ job[o].status = "cancelled" =>
              order[o] \in {"settlement_failed", "paid_intake_received"}
        /\ job[o].status \in FinalStatuses \cup {"queued", "processing"} =>
              order[o] = "paid_intake_received"

\* max_attempts bounds the reported failures only: a lapsed lease requeues a
\* job without looking at it.  Still every attempt beyond the maximum is paid
\* for by one fault, so nothing but crashes and lost leases exceeds it.
AttemptBudget == \A o \in Orders : job[o].attempts <= MaxAttempts + faults

\* Until something breaks, a process working on an order holds its lease: no
\* two processes review one order at a time.
NoFaultNoRival ==
    faults = 0 =>
        \A w \in Workers : held[w] # NoOrder =>
            pc[w] # "dead" /\ job[held[w]].owner = w

\* A result is stored by the process that holds the lease at that moment, at
\* the end of its own review; from then on the job, its result and its events
\* are never touched again, by no late worker, sweep, settlement or retry.
HolderStep ==
    \A o \in Orders : result'[o] # result[o] =>
        \E w \in Workers :
            /\ held[w] = o /\ job[o].owner = w
            /\ pc[w] \in Outcomes /\ pc'[w] # pc[w]
FinalStep ==
    \A o \in Orders : job[o].status \in FinalStatuses =>
        /\ job'[o] = job[o]
        /\ result'[o] = result[o]
        /\ {e \in events' : e[1] = o} = {e \in events : e[1] = o}
ClosedOnce == [][HolderStep /\ FinalStep]_vars

\* The queue keeps the promise made to the buyer, ReviewService, under the
\* refinement mapping: an order is accepted once its job has been queued, its
\* answer is its stored result.
Accepted ==
    {o \in Orders : job[o].status \in FinalStatuses \cup {"queued", "processing"}}

Service == INSTANCE ReviewService
              WITH Answers <- FinalStatuses, NoAnswer <- NoResult,
                   accepted <- Accepted, answer <- result

ServiceSafety == Service!SafeSpec

\* Every queued job is eventually answered, and the answer is final.
ServiceKept == Service!Spec

=============================================================================

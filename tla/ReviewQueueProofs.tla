------------------------- MODULE ReviewQueueProofs -------------------------
(***************************************************************************)
(* Proofs about ReviewQueue for any number of orders, worker processes,    *)
(* attempts and faults.  IInv is the inductive invariant: the properties   *)
(* ReviewQueue states, with what they need of the worker's own variables.  *)
(***************************************************************************)
EXTENDS ReviewQueue, TLAPS

\* Where a process works on an order, and where it may still claim.
LoopOK ==
    \A w \in Workers :
        /\ held[w] # NoOrder <=> pc[w] \in Outcomes \cup {"review"}
        /\ pc[w] = "claim" => turn[w] < Concurrency

\* Once its owner is dead or its lease has expired, a job under review has
\* spent at least one fault more than its attempts account for, and so has a
\* job that may be claimed again.
BudgetLeft ==
    \A o \in Orders :
        /\ job[o].status \in {"absent", "awaiting_settlement"} => job[o].attempts = 0
        /\ job[o].status = "queued" => job[o].attempts < MaxAttempts + faults
        /\ (/\ job[o].status = "processing"
            /\ job[o].lease = "expired" \/ pc[job[o].owner] = "dead")
              => job[o].attempts < MaxAttempts + faults

\* Before the first fault no process has died and no lease has expired.
Quiet ==
    faults = 0 =>
        /\ \A w \in Workers : pc[w] # "dead"
        /\ \A o \in Orders : job[o].lease # "expired"

IInv ==
    /\ TypeOK
    /\ LoopOK
    /\ OneAnswer
    /\ NoLeakedLease
    /\ PaidBeforeReview
    /\ AttemptBudget
    /\ BudgetLeft
    /\ NoFaultNoRival
    /\ Quiet

-----------------------------------------------------------------------------
(* The initial state. *)

LEMMA InitIInv == Init => IInv
  <1> SUFFICES ASSUME Init PROVE IInv
    OBVIOUS
  <1> USE OrdersAssumption, LimitsAssumption, SentinelAssumption
  <1>1. TypeOK
    BY DEF Init, TypeOK, Row, Jobs, JobStatuses, FinalStatuses, OrderStatuses, Stages
  <1>2. LoopOK /\ NoLeakedLease /\ PaidBeforeReview
    BY DEF Init, LoopOK, NoLeakedLease, PaidBeforeReview, Row, Outcomes, Blocked, FinalStatuses
  <1>3. OneAnswer
    BY DEF Init, OneAnswer, Row, FinalStatuses
  <1>4. AttemptBudget /\ BudgetLeft
    BY DEF Init, AttemptBudget, BudgetLeft, Row
  <1>5. NoFaultNoRival /\ Quiet
    BY DEF Init, NoFaultNoRival, Quiet, Row
  <1> QED
    BY <1>1, <1>2, <1>3, <1>4, <1>5 DEF IInv

-----------------------------------------------------------------------------
(* Types. *)

LEMMA FieldTypes ==
  ASSUME NEW r \in Jobs
  PROVE  /\ [r EXCEPT !.available = "now"] \in Jobs
         /\ \A lease \in {"none", "live", "expired"} : [r EXCEPT !.lease = lease] \in Jobs
         /\ [r EXCEPT !.status = "cancelled"] \in Jobs
         /\ \A available \in {"now", "later"}, status \in JobStatuses :
               Row(status, r.attempts, available) \in Jobs
  BY DEF Jobs, JobStatuses, Row

\* A job closed by its holder keeps the types of the rows.
LEMMA CloseTypes ==
  ASSUME TypeOK, NEW w \in Workers, held[w] \in Orders, NEW status \in FinalStatuses,
         CloseJob(w, status)
  PROVE  /\ job' \in [Orders -> Jobs]
         /\ result' \in [Orders -> FinalStatuses \cup {NoResult}]
         /\ events' \subseteq Orders \X FinalStatuses
  <1>1. job[held[w]] \in Jobs /\ job[held[w]].available \in {"now", "later"}
    BY DEF TypeOK, Jobs
  <1>2. Row(status, job[held[w]].attempts, job[held[w]].available) \in Jobs
    BY <1>1, FieldTypes DEF JobStatuses
  <1> QED
    BY <1>2 DEF CloseJob, EventFor, TypeOK

LEMMA ClockTypes ==
  ASSUME TypeOK, LoopOK, NEW o \in Orders, Clock(o) \/ RenewalsLost(o)
  PROVE  TypeOK' /\ LoopOK'
  <1> USE LimitsAssumption
  <1>1. job[o] \in Jobs
    BY DEF TypeOK
  <1>2. job' \in [Orders -> Jobs] /\ UNCHANGED <<order, result, events, pc, held, turn>>
    BY <1>1, FieldTypes DEF TypeOK, Clock, BackoffEnds, LeaseLapses, RenewalsLost
  <1>3. faults' \in 0..MaxFaults
    BY DEF TypeOK, Clock, BackoffEnds, LeaseLapses, RenewalsLost, Fault
  <1> QED
    BY <1>2, <1>3 DEF TypeOK, LoopOK

LEMMA TypeStep == IInv /\ Next => TypeOK' /\ LoopOK'
  <1> SUFFICES ASSUME IInv, Next PROVE TypeOK' /\ LoopOK'
    OBVIOUS
  <1> USE LimitsAssumption, SentinelAssumption
  <1> USE DEF IInv, TypeOK, LoopOK, Stages, Outcomes, Blocked, FinalStatuses, OrderStatuses
  <1>0. \A o \in Orders :
          /\ job[o] \in Jobs
          /\ \A available \in {"now", "later"}, status \in JobStatuses :
                Row(status, job[o].attempts, available) \in Jobs
          /\ Row("absent", 0, "now") \in Jobs
          /\ Row("awaiting_settlement", 0, "now") \in Jobs
    <2>1. \A o \in Orders : job[o] \in Jobs
      OBVIOUS
    <2>2. Row("absent", 0, "now") \in Jobs /\ Row("awaiting_settlement", 0, "now") \in Jobs
      BY DEF Jobs, JobStatuses, Row
    <2> QED
      BY <2>1, <2>2, FieldTypes
  <1>1. ASSUME NEW o \in Orders, Api(o) PROVE TypeOK' /\ LoopOK'
    <2>1. CASE SaveVerifiedOrder(o)
      BY <1>0, <2>1 DEF SaveVerifiedOrder
    <2>2. CASE MarkOrderSettled(o)
      BY <1>0, <2>2 DEF MarkOrderSettled, JobStatuses
    <2>3. CASE MarkOrderSettlementFailed(o)
      <3>1. job[o] \in Jobs
        BY <1>0
      <3>2. job' \in [Orders -> Jobs] /\ order' \in [Orders -> OrderStatuses]
        BY <2>3, <3>1, FieldTypes DEF MarkOrderSettlementFailed
      <3> QED
        BY <2>3, <3>2 DEF MarkOrderSettlementFailed
    <2> QED
      BY <1>1, <2>1, <2>2, <2>3 DEF Api
  <1>2. ASSUME NEW o \in Orders, Clock(o) \/ RenewalsLost(o) PROVE TypeOK' /\ LoopOK'
    BY <1>2, ClockTypes
  <1>3. ASSUME NEW w \in Workers, Start(w) \/ Crash(w) \/ ClaimNothing(w) \/ Review(w)
        PROVE TypeOK' /\ LoopOK'
    BY <1>3 DEF Start, Crash, ClaimNothing, Review, Fault, tables
  <1>4. ASSUME NEW w \in Workers, Sweep(w) PROVE TypeOK' /\ LoopOK'
    <2>1. \A o \in Orders : Requeued(o) \in Jobs
      BY <1>0 DEF Requeued, JobStatuses
    <2>2. job' \in [Orders -> Jobs]
      BY <1>0, <1>4, <2>1 DEF Sweep
    <2> QED
      BY <1>4, <2>2 DEF Sweep, Fault
  <1>5. ASSUME NEW w \in Workers, Claim(w) PROVE TypeOK' /\ LoopOK'
    BY <1>0, <1>5 DEF Claim, ClaimNextReviewJob, Jobs, JobStatuses
  <1>6. ASSUME NEW w \in Workers, HeartbeatReviewJob(w) PROVE TypeOK' /\ LoopOK'
    <2>1. job[held[w]] \in Jobs
      BY <1>0, <1>6 DEF HeartbeatReviewJob
    <2>2. job' \in [Orders -> Jobs]
      BY <1>6, <2>1, FieldTypes DEF HeartbeatReviewJob
    <2> QED
      BY <1>6, <2>2 DEF HeartbeatReviewJob
  <1>7. ASSUME NEW w \in Workers, Complete(w) PROVE TypeOK' /\ LoopOK'
    <2>1. held[w] \in Orders /\ CloseJob(w, "completed")
      BY <1>7 DEF Complete
    <2>2. /\ job' \in [Orders -> Jobs]
          /\ result' \in [Orders -> FinalStatuses \cup {NoResult}]
          /\ events' \subseteq Orders \X FinalStatuses
      BY <2>1, CloseTypes
    <2> QED
      BY <1>7, <2>2 DEF Complete, NextTurn, Fault
  <1>8. ASSUME NEW w \in Workers, CompleteNeedsInput(w) PROVE TypeOK' /\ LoopOK'
    <2>1. held[w] \in Orders /\ CloseJob(w, "needs_input")
      BY <1>8 DEF CompleteNeedsInput
    <2>2. /\ job' \in [Orders -> Jobs]
          /\ result' \in [Orders -> FinalStatuses \cup {NoResult}]
          /\ events' \subseteq Orders \X FinalStatuses
      BY <2>1, CloseTypes
    <2> QED
      BY <1>8, <2>2 DEF CompleteNeedsInput, NextTurn
  <1>9. ASSUME NEW w \in Workers, Fail(w) PROVE TypeOK' /\ LoopOK'
    <2>1. held[w] \in Orders
      BY <1>9 DEF Fail
    <2>2. CASE CloseJob(w, "failed")
      <3>1. /\ job' \in [Orders -> Jobs]
            /\ result' \in [Orders -> FinalStatuses \cup {NoResult}]
            /\ events' \subseteq Orders \X FinalStatuses
        BY <2>1, <2>2, CloseTypes
      <3> QED
        BY <1>9, <3>1 DEF Fail, NextTurn
    <2>3. CASE job' = [job EXCEPT ![held[w]] = Row("queued", job[held[w]].attempts, "later")]
               /\ UNCHANGED <<result, events>>
      <3>1. Row("queued", job[held[w]].attempts, "later") \in Jobs
        BY <1>0, <2>1 DEF JobStatuses
      <3>2. job' \in [Orders -> Jobs]
        BY <2>1, <2>3, <3>1
      <3> QED
        BY <1>9, <2>3, <3>2 DEF Fail, NextTurn
    <2> QED
      BY <1>9, <2>2, <2>3 DEF Fail
  <1>10. ASSUME NEW w \in Workers,
                CompleteRejected(w) \/ NeedsInputRejected(w) \/ FailIgnored(w)
         PROVE TypeOK' /\ LoopOK'
    <2>1. CASE CompleteRejected(w)
      BY <2>1 DEF CompleteRejected, Fault, tables
    <2>2. CASE NeedsInputRejected(w)
      BY <2>2 DEF NeedsInputRejected, tables
    <2>3. CASE FailIgnored(w)
      BY <2>3 DEF FailIgnored, NextTurn, tables
    <2> QED
      BY <1>10, <2>1, <2>2, <2>3
  <1> QED
    BY <1>1, <1>2, <1>3, <1>4, <1>5, <1>6, <1>7, <1>8, <1>9, <1>10
       DEF Next, Loop, Close

(* The lease invariant. *)
LEMMA LeaseStep == IInv /\ Next => NoLeakedLease'
  <1> SUFFICES ASSUME IInv, Next PROVE NoLeakedLease'
    OBVIOUS
  <1> USE LimitsAssumption, SentinelAssumption
  <1> USE DEF IInv, TypeOK, Jobs, Row, FinalStatuses, LoopOK, NoLeakedLease, Stages, Outcomes, Blocked
  <1>1. ASSUME NEW o \in Orders, Api(o) PROVE NoLeakedLease'
    BY <1>1 DEF Api, SaveVerifiedOrder, MarkOrderSettled, MarkOrderSettlementFailed
  <1>2. ASSUME NEW o \in Orders, Clock(o) \/ RenewalsLost(o) PROVE NoLeakedLease'
    BY <1>2 DEF Clock, BackoffEnds, LeaseLapses, RenewalsLost, Fault
  <1>3. ASSUME NEW w \in Workers, Start(w) \/ Crash(w) \/ ClaimNothing(w) \/ Review(w)
        PROVE NoLeakedLease'
    BY <1>3 DEF Start, Crash, ClaimNothing, Review, Fault, tables
  <1>4. ASSUME NEW w \in Workers, Sweep(w) PROVE NoLeakedLease'
    BY <1>4 DEF Sweep, Requeued, Lapsed, Fault
  <1>5. ASSUME NEW w \in Workers, Claim(w) PROVE NoLeakedLease'
    BY <1>5 DEF Claim, ClaimNextReviewJob, Claimable
  <1>6. ASSUME NEW w \in Workers, HeartbeatReviewJob(w) PROVE NoLeakedLease'
    BY <1>6 DEF HeartbeatReviewJob
  <1>7. ASSUME NEW w \in Workers, Complete(w) PROVE NoLeakedLease'
    BY <1>7 DEF Complete, HoldsLease, CloseJob, NextTurn, Fault
  <1>8. ASSUME NEW w \in Workers, CompleteNeedsInput(w) PROVE NoLeakedLease'
    BY <1>8 DEF CompleteNeedsInput, HoldsLease, CloseJob, NextTurn
  <1>9. ASSUME NEW w \in Workers, Fail(w) PROVE NoLeakedLease'
    BY <1>9 DEF Fail, HoldsLease, RetryLeft, CloseJob, NextTurn
  <1>10. ASSUME NEW w \in Workers,
                CompleteRejected(w) \/ NeedsInputRejected(w) \/ FailIgnored(w)
         PROVE NoLeakedLease'
    BY <1>10 DEF CompleteRejected, NeedsInputRejected, FailIgnored, HoldsLease, NextTurn, Fault, tables
  <1> QED
    BY <1>1, <1>2, <1>3, <1>4, <1>5, <1>6, <1>7, <1>8, <1>9, <1>10
       DEF Next, Loop, Close


(* Payment before review. *)
LEMMA PaidStep == IInv /\ Next => PaidBeforeReview'
  <1> SUFFICES ASSUME IInv, Next PROVE PaidBeforeReview'
    OBVIOUS
  <1> USE LimitsAssumption, SentinelAssumption
  <1> USE DEF IInv, TypeOK, Jobs, Row, FinalStatuses, NoLeakedLease, PaidBeforeReview
  <1>1. ASSUME NEW o \in Orders, Api(o) PROVE PaidBeforeReview'
    BY <1>1 DEF Api, SaveVerifiedOrder, MarkOrderSettled, MarkOrderSettlementFailed
  <1>2. ASSUME NEW o \in Orders, Clock(o) \/ RenewalsLost(o) PROVE PaidBeforeReview'
    BY <1>2 DEF Clock, BackoffEnds, LeaseLapses, RenewalsLost, Fault
  <1>3. ASSUME NEW w \in Workers, Start(w) \/ Crash(w) \/ ClaimNothing(w) \/ Review(w)
        PROVE PaidBeforeReview'
    BY <1>3 DEF Start, Crash, ClaimNothing, Review, Fault, tables
  <1>4. ASSUME NEW w \in Workers, Sweep(w) PROVE PaidBeforeReview'
    BY <1>4 DEF Sweep, Requeued, Lapsed, Fault
  <1>5. ASSUME NEW w \in Workers, Claim(w) PROVE PaidBeforeReview'
    BY <1>5 DEF Claim, ClaimNextReviewJob, Claimable
  <1>6. ASSUME NEW w \in Workers, HeartbeatReviewJob(w) PROVE PaidBeforeReview'
    BY <1>6 DEF HeartbeatReviewJob
  <1>7. ASSUME NEW w \in Workers, Complete(w) PROVE PaidBeforeReview'
    BY <1>7 DEF Complete, HoldsLease, CloseJob, NextTurn, Fault
  <1>8. ASSUME NEW w \in Workers, CompleteNeedsInput(w) PROVE PaidBeforeReview'
    BY <1>8 DEF CompleteNeedsInput, HoldsLease, CloseJob, NextTurn
  <1>9. ASSUME NEW w \in Workers, Fail(w) PROVE PaidBeforeReview'
    BY <1>9 DEF Fail, HoldsLease, RetryLeft, CloseJob, NextTurn
  <1>10. ASSUME NEW w \in Workers,
                CompleteRejected(w) \/ NeedsInputRejected(w) \/ FailIgnored(w)
         PROVE PaidBeforeReview'
    BY <1>10 DEF CompleteRejected, NeedsInputRejected, FailIgnored, HoldsLease, NextTurn, Fault, tables
  <1> QED
    BY <1>1, <1>2, <1>3, <1>4, <1>5, <1>6, <1>7, <1>8, <1>9, <1>10
       DEF Next, Loop, Close


(* The attempt budget. *)
LEMMA BudgetStep == IInv /\ Next => AttemptBudget' /\ BudgetLeft'
  <1> SUFFICES ASSUME IInv, Next PROVE AttemptBudget' /\ BudgetLeft'
    OBVIOUS
  <1> USE LimitsAssumption, SentinelAssumption
  <1> USE DEF IInv, TypeOK, Jobs, Row, FinalStatuses, NoLeakedLease, AttemptBudget, BudgetLeft
  <1>1. ASSUME NEW o \in Orders, Api(o) PROVE AttemptBudget' /\ BudgetLeft'
    <2>1. CASE SaveVerifiedOrder(o)
      BY <2>1 DEF SaveVerifiedOrder
    <2>2. CASE MarkOrderSettled(o)
      BY <2>2 DEF MarkOrderSettled
    <2>3. CASE MarkOrderSettlementFailed(o)
      BY <2>3 DEF MarkOrderSettlementFailed
    <2> QED
      BY <1>1, <2>1, <2>2, <2>3 DEF Api
  <1>2. ASSUME NEW o \in Orders, Clock(o) \/ RenewalsLost(o) PROVE AttemptBudget' /\ BudgetLeft'
    <2>1. CASE BackoffEnds(o)
      BY <2>1 DEF BackoffEnds
    <2>2. CASE LeaseLapses(o)
      BY <2>2 DEF LeaseLapses
    <2>3. CASE RenewalsLost(o)
      BY <2>3 DEF RenewalsLost, Fault
    <2> QED
      BY <1>2, <2>1, <2>2, <2>3 DEF Clock
  <1>3. ASSUME NEW w \in Workers, Start(w) \/ Crash(w) \/ ClaimNothing(w) \/ Review(w)
        PROVE AttemptBudget' /\ BudgetLeft'
    <2>1. CASE Crash(w)
      BY <2>1 DEF Crash, Fault, tables
    <2>2. CASE Start(w) \/ ClaimNothing(w) \/ Review(w)
      <3>1. /\ UNCHANGED <<job, faults>>
            /\ \A v \in Workers : pc'[v] = "dead" => pc[v] = "dead"
        BY <2>2 DEF Start, ClaimNothing, Review, tables, Outcomes, Blocked
      <3> QED
        BY <3>1
    <2> QED
      BY <1>3, <2>1, <2>2
  <1>4. ASSUME NEW w \in Workers, Sweep(w) PROVE AttemptBudget' /\ BudgetLeft'
    BY <1>4 DEF Sweep, Requeued, Lapsed, Fault
  <1>5. ASSUME NEW w \in Workers, Claim(w) PROVE AttemptBudget' /\ BudgetLeft'
    BY <1>5 DEF Claim, ClaimNextReviewJob, Claimable
  <1>6. ASSUME NEW w \in Workers, HeartbeatReviewJob(w) PROVE AttemptBudget' /\ BudgetLeft'
    BY <1>6 DEF HeartbeatReviewJob
  <1>7. ASSUME NEW w \in Workers, Complete(w) PROVE AttemptBudget' /\ BudgetLeft'
    BY <1>7 DEF Complete, HoldsLease, CloseJob, NextTurn, Fault
  <1>8. ASSUME NEW w \in Workers, CompleteNeedsInput(w) PROVE AttemptBudget' /\ BudgetLeft'
    BY <1>8 DEF CompleteNeedsInput, HoldsLease, CloseJob, NextTurn
  <1>9. ASSUME NEW w \in Workers, Fail(w) PROVE AttemptBudget' /\ BudgetLeft'
    BY <1>9 DEF Fail, HoldsLease, RetryLeft, CloseJob, NextTurn
  <1>10. ASSUME NEW w \in Workers,
                CompleteRejected(w) \/ NeedsInputRejected(w) \/ FailIgnored(w)
         PROVE AttemptBudget' /\ BudgetLeft'
    BY <1>10 DEF CompleteRejected, NeedsInputRejected, FailIgnored, HoldsLease, NextTurn, Fault, tables
  <1> QED
    BY <1>1, <1>2, <1>3, <1>4, <1>5, <1>6, <1>7, <1>8, <1>9, <1>10
       DEF Next, Loop, Close


(* Nothing strange before the first fault. *)
LEMMA QuietStep == IInv /\ Next => NoFaultNoRival' /\ Quiet'
  <1> SUFFICES ASSUME IInv, Next PROVE NoFaultNoRival' /\ Quiet'
    OBVIOUS
  <1> USE LimitsAssumption, SentinelAssumption
  <1> USE DEF IInv, TypeOK, Jobs, Row, FinalStatuses, LoopOK, NoLeakedLease, NoFaultNoRival, Quiet, Outcomes, Blocked
  <1>1. ASSUME NEW o \in Orders, Api(o) PROVE NoFaultNoRival' /\ Quiet'
    <2>1. CASE SaveVerifiedOrder(o)
      <3>1. job[o].owner = NoWorker
        BY <2>1 DEF SaveVerifiedOrder, PaidBeforeReview
      <3> QED
        BY <2>1, <3>1 DEF SaveVerifiedOrder
    <2>2. CASE MarkOrderSettled(o)
      BY <2>2 DEF MarkOrderSettled
    <2>3. CASE MarkOrderSettlementFailed(o)
      BY <2>3 DEF MarkOrderSettlementFailed
    <2> QED
      BY <1>1, <2>1, <2>2, <2>3 DEF Api
  <1>2. ASSUME NEW o \in Orders, Clock(o) \/ RenewalsLost(o) PROVE NoFaultNoRival' /\ Quiet'
    BY <1>2 DEF Clock, BackoffEnds, LeaseLapses, RenewalsLost, Fault
  <1>3. ASSUME NEW w \in Workers, Start(w) \/ Crash(w) \/ ClaimNothing(w) \/ Review(w)
        PROVE NoFaultNoRival' /\ Quiet'
    BY <1>3 DEF Start, Crash, ClaimNothing, Review, Fault, tables
  <1>4. ASSUME NEW w \in Workers, Sweep(w) PROVE NoFaultNoRival' /\ Quiet'
    BY <1>4 DEF Sweep, Requeued, Lapsed, Fault
  <1>5. ASSUME NEW w \in Workers, Claim(w) PROVE NoFaultNoRival' /\ Quiet'
    BY <1>5 DEF Claim, ClaimNextReviewJob, Claimable
  <1>6. ASSUME NEW w \in Workers, HeartbeatReviewJob(w) PROVE NoFaultNoRival' /\ Quiet'
    BY <1>6 DEF HeartbeatReviewJob
  <1>7. ASSUME NEW w \in Workers, Complete(w) PROVE NoFaultNoRival' /\ Quiet'
    BY <1>7 DEF Complete, HoldsLease, CloseJob, NextTurn, Fault
  <1>8. ASSUME NEW w \in Workers, CompleteNeedsInput(w) PROVE NoFaultNoRival' /\ Quiet'
    BY <1>8 DEF CompleteNeedsInput, HoldsLease, CloseJob, NextTurn
  <1>9. ASSUME NEW w \in Workers, Fail(w) PROVE NoFaultNoRival' /\ Quiet'
    <2>1. /\ faults' = faults
          /\ \A v \in Workers : v # w => pc'[v] = pc[v] /\ held'[v] = held[v]
          /\ pc'[w] # "dead" /\ held'[w] = NoOrder
          /\ job[held[w]].owner = w
          /\ \A o \in Orders : o # held[w] => job'[o] = job[o]
          /\ job'[held[w]].lease = "none"
      BY <1>9 DEF Fail, HoldsLease, CloseJob, NextTurn
    <2>2. Quiet'
      BY <2>1
    <2>3. ASSUME faults' = 0, NEW v \in Workers, held'[v] # NoOrder
          PROVE  pc'[v] # "dead" /\ job'[held'[v]].owner = v
      BY <2>1, <2>3
    <2> QED
      BY <2>2, <2>3
  <1>10. ASSUME NEW w \in Workers,
                CompleteRejected(w) \/ NeedsInputRejected(w) \/ FailIgnored(w)
         PROVE NoFaultNoRival' /\ Quiet'
    BY <1>10 DEF CompleteRejected, NeedsInputRejected, FailIgnored, HoldsLease, NextTurn, Fault, tables
  <1> QED
    BY <1>1, <1>2, <1>3, <1>4, <1>5, <1>6, <1>7, <1>8, <1>9, <1>10
       DEF Next, Loop, Close

(* One answer: a closing write finds the job under review, hence without a  *)
(* result, and writes the result, the event and the status of that one job. *)

\* Every step either closes one job, by its holder, or leaves the final jobs
\* alone and puts at most one order into the queue.
Closes(w) ==
    /\ pc[w] \in Outcomes /\ pc'[w] # pc[w]
    /\ held[w] # NoOrder
    /\ HoldsLease(w)
    /\ \E status \in FinalStatuses : CloseJob(w, status)

LeavesFinal ==
    /\ UNCHANGED <<result, events>>
    /\ \A o \in Orders :
          \/ job'[o] = job[o]
          \/ job[o].status \notin FinalStatuses /\ job'[o].status \notin FinalStatuses
    /\ \/ Accepted' = Accepted
       \/ \E o \in Orders : o \notin Accepted /\ Accepted' = Accepted \cup {o}

LEMMA CloseCases == IInv /\ [Next]_vars => LeavesFinal \/ \E w \in Workers : Closes(w)
  <1> SUFFICES ASSUME IInv, [Next]_vars PROVE LeavesFinal \/ \E w \in Workers : Closes(w)
    OBVIOUS
  <1> USE SentinelAssumption
  <1> USE DEF IInv, FinalStatuses, TypeOK, Jobs, Row
  <1>1. ASSUME NEW o \in Orders, Api(o) PROVE LeavesFinal
    <2>1. CASE SaveVerifiedOrder(o)
      BY <2>1 DEF SaveVerifiedOrder, LeavesFinal, Accepted, PaidBeforeReview
    <2>2. CASE MarkOrderSettled(o)
      <3>1. \A p \in Orders \ {o} : job'[p] = job[p]
        BY <2>2 DEF MarkOrderSettled
      <3>2. CASE job[o].status = "awaiting_settlement"
        <4>1. job'[o].status = "queued"
          BY <2>2, <3>2 DEF MarkOrderSettled
        <4> QED
          BY <2>2, <3>1, <3>2, <4>1 DEF MarkOrderSettled, LeavesFinal, Accepted
      <3>3. CASE job[o].status # "awaiting_settlement"
        BY <2>2, <3>3 DEF MarkOrderSettled, LeavesFinal, Accepted
      <3> QED
        BY <3>2, <3>3
    <2>3. CASE MarkOrderSettlementFailed(o)
      BY <2>3 DEF MarkOrderSettlementFailed, LeavesFinal, Accepted
    <2> QED
      BY <1>1, <2>1, <2>2, <2>3 DEF Api
  <1>2. ASSUME NEW o \in Orders, Clock(o) \/ RenewalsLost(o) PROVE LeavesFinal
    <2>1. UNCHANGED <<result, events>>
      BY <1>2 DEF Clock, BackoffEnds, LeaseLapses, RenewalsLost
    <2>2. \A p \in Orders :
             /\ job'[p].status = job[p].status
             /\ p # o \/ job[p].status \in {"queued", "processing"}
             /\ p # o => job'[p] = job[p]
      BY <1>2 DEF Clock, BackoffEnds, LeaseLapses, RenewalsLost
    <2>3. Accepted' = Accepted
      BY <2>2 DEF Accepted
    <2> QED
      BY <2>1, <2>2, <2>3 DEF LeavesFinal
  <1>3. ASSUME NEW w \in Workers,
               \/ Start(w) \/ Crash(w) \/ ClaimNothing(w) \/ Review(w)
               \/ CompleteRejected(w) \/ NeedsInputRejected(w) \/ FailIgnored(w)
        PROVE LeavesFinal
    <2>1. UNCHANGED <<job, result, events>>
      BY <1>3 DEF Start, Crash, ClaimNothing, Review, CompleteRejected,
                  NeedsInputRejected, FailIgnored, tables
    <2> QED
      BY <2>1 DEF LeavesFinal, Accepted
  <1>4. ASSUME NEW w \in Workers, Sweep(w) PROVE LeavesFinal
    <2>1. UNCHANGED <<result, events>>
      BY <1>4 DEF Sweep
    <2>2. \A o \in Orders :
             \/ job'[o] = job[o]
             \/ job[o].status = "processing" /\ job'[o].status = "queued"
      BY <1>4 DEF Sweep, Lapsed, Requeued
    <2>3. Accepted' = Accepted
      BY <2>2 DEF Accepted
    <2> QED
      BY <2>1, <2>2, <2>3 DEF LeavesFinal
  <1>5. ASSUME NEW w \in Workers, Claim(w) PROVE LeavesFinal
    BY <1>5 DEF Claim, ClaimNextReviewJob, Claimable, LeavesFinal, Accepted
  <1>6. ASSUME NEW w \in Workers, HeartbeatReviewJob(w) PROVE LeavesFinal
    BY <1>6 DEF HeartbeatReviewJob, LeavesFinal, Accepted
  <1>7. ASSUME NEW w \in Workers, Complete(w) PROVE Closes(w)
    BY <1>7 DEF Complete, Closes, LoopOK, Outcomes, Blocked, NextTurn
  <1>8. ASSUME NEW w \in Workers, CompleteNeedsInput(w) PROVE Closes(w)
    BY <1>8 DEF CompleteNeedsInput, Closes, LoopOK, Outcomes, Blocked, NextTurn
  <1>9. ASSUME NEW w \in Workers, Fail(w) PROVE LeavesFinal \/ Closes(w)
    <2>1. held[w] # NoOrder /\ HoldsLease(w) /\ pc[w] \in Outcomes /\ pc'[w] # pc[w]
      BY <1>9 DEF Fail, LoopOK, Outcomes, NextTurn
    <2>2. held[w] \in Orders /\ job[held[w]].status = "processing"
      BY <2>1 DEF HoldsLease, NoLeakedLease
    <2>3. CASE CloseJob(w, "failed")
      BY <2>1, <2>3 DEF Closes
    <2>4. CASE /\ UNCHANGED <<result, events>>
               /\ job' = [job EXCEPT ![held[w]] = Row("queued", job[held[w]].attempts, "later")]
      BY <2>2, <2>4 DEF LeavesFinal, Accepted
    <2> QED
      BY <1>9, <2>3, <2>4 DEF Fail
  <1>10. CASE UNCHANGED vars
    BY <1>10 DEF vars, LeavesFinal, Accepted
  <1> QED
    BY <1>1, <1>2, <1>3, <1>4, <1>5, <1>6, <1>7, <1>8, <1>9, <1>10 DEF Next, Loop, Close

\* A closing write changes one job, from under review to final, and its
\* result and events; the rest of the queue is untouched.
LEMMA CloseEffect ==
  ASSUME IInv, NEW w \in Workers, NEW status \in FinalStatuses,
         held[w] # NoOrder, HoldsLease(w), CloseJob(w, status)
  PROVE  /\ held[w] \in Orders
         /\ job[held[w]].status = "processing" /\ result[held[w]] = NoResult
         /\ job'[held[w]].status = status /\ result' = [result EXCEPT ![held[w]] = status]
         /\ \A p \in Orders \ {held[w]} : job'[p] = job[p]
         /\ {e \in events' : e[1] = held[w]} = EventFor(held[w], status)
         /\ \A p \in Orders \ {held[w]} :
               {e \in events' : e[1] = p} = {e \in events : e[1] = p}
  <1> USE SentinelAssumption
  <1> DEFINE o == held[w]
  <1>1. o \in Orders
    BY DEF IInv, TypeOK
  <1>2. job[o].status = "processing"
    BY <1>1 DEF IInv, NoLeakedLease, HoldsLease
  <1>3. result[o] = NoResult /\ {e \in events : e[1] = o} = {}
    BY <1>1, <1>2 DEF IInv, OneAnswer, FinalStatuses
  <1>4. job'[o].status = status /\ \A p \in Orders \ {o} : job'[p] = job[p]
    BY <1>1 DEF CloseJob, Row, IInv, TypeOK
  <1>5. /\ {e \in events' : e[1] = o} = EventFor(o, status)
        /\ \A p \in Orders \ {o} :
              {e \in events' : e[1] = p} = {e \in events : e[1] = p}
    BY <1>3 DEF CloseJob, EventFor
  <1> QED
    BY <1>1, <1>2, <1>3, <1>4, <1>5 DEF CloseJob

LEMMA AnswerStep == IInv /\ [Next]_vars => OneAnswer'
  <1> SUFFICES ASSUME IInv, [Next]_vars PROVE OneAnswer'
    OBVIOUS
  <1>1. CASE LeavesFinal
    BY <1>1 DEF LeavesFinal, IInv, OneAnswer
  <1>2. ASSUME NEW w \in Workers, Closes(w) PROVE OneAnswer'
    <2>1. PICK status \in FinalStatuses : CloseJob(w, status)
      BY <1>2 DEF Closes
    <2> QED
      BY <1>2, <2>1, CloseEffect DEF Closes, IInv, TypeOK, OneAnswer, EventFor
  <1> QED
    BY <1>1, <1>2, CloseCases

\* Final jobs stay as they are, and only the holder of a lease closes a job.
LEMMA FinalHolderStep == IInv /\ [Next]_vars => FinalStep /\ HolderStep
  <1> SUFFICES ASSUME IInv, [Next]_vars PROVE FinalStep /\ HolderStep
    OBVIOUS
  <1>1. CASE LeavesFinal
    BY <1>1 DEF LeavesFinal, FinalStep, HolderStep
  <1>2. ASSUME NEW w \in Workers, Closes(w) PROVE FinalStep /\ HolderStep
    <2>1. PICK status \in FinalStatuses : CloseJob(w, status)
      BY <1>2 DEF Closes
    <2>2. \A o \in Orders \ {held[w]} : result'[o] = result[o]
      BY <1>2, <2>1, CloseEffect DEF Closes, IInv, TypeOK
    <2>3. FinalStep
      BY <1>2, <2>1, <2>2, CloseEffect DEF Closes, FinalStep, FinalStatuses
    <2>4. HolderStep
      BY <1>2, <2>2 DEF Closes, HolderStep, HoldsLease
    <2> QED
      BY <2>3, <2>4
  <1> QED
    BY <1>1, <1>2, CloseCases

(* Refinement: a step of the queue accepts an order, answers one, or is *)
(* invisible to the buyer. *)
LEMMA RefinementStep == IInv /\ [Next]_vars => [Service!Next]_(Service!vars)
  <1> SUFFICES ASSUME IInv, [Next]_vars PROVE [Service!Next]_(Service!vars)
    OBVIOUS
  <1> USE DEF Service!vars, Service!Next, Service!Accept, Service!Answer
  <1>1. CASE LeavesFinal
    BY <1>1 DEF LeavesFinal
  <1>2. ASSUME NEW w \in Workers, Closes(w) PROVE Service!Next
    <2>1. PICK status \in FinalStatuses : CloseJob(w, status)
      BY <1>2 DEF Closes
    <2>2. held[w] \in Orders /\ held[w] \in Accepted /\ result[held[w]] = NoResult
      BY <1>2, <2>1, CloseEffect DEF Closes, Accepted
    <2>3. Accepted' = Accepted
      BY <1>2, <2>1, CloseEffect DEF Closes, Accepted
    <2>4. result' = [result EXCEPT ![held[w]] = status]
      BY <1>2, <2>1, CloseEffect DEF Closes
    <2> QED
      BY <2>2, <2>3, <2>4
  <1> QED
    BY <1>1, <1>2, CloseCases

-----------------------------------------------------------------------------
(* The theorems. *)

LEMMA Inductive == IInv /\ [Next]_vars => IInv'
  <1> SUFFICES ASSUME IInv, [Next]_vars PROVE IInv'
    OBVIOUS
  <1>1. CASE Next
    BY <1>1, TypeStep, LeaseStep, PaidStep, BudgetStep, QuietStep, AnswerStep DEF IInv
  <1>2. CASE UNCHANGED vars
    BY <1>2 DEF vars, IInv, TypeOK, LoopOK, OneAnswer, NoLeakedLease, PaidBeforeReview,
                AttemptBudget, BudgetLeft, NoFaultNoRival, Quiet
  <1> QED
    BY <1>1, <1>2

\* Every reachable state of the queue satisfies the inductive invariant.
THEOREM Invariance == Spec => []IInv
  BY InitIInv, Inductive, PTL DEF Spec

\* The tables and the worker's variables keep their types: the CHECK
\* constraints of review_jobs and paid_service_orders are never hit.
THEOREM TypeCorrect == Spec => []TypeOK
  <1>1. IInv => TypeOK
    BY DEF IInv
  <1> QED
    BY <1>1, Invariance, PTL

\* Every order has at most one stored result and one webhook event, and they
\* agree with the job: src/order-store.js's completeReviewJob and failReviewJob.
THEOREM OneAnswerAlways == Spec => []OneAnswer
  <1>1. IInv => OneAnswer
    BY DEF IInv
  <1> QED
    BY <1>1, Invariance, PTL

\* No process goes back to its loop while it owns a lease.
THEOREM NoLeakedLeaseAlways == Spec => []NoLeakedLease
  <1>1. IInv => NoLeakedLease
    BY DEF IInv
  <1> QED
    BY <1>1, Invariance, PTL

\* No job leaves awaiting_settlement for the queue without its payment.
THEOREM PaidBeforeReviewAlways == Spec => []PaidBeforeReview
  <1>1. IInv => PaidBeforeReview
    BY DEF IInv
  <1> QED
    BY <1>1, Invariance, PTL

\* Attempts exceed max_attempts by no more than the faults suffered.
THEOREM AttemptBudgetAlways == Spec => []AttemptBudget
  <1>1. IInv => AttemptBudget
    BY DEF IInv
  <1> QED
    BY <1>1, Invariance, PTL

\* Until the first fault, whoever works on an order holds its lease.
THEOREM NoFaultNoRivalAlways == Spec => []NoFaultNoRival
  <1>1. IInv => NoFaultNoRival
    BY DEF IInv
  <1> QED
    BY <1>1, Invariance, PTL

\* Only the process that holds the lease stores a result, and a final job, its
\* result and its events never change again.
THEOREM ClosedOnceAlways == Spec => ClosedOnce
  BY InitIInv, Inductive, FinalHolderStep, PTL DEF Spec, ClosedOnce

\* The review queue implements the service promised to the buyer: one final
\* answer per queued order (its liveness half is model-checked).
THEOREM QueueImplementsService == Spec => ServiceSafety
  <1>1. Init => Service!Init
    BY DEF Init, Service!Init, Accepted, Row, FinalStatuses
  <1> QED
    BY <1>1, InitIInv, Inductive, RefinementStep, PTL
       DEF Spec, ServiceSafety, Service!SafeSpec

=============================================================================

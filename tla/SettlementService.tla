------------------------- MODULE SettlementService -------------------------
(***************************************************************************)
(* What becomes of the proof of a payment, without files, callbacks,       *)
(* reconcilers or faults: some process holds it until it is kept or        *)
(* recorded; it can be lost while it is only held; once kept it stays kept *)
(* until the order is recorded, for ever and with its job queued once.     *)
(* Settlement is shown to implement this module.                           *)
(***************************************************************************)
CONSTANT Orders

VARIABLES
    proof,      \* where the proof of each order's payment is
    job         \* review_jobs.status, as in Settlement

vars == <<proof, job>>

Init ==
    /\ proof = [o \in Orders |-> "none"]
    /\ job = [o \in Orders |-> "awaiting_settlement"]

\* A payment settles, perhaps once more after its proof was lost.
Settle(o) ==
    /\ proof[o] \in {"none", "lost"}
    /\ proof' = [proof EXCEPT ![o] = "held"]
    /\ UNCHANGED job

\* The proof is published in the journal.
Keep(o) ==
    /\ proof[o] = "held"
    /\ proof' = [proof EXCEPT ![o] = "kept"]
    /\ UNCHANGED job

\* The database has the proof, and the job leaves awaiting_settlement.
Record(o) ==
    /\ proof[o] \in {"held", "kept"}
    /\ job[o] = "awaiting_settlement"
    /\ proof' = [proof EXCEPT ![o] = "recorded"]
    /\ job' = [job EXCEPT ![o] = "queued"]

\* A worker claims the job.
Take(o) ==
    /\ job[o] = "queued"
    /\ job' = [job EXCEPT ![o] = "taken"]
    /\ UNCHANGED proof

\* The processes that held some proofs end; what one had finished writing
\* stays, the rest is lost.
Crash ==
    /\ \E ended \in SUBSET {o \in Orders : proof[o] = "held"},
          written \in SUBSET Orders :
          proof' = [o \in Orders |-> IF o \notin ended THEN proof[o]
                                     ELSE IF o \in written THEN "kept" ELSE "lost"]
    /\ UNCHANGED job

Next ==
    \/ \E o \in Orders : Settle(o) \/ Keep(o) \/ Record(o) \/ Take(o)
    \/ Crash

Spec == Init /\ [][Next]_vars
=============================================================================

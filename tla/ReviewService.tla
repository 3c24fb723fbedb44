--------------------------- MODULE ReviewService ---------------------------
(***************************************************************************)
(* What the review pipeline promises the buyer of an order, without jobs,  *)
(* leases, workers or retries: an order that has been queued gets exactly  *)
(* one final answer, and the answer never changes afterwards.              *)
(* ReviewQueue is shown to implement this module.                          *)
(***************************************************************************)
CONSTANTS
    Orders,     \* the orders a buyer may place
    Answers,    \* the final statuses of a review
    NoAnswer    \* "no result row yet"

VARIABLES
    accepted,   \* the orders whose job has been queued at least once
    answer      \* the answer of each order

vars == <<accepted, answer>>

Init ==
    /\ accepted = {}
    /\ answer = [o \in Orders |-> NoAnswer]

\* An order enters the queue, once.
Accept(o) ==
    /\ o \notin accepted
    /\ accepted' = accepted \cup {o}
    /\ UNCHANGED answer

\* The order receives its only answer.
Answer(o) ==
    /\ o \in accepted
    /\ answer[o] = NoAnswer
    /\ \E a \in Answers : answer' = [answer EXCEPT ![o] = a]
    /\ UNCHANGED accepted

Next == \E o \in Orders : Accept(o) \/ Answer(o)

SafeSpec == Init /\ [][Next]_vars

Spec == SafeSpec /\ \A o \in Orders : WF_vars(Answer(o))
=============================================================================

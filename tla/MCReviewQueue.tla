--------------------------- MODULE MCReviewQueue ---------------------------
(* Finite instances of ReviewQueue. *)
EXTENDS ReviewQueue

CONSTANTS o1, o2, w1, w2, w3

TwoOrders == {o1, o2}
OnlyFirst == {o1}
ThreeWorkers == {w1, w2, w3}
=============================================================================

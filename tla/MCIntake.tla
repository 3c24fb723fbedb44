------------------------------ MODULE MCIntake ------------------------------
(* Small instances of Intake for TLC. *)
EXTENDS Intake, TLC

CONSTANTS r1, r2, r3, p1, p2

TwoRequests == {r1, r2}
ThreeRequests == {r1, r2, r3}
OnePayment == {p1}
TwoPayments == {p1, p2}
Symmetries == Permutations(Requests) \cup Permutations(Payments)
=============================================================================

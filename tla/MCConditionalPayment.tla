----------------------- MODULE MCConditionalPayment -----------------------
(* Finite instances of ConditionalPayment. *)
EXTENDS ConditionalPayment, TLC

CONSTANTS r1, r2, a1, a2

TwoRuns == {r1, r2}
TwoAuths == {a1, a2}

\* Neither runs nor authorizations are named by an action or a property.
RunSymmetry == Permutations(Runs) \cup Permutations(Auths)
=============================================================================

---------------------------- MODULE MCReviewRun ----------------------------
(* Finite instances of ReviewRun. *)
EXTENDS ReviewRun

CONSTANTS f1, f2

TwoFiles == <<f1, f2>>
At(place) == [severity |-> "high", place |-> place]
TestFindings == {<<>>, <<At(f1)>>, <<At(Url), At(Elsewhere)>>, <<At(f1), At(Nowhere), At(f2)>>}
=============================================================================

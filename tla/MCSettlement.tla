---------------------------- MODULE MCSettlement ----------------------------
(* A small instance of Settlement for TLC. *)
EXTENDS Settlement

OneOrder == {1}
TwoCallbacks == {1, 2}

Started(actors) == Cardinality({a \in actors : pc[a] # "idle"})

\* Callbacks are alike: the first one settles first.
InTurn == \A g, h \in Handlers : g < h /\ pc[h] # "idle" => pc[g] # "idle"

\* What one behaviour holds, all of it around the timer: one callback and two
\* faults, two callbacks and one fault, or a callback, a script and one fault.
\* Only Settle, a script's List and faults are cut off, none of which is under
\* fairness: wherever a fair action may fail it may also succeed.
Light ==
    LET guests == Started(Handlers \cup Scripts) IN
    guests <= 2 /\ faults + guests <= 3 /\ InTurn
LightStep == Light'
=============================================================================

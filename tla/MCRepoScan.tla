---------------------------- MODULE MCRepoScan ----------------------------
(* A small instance of RepoScan: an issue that stays attractive when it is *)
(* contested, a plain one, and a risky one.                                *)
EXTENDS RepoScan, TLC

CONSTANTS i1, i2, i3, p1, p2, p3

Issue(labels, assigned, comments, age, hardware) ==
    [labels |-> labels, assigned |-> assigned, comments |-> comments, age |-> age,
     hardware |-> hardware]
TestTraits ==
    (i1 :> Issue({"good first issue", "help wanted", "bug"}, FALSE, 0, 3, FALSE)) @@
    (i2 :> Issue({"good first issue"}, FALSE, 2, 40, FALSE)) @@
    (i3 :> Issue({"bounty", "needs hardware"}, TRUE, 12, 400, TRUE))
TestRefs == (p1 :> {i1}) @@ (p2 :> {i1, i2}) @@ (p3 :> {})
=============================================================================

----------------------------- MODULE MCDelivery -----------------------------
(* Small instances of Delivery for TLC. *)
EXTENDS Delivery

CONSTANTS d1, d2, s1, s2

TwoDeliveries == {d1, d2}
TwoSenders == {s1, s2}
=============================================================================

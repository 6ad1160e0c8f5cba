---------------------------- MODULE MCAccountLogin ----------------------------
(* Instances of AccountLogin for TLC. *)
EXTENDS AccountLogin

CONSTANTS c1, c2, c3

Two == {c1, c2}
=============================================================================

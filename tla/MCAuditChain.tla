----------------------------- MODULE MCAuditChain -----------------------------
(* Instances of AuditChain for TLC. *)
EXTENDS AuditChain, TLC

CONSTANTS p1, p2, p3

ProcessSymmetry == Permutations(Processes)
=============================================================================

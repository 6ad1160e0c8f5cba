---------------------------- MODULE MCEvidenceScan ----------------------------
(* Instances of EvidenceScan for TLC. *)
EXTENDS EvidenceScan

CONSTANTS f1, f2, h1, h2
=============================================================================

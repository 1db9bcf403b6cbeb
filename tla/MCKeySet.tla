------------------------------ MODULE MCKeySet ------------------------------
(* Instances of KeySet for TLC. *)
EXTENDS KeySet

CONSTANTS l1, l2, k1, k2
=============================================================================

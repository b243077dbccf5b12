--------------------------- MODULE MCSessionResume ---------------------------
(* Instance of SessionResume for TLC. *)
EXTENDS SessionResume, TLC

CONSTANTS op1, op2

Symmetry == Permutations({op1, op2})
=============================================================================

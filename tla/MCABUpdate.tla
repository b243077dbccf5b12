---------------------------- MODULE MCABUpdate ----------------------------
(* Instance of ABUpdate for TLC. *)
EXTENDS ABUpdate, TLC

CONSTANTS v1, v2, k1, apps, accounts

\* The keys and the user data entries are never told apart.
Symmetry == Permutations({apps, accounts})
=============================================================================

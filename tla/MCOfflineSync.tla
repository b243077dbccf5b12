---------------------------- MODULE MCOfflineSync ----------------------------
(* Instance of OfflineSync for TLC. *)
EXTENDS OfflineSync

CONSTANTS k1, k2, v1
=============================================================================

----------------------- MODULE MCContinuityController -----------------------
(* Instance of ContinuityController, driven by a bandwidth, for TLC. *)
EXTENDS ContinuityRecovery

CONSTANTS wifi, op1
=============================================================================

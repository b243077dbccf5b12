------------------------- MODULE MCOtaStateMachine -------------------------
(* Instance of OtaStateMachine, with any caller, for TLC. *)
EXTENDS OtaTrial

CONSTANTS v010, v009, v020
=============================================================================

------------------------------- MODULE OtaTrial -------------------------------
(***************************************************************************)
(* OtaStateMachine with a record of what the device ran when the update    *)
(* under way was checked: what it must come back to if the update fails.   *)
(***************************************************************************)
EXTENDS OtaStateMachine

VARIABLE before   \* history: the running slot when check_for_update accepted

UpdateAccepted == state = "idle" /\ state' = "download_pending"

InitTrial == Init /\ before = slots[active_slot]

NextTrial == Next /\ before' = IF UpdateAccepted THEN slots[active_slot] ELSE before

TrialSpec == InitTrial /\ [][NextTrial]_<<vars, before>>

-----------------------------------------------------------------------------
\* From check to health check the slot the update started from is as it was, and
\* boots, so that a failed health check always returns to it: whatever failed, was
\* rolled back or was reset before, factory_reset without preserve_ab_slots included.
WayBackIntact ==
  /\ state \in Downloading => slots[active_slot] = before
  /\ state = "health_check" => slots[Inactive] = before /\ slots[Inactive].bootable
=============================================================================

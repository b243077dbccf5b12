-------------------------- MODULE OtaStateMachine --------------------------
(***************************************************************************)
(* The OTA state machine of ota_state_machine.py: check, download, verify, *)
(* stage, apply to the inactive slot, reboot into it, health check, and    *)
(* commit or roll back; with factory_reset and the interruptions of        *)
(* UpdateRecoverySuite (update_recovery_completeness.py).                  *)
(*                                                                         *)
(* One action is one public call.  The states a call only passes through   *)
(* (checking, downloading, rolling_back) are not states between calls.  A  *)
(* call in the wrong state raises and changes nothing, so it is no action. *)
(* The set of injected faults is abstracted: any step may fail.            *)
(***************************************************************************)
EXTENDS Integers

CONSTANTS
  Versions,          \* versions a package may carry
  InitialA,          \* the version slot a starts with, "0.1.0"
  InitialB,          \* the version slot b starts with, "0.0.9"
  SecurityVersions,  \* security versions a package may carry
  None               \* Python's None

ASSUME VersionsAssumption == {InitialA, InitialB} \subseteq Versions
ASSUME SecurityAssumption == SecurityVersions \subseteq Nat /\ 1 \in SecurityVersions

VARIABLES
  state,
  active_slot,
  slots,        \* slots[s]: version, security_version, bootable, successful
  pending,      \* the package being installed, or None
  last_error    \* whether last_error is set

vars == <<state, active_slot, slots, pending, last_error>>

Slot == {"a", "b"}
Inactive == IF active_slot = "a" THEN "b" ELSE "a"

OtaState == {"idle", "download_pending", "verifying", "staging", "applying",
             "reboot_pending", "health_check", "committed", "rolled_back", "failed"}

SlotInfo == [version : Versions, security_version : SecurityVersions,
             bootable : BOOLEAN, successful : BOOLEAN]

\* valid: the signature verifies and the digest has 64 characters.
UpdatePackage == [version : Versions, target_slot : Slot,
                  security_version : SecurityVersions, valid : BOOLEAN]

ASSUME NoneAssumption == None \notin Versions /\ None \notin UpdatePackage

\* The constructor accepts slots whose spare does not boot.
Init ==
  /\ state = "idle"
  /\ active_slot = "a"
  /\ \E bootable \in BOOLEAN :
       slots = [s \in Slot |->
                  [version |-> IF s = "a" THEN InitialA ELSE InitialB,
                   security_version |-> 1, successful |-> TRUE,
                   bootable |-> IF s = "a" THEN TRUE ELSE bootable]]
  /\ pending = None
  /\ last_error = FALSE

-----------------------------------------------------------------------------
\* Variants with a bug: no anti-rollback check; the package keeps its target.
AnyAge(p) == FALSE
TargetAsGiven(p) == p

TooOld(p) == p.security_version < slots[active_slot].security_version

\* A package for the active slot is redirected to the inactive one.
Retargeted(p) == IF p.target_slot = active_slot THEN [p EXCEPT !.target_slot = Inactive] ELSE p

\* check_for_update; a package with the active version changes nothing.
CheckForUpdate(p) ==
  /\ state = "idle"
  /\ p.version # slots[active_slot].version
  /\ IF TooOld(p)
     THEN state' = "failed" /\ last_error' = TRUE /\ UNCHANGED pending
     ELSE state' = "download_pending" /\ pending' = Retargeted(p) /\ UNCHANGED last_error
  /\ UNCHANGED <<active_slot, slots>>

\* _fail, from a fault, an interruption or a bad package in any step before the
\* device runs the new slot.
Fail ==
  /\ state \in {"download_pending", "verifying", "staging", "applying", "reboot_pending"}
  /\ state' = "failed"
  /\ last_error' = TRUE
  /\ UNCHANGED <<active_slot, slots, pending>>

Download ==
  /\ state = "download_pending"
  /\ state' = "verifying"
  /\ UNCHANGED <<active_slot, slots, pending, last_error>>

PendingVerifies == pending # None /\ pending.valid

Verify ==
  /\ state = "verifying"
  /\ PendingVerifies
  /\ state' = "staging"
  /\ UNCHANGED <<active_slot, slots, pending, last_error>>

Stage ==
  /\ state = "staging"
  /\ state' = "applying"
  /\ UNCHANGED <<active_slot, slots, pending, last_error>>

\* The inactive slot now holds the package and has yet to pass a health check.
Apply ==
  /\ state = "applying"
  /\ slots' = [slots EXCEPT ![pending.target_slot] =
                 [version |-> pending.version, security_version |-> pending.security_version,
                  bootable |-> TRUE, successful |-> FALSE]]
  /\ state' = "reboot_pending"
  /\ UNCHANGED <<active_slot, pending, last_error>>

SimulateReboot ==
  /\ state = "reboot_pending"
  /\ active_slot' = pending.target_slot
  /\ state' = "health_check"
  /\ UNCHANGED <<slots, pending, last_error>>

Passed(s) == [slots EXCEPT ![s].successful = TRUE]

HealthCheckOk ==
  /\ state = "health_check"
  /\ slots' = Passed(active_slot)
  /\ state' = "committed"
  /\ UNCHANGED <<active_slot, pending, last_error>>

-----------------------------------------------------------------------------
\* Variant with a bug: any slot is taken to boot.
TakenToBoot(s) == TRUE
Boots(s) == slots[s].bootable

\* The body of rollback.  Any slot that boots will do, successful or not.
RollBack ==
  \/ /\ Boots(Inactive)
     /\ slots' = [slots EXCEPT ![active_slot].successful = FALSE]
     /\ active_slot' = Inactive
     /\ pending' = None
     /\ last_error' = TRUE
     /\ state' = "rolled_back"
  \/ /\ ~Boots(Inactive)
     /\ state' = "failed"
     /\ last_error' = TRUE
     /\ UNCHANGED <<active_slot, slots, pending>>

\* A failed health check, or rollback() called while it is due.
HealthCheckBad == state = "health_check" /\ RollBack

\* rollback() called after a failure.
RollBackFailed == state = "failed" /\ RollBack

ResetToIdle ==
  /\ state \in {"committed", "rolled_back", "failed", "idle"}
  /\ state' = "idle"
  /\ pending' = None
  /\ last_error' = FALSE
  /\ UNCHANGED <<active_slot, slots>>

\* Variant with a bug: the slots are emptied.
NoVersion == None
FactoryVersion == InitialA

\* UpdateRecoverySuite.factory_reset forces idle from any state.
FactoryReset(preserve_ab_slots) ==
  /\ state' = "idle"
  /\ pending' = None
  /\ last_error' = FALSE
  /\ IF preserve_ab_slots
     THEN UNCHANGED <<active_slot, slots>>
     ELSE /\ active_slot' = "a"
          /\ slots' = [s \in Slot |-> [slots[s] EXCEPT !.version = FactoryVersion]]

UpdateStep ==
  \/ \E p \in UpdatePackage : CheckForUpdate(p)
  \/ Fail
  \/ Download
  \/ Verify
  \/ Stage
  \/ Apply
  \/ SimulateReboot
  \/ HealthCheckOk
  \/ HealthCheckBad
  \/ ResetToIdle

Next == UpdateStep \/ RollBackFailed \/ \E preserve \in BOOLEAN : FactoryReset(preserve)

Spec == Init /\ [][Next]_vars

-----------------------------------------------------------------------------
(* Properties.                                                             *)

\* Type invariant.
TypeOK ==
  /\ state \in OtaState
  /\ active_slot \in Slot
  /\ slots \in [Slot -> SlotInfo]
  /\ pending \in UpdatePackage \cup {None}
  /\ last_error \in BOOLEAN

Downloading == {"download_pending", "verifying", "staging", "applying", "reboot_pending"}

\* Until the reboot there is a pending package and it is for the slot that does
\* not run, after it for the slot that does: the asserts of apply and
\* simulate_reboot never fail, and no step overwrites the running slot.
PendingForOtherSlot ==
  /\ state \in Downloading => pending # None /\ pending.target_slot = Inactive
  /\ state \in {"health_check", "committed"} =>
       pending # None /\ pending.target_slot = active_slot

\* An update never lowers the security version the device runs: the check is
\* made once, in check_for_update, and still holds when the slot is committed.
NoSecurityDowngrade ==
  state \in {"health_check", "committed"} =>
    slots[active_slot].security_version >= slots[Inactive].security_version

\* The machine implements ImagePair: the image that runs is replaced by a
\* reboot or a rollback to the other slot, never overwritten.
Pair == INSTANCE ImagePair WITH
          Images <- Versions, Initial <- InitialA, None <- None,
          running <- slots[active_slot].version, spare <- slots[Inactive].version

ImplementsImagePair == Pair!Spec
=============================================================================

------------------------------ MODULE ABUpdate ------------------------------
(***************************************************************************)
(* The A/B update manager of release_engineering/ab_update.py.             *)
(*                                                                         *)
(* All durable state is one JSON file.  Every operation reads the file,    *)
(* computes, and rewrites the file as a whole.  Two operations write it    *)
(* twice, so the program can die between the writes: stage_update (the     *)
(* slot is first written in_progress, then completed) and                  *)
(* execute_remote_wipe (factory_reset writes, then the request is          *)
(* cleared).  _write truncates the file and fills it (Path.write_text), so *)
(* a crash during a write leaves a file no operation can parse.            *)
(*                                                                         *)
(* The history log, timestamps and device id are left out: no operation    *)
(* reads them.                                                             *)
(***************************************************************************)
EXTENDS Integers

CONSTANTS
  Versions,            \* image versions an update may carry
  InitialVersion,      \* the version init_device puts into slot A
  Counters,            \* anti-rollback counters an update may carry
  Keys,                \* fingerprints of signing keys
  UserData,            \* keys of the user_data dictionary
  MAX_BOOT_ATTEMPTS,
  BootBound,           \* bound of the model: boot_attempts stays <= BootBound
  None                 \* Python's None, the version of an empty slot

ASSUME VersionsAssumption == InitialVersion \in Versions /\ None \notin Versions
ASSUME CountersAssumption == Counters \subseteq Nat
ASSUME AttemptsAssumption ==
  MAX_BOOT_ATTEMPTS \in Nat \ {0} /\ BootBound \in Nat

VARIABLES
  slots,                 \* slots[s]: the record kept for slot s
  active_slot,
  anti_rollback_floor,
  revoked,               \* revoked_key_fingerprints
  device_lost,
  remote_wipe_requested,
  recovery_mode,
  user_data,             \* the keys present in user_data
  torn,                  \* the state file does not parse
  pc                     \* "idle", or the operation between its two writes

policy == <<revoked, device_lost, remote_wipe_requested>>
vars == <<slots, active_slot, anti_rollback_floor, policy, recovery_mode,
          user_data, torn, pc>>

SLOTS == {"A", "B"}
Other(s) == IF s = "A" THEN "B" ELSE "A"

Status == {"empty", "active", "previous", "staged", "staged_complete",
           "boot_failed_retrying", "unbootable", "corrupt_recovered"}

SlotRecord == [version       : Versions \cup {None},
               status        : Status,
               boot_attempts : Nat,
               counter       : Counters \cup {0},
               in_progress   : BOOLEAN]

\* Update metadata: valid stands for a signature that verifies.
Metadata == [version : Versions, counter : Counters, key : Keys, valid : BOOLEAN]

\* Variant with a bug: the counter defaults to -1, as metadata's does.
EmptySlotUncounted == [version |-> None, status |-> "empty", boot_attempts |-> 0,
                       counter |-> -1, in_progress |-> FALSE]

EmptySlot == [version |-> None, status |-> "empty", boot_attempts |-> 0,
              counter |-> 0, in_progress |-> FALSE]

FreshSlots ==
  [s \in SLOTS |->
     IF s = "A" THEN [EmptySlot EXCEPT !.version = InitialVersion, !.status = "active"]
                ELSE EmptySlot]

-----------------------------------------------------------------------------
Init ==
  /\ slots = FreshSlots
  /\ active_slot = "A"
  /\ anti_rollback_floor = 0
  /\ revoked = {}
  /\ device_lost = FALSE
  /\ remote_wipe_requested = FALSE
  /\ recovery_mode = FALSE
  /\ user_data = UserData
  /\ torn = FALSE
  /\ pc = "idle"

\* init_device never looks at an existing file: it also runs on a device in use.
InitDevice ==
  /\ pc = "idle"
  /\ slots' = FreshSlots
  /\ active_slot' = "A"
  /\ anti_rollback_floor' = 0
  /\ revoked' = {}
  /\ device_lost' = FALSE
  /\ remote_wipe_requested' = FALSE
  /\ recovery_mode' = FALSE
  /\ user_data' = UserData
  /\ torn' = FALSE
  /\ UNCHANGED pc

\* Guard of every other operation: _read succeeds and no operation is running.
Ready == ~torn /\ pc = "idle"

-----------------------------------------------------------------------------
(* stage_update: the refusals, then the first write.                       *)
\* Variant with a bug: a lost device still takes updates.
AcceptsWhenLost(m) == m.key \notin revoked /\ m.valid /\ m.counter >= anti_rollback_floor

Accepts(m) ==
  /\ ~device_lost
  /\ m.key \notin revoked
  /\ m.valid
  /\ m.counter >= anti_rollback_floor

\* The slot an update goes to.  Variant with a bug: always slot B.
TargetAlwaysB == "B"
Target == Other(active_slot)

StageUpdate(m) ==
  /\ Ready
  /\ Accepts(m)
  /\ slots' = [slots EXCEPT ![Target] =
                 [version |-> m.version, status |-> "staged", boot_attempts |-> 0,
                  counter |-> m.counter, in_progress |-> TRUE]]
  /\ pc' = "staging"
  /\ UNCHANGED <<active_slot, anti_rollback_floor, policy, recovery_mode, user_data, torn>>

(* stage_update: the second write.                                         *)
FinishStage ==
  /\ pc = "staging"
  /\ slots' = [slots EXCEPT ![Target].in_progress = FALSE,
                            ![Target].status = "staged_complete"]
  /\ pc' = "idle"
  /\ UNCHANGED <<active_slot, anti_rollback_floor, policy, recovery_mode, user_data, torn>>

RecoverFromInterruptedUpdate ==
  /\ Ready
  /\ slots' = [s \in SLOTS |->
                 IF slots[s].in_progress
                 THEN [slots[s] EXCEPT !.status = "corrupt_recovered",
                                       !.in_progress = FALSE, !.version = None]
                 ELSE slots[s]]
  /\ UNCHANGED <<active_slot, anti_rollback_floor, policy, recovery_mode, user_data, torn, pc>>

-----------------------------------------------------------------------------
(* commit_boot(slot, boot_succeeds).                                       *)
CanBoot(s) ==
  /\ Ready
  /\ ~slots[s].in_progress
  /\ slots[s].boot_attempts < BootBound

Attempts(s) == slots[s].boot_attempts + 1

\* Variant with a bug: the floor follows the slot that boots.
Followed(floor, counter) == counter

Raised(floor, counter) == IF counter > floor THEN counter ELSE floor

\* What becomes of the other slot.  Variant with a bug: it stays active.
NotDemoted(slot) == slot
Demoted(slot) == [slot EXCEPT !.status = IF @ = "active" THEN "previous" ELSE @]

BootSuccess(s) ==
  /\ CanBoot(s)
  /\ slots' = [t \in SLOTS |->
                 IF t = s
                 THEN [slots[s] EXCEPT !.boot_attempts = Attempts(s), !.status = "active"]
                 ELSE Demoted(slots[t])]
  /\ active_slot' = s
  /\ anti_rollback_floor' = Raised(anti_rollback_floor, slots[s].counter)
  /\ UNCHANGED <<policy, recovery_mode, user_data, torn, pc>>

\* The slot auto rollback may fall back to.
IsFallback(s) == slots[s].status \in {"active", "previous"} /\ slots[s].version # None

BootRetry(s) ==
  /\ CanBoot(s)
  /\ Attempts(s) < MAX_BOOT_ATTEMPTS
  /\ slots' = [slots EXCEPT ![s].boot_attempts = Attempts(s),
                            ![s].status = "boot_failed_retrying"]
  /\ UNCHANGED <<active_slot, anti_rollback_floor, policy, recovery_mode, user_data, torn, pc>>

AutoRollback(s) ==
  /\ CanBoot(s)
  /\ Attempts(s) >= MAX_BOOT_ATTEMPTS
  /\ IsFallback(Other(s))
  /\ slots' = [slots EXCEPT ![s].boot_attempts = Attempts(s), ![s].status = "unbootable",
                            ![Other(s)].status = "active"]
  /\ active_slot' = Other(s)
  /\ UNCHANGED <<anti_rollback_floor, policy, recovery_mode, user_data, torn, pc>>

BootExhausted(s) ==
  /\ CanBoot(s)
  /\ Attempts(s) >= MAX_BOOT_ATTEMPTS
  /\ ~IsFallback(Other(s))
  /\ slots' = [slots EXCEPT ![s].boot_attempts = Attempts(s), ![s].status = "unbootable"]
  /\ recovery_mode' = TRUE
  /\ UNCHANGED <<active_slot, anti_rollback_floor, policy, user_data, torn, pc>>

CommitBoot(s) == BootSuccess(s) \/ BootRetry(s) \/ AutoRollback(s) \/ BootExhausted(s)

\* Variants with a bug: the other slot's version, or nothing, is looked at.
RollbackByStatus == slots[Other(active_slot)].status # "corrupt_recovered"
RollbackUnchecked == TRUE
CanRollBack ==
  /\ slots[Other(active_slot)].version # None
  /\ slots[Other(active_slot)].status # "corrupt_recovered"

ManualRollback ==
  /\ Ready
  /\ CanRollBack
  /\ slots' = [slots EXCEPT ![active_slot].status = "previous",
                            ![Other(active_slot)].status = "active"]
  /\ active_slot' = Other(active_slot)
  /\ UNCHANGED <<anti_rollback_floor, policy, recovery_mode, user_data, torn, pc>>

-----------------------------------------------------------------------------
(* factory_reset(preserve_keys) and the recovery mode switch.              *)
\* Variant with a bug: an empty list of keys means no selection.
PreservedOrAll(preserve) == IF preserve = {} THEN user_data ELSE user_data \cap preserve
Preserved(preserve) == user_data \cap preserve

FactoryReset(preserve) ==
  /\ Ready
  /\ user_data' = Preserved(preserve)
  /\ recovery_mode' = FALSE
  /\ UNCHANGED <<slots, active_slot, anti_rollback_floor, policy, torn, pc>>

SetRecoveryMode(on) ==
  /\ Ready
  /\ recovery_mode' = on
  /\ UNCHANGED <<slots, active_slot, anti_rollback_floor, policy, user_data, torn, pc>>

(* Revocation and the lost device.                                         *)
RevokeKey(k) ==
  /\ Ready
  /\ revoked' = revoked \cup {k}
  /\ UNCHANGED <<slots, active_slot, anti_rollback_floor, device_lost,
                 remote_wipe_requested, recovery_mode, user_data, torn, pc>>

MarkDeviceLost ==
  /\ Ready
  /\ device_lost' = TRUE
  /\ remote_wipe_requested' = TRUE
  /\ UNCHANGED <<slots, active_slot, anti_rollback_floor, revoked, recovery_mode,
                 user_data, torn, pc>>

\* execute_remote_wipe: factory_reset(preserve_keys=[]) writes first ...
StartWipe ==
  /\ Ready
  /\ remote_wipe_requested
  /\ user_data' = Preserved({})
  /\ recovery_mode' = FALSE
  /\ pc' = "wiping"
  /\ UNCHANGED <<slots, active_slot, anti_rollback_floor, policy, torn>>

\* ... then the file is read again and the request is cleared.
FinishWipe ==
  /\ pc = "wiping"
  /\ remote_wipe_requested' = FALSE
  /\ pc' = "idle"
  /\ UNCHANGED <<slots, active_slot, anti_rollback_floor, revoked, device_lost,
                 recovery_mode, user_data, torn>>

\* recover_lost_device, with an ownership proof (without one it is refused).
RecoverLostDevice ==
  /\ Ready
  /\ device_lost' = FALSE
  /\ remote_wipe_requested' = FALSE
  /\ UNCHANGED <<slots, active_slot, anti_rollback_floor, revoked, recovery_mode,
                 user_data, torn, pc>>

-----------------------------------------------------------------------------
(* Crashes.  Between the two writes of an operation the file is the one    *)
(* the first write left.  During a write it is torn: any operation that    *)
(* writes may be the one, so only the loss of the file is modelled.        *)
Crash ==
  /\ pc # "idle"
  /\ pc' = "idle"
  /\ UNCHANGED <<slots, active_slot, anti_rollback_floor, policy, recovery_mode,
                 user_data, torn>>

CrashDuringWrite ==
  /\ ~torn
  /\ torn' = TRUE
  /\ pc' = "idle"
  /\ UNCHANGED <<slots, active_slot, anti_rollback_floor, policy, recovery_mode, user_data>>

Next ==
  \/ InitDevice
  \/ \E m \in Metadata : StageUpdate(m)
  \/ FinishStage
  \/ RecoverFromInterruptedUpdate
  \/ \E s \in SLOTS : CommitBoot(s)
  \/ ManualRollback
  \/ \E preserve \in SUBSET UserData : FactoryReset(preserve)
  \/ \E on \in BOOLEAN : SetRecoveryMode(on)
  \/ \E k \in Keys : RevokeKey(k)
  \/ MarkDeviceLost
  \/ StartWipe
  \/ FinishWipe
  \/ RecoverLostDevice
  \/ Crash
  \/ CrashDuringWrite

Spec == Init /\ [][Next]_vars

(***************************************************************************)
(* The caller the comments of the code describe: the boot that follows a   *)
(* crash runs recover_from_interrupted_update before anything else (the    *)
(* comment in stage_update), and a slot without an image does not come up. *)
(***************************************************************************)
Interrupted == pc = "idle" /\ \E s \in SLOTS : slots[s].in_progress

Documented ==
  /\ Interrupted => RecoverFromInterruptedUpdate \/ InitDevice \/ CrashDuringWrite
  /\ \A s \in SLOTS : BootSuccess(s) => slots[s].version # None

DocumentedSpec == Init /\ [][Next /\ Documented]_vars

-----------------------------------------------------------------------------
(* Properties.                                                             *)

\* Type invariant of the state file and of the operation in progress.
TypeOK ==
  /\ slots \in [SLOTS -> SlotRecord]
  /\ active_slot \in SLOTS
  /\ anti_rollback_floor \in Nat
  /\ revoked \subseteq Keys
  /\ device_lost \in BOOLEAN
  /\ remote_wipe_requested \in BOOLEAN
  /\ recovery_mode \in BOOLEAN
  /\ user_data \subseteq UserData
  /\ torn \in BOOLEAN
  /\ pc \in {"idle", "staging", "wiping"}

\* The status column and the active_slot pointer, which commit_boot, auto
\* rollback and manual_rollback update separately, never disagree: no slot but
\* the one active_slot names is marked "active".  It holds for every caller.
OnlyActiveSlotMarkedActive ==
  \A s \in SLOTS : slots[s].status = "active" => s = active_slot

\* A device reported lost still holds user data only while its remote wipe is
\* pending: neither of the two writes of execute_remote_wipe, nor a crash
\* between them, forgets the wipe.
LostDeviceWipedOrPending ==
  device_lost => remote_wipe_requested \/ user_data = {}

\* No boot, rollback, wipe or crash lowers the anti-rollback floor; only a new
\* init_device does (boots of older images after a rollback included).
FloorNeverFalls ==
  [][anti_rollback_floor' >= anti_rollback_floor \/ InitDevice]_vars

\* While a device is marked lost no image enters a slot: its slots only ever
\* lose theirs, through the recovery of an interrupted update.
NoImageWhileLost ==
  [][device_lost /\ device_lost' =>
       \A s \in SLOTS : slots'[s].version \in {slots[s].version, None}]_vars

\* For a caller as documented, the slot the device runs always holds a
\* complete image, whatever the interleaving of updates, crashes, failed boots
\* and rollbacks.
ActiveSlotIntact ==
  /\ slots[active_slot].version # None
  /\ ~slots[active_slot].in_progress

\* For a caller as documented, the slot auto rollback would fall back to
\* holds a complete image.
FallbackIntact ==
  \A s \in SLOTS : slots[s].status = "previous" =>
     slots[s].version # None /\ ~slots[s].in_progress

\* The pair of images as ImagePair sees it: a slot still being written, or
\* emptied, is no spare.
Spare == IF slots[Other(active_slot)].in_progress THEN None
         ELSE slots[Other(active_slot)].version

Pair == INSTANCE ImagePair WITH
          Images <- Versions, Initial <- InitialVersion,
          running <- slots[active_slot].version, spare <- Spare

\* For a caller as documented, the manager implements ImagePair: staging and
\* recovery touch the spare only, boots and rollbacks at most exchange the two.
ImplementsImagePair == Pair!Spec

-----------------------------------------------------------------------------
(* What tests and comments of the repository say and the code does not do. *)

\* tests/wp013: an interrupted update "is_recovered_not_silently_booted".
NeverRunsHalfWrittenSlot == ~slots[active_slot].in_progress
=============================================================================

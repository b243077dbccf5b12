-------------------------- MODULE ABUpdate_proofs --------------------------
(***************************************************************************)
(* Proofs about the A/B update manager, for every set of versions,         *)
(* counters, keys and user data and every MAX_BOOT_ATTEMPTS.               *)
(*                                                                         *)
(* The type invariant is proved in two halves, because the provers do not  *)
(* mix arithmetic with Boolean-valued variables: the flags, and the rest.  *)
(***************************************************************************)
EXTENDS ABUpdate, TLAPS

FlagsOK ==
  /\ device_lost \in BOOLEAN
  /\ remote_wipe_requested \in BOOLEAN
  /\ recovery_mode \in BOOLEAN
  /\ torn \in BOOLEAN

SlotsOK == slots \in [SLOTS -> SlotRecord] /\ active_slot \in SLOTS

RestOK ==
  /\ anti_rollback_floor \in Nat
  /\ revoked \subseteq Keys
  /\ user_data \subseteq UserData
  /\ pc \in {"idle", "staging", "wiping"}

-----------------------------------------------------------------------------
(* Lemmas about slots.                                                     *)

\* There are two slots, each the other's other.
LEMMA OtherSlot ==
  /\ SLOTS = {"A", "B"}
  /\ \A s \in SLOTS : Other(s) \in SLOTS /\ Other(s) # s /\ Other(Other(s)) = s
  /\ \A s, t \in SLOTS : t = s \/ t = Other(s)
  BY DEF SLOTS, Other

\* A slot's counter, the initial 0 included, is a number.
LEMMA CountersNat == Counters \cup {0} \subseteq Nat
  BY CountersAssumption

\* The numbers kept in a slot record.
LEMMA SlotNumbers ==
  ASSUME NEW r \in SlotRecord
  PROVE  r.counter \in Nat /\ r.boot_attempts \in Nat /\ r.boot_attempts + 1 \in Nat
  BY CountersNat DEF SlotRecord

\* A slot record keeps its type under the updates the operations make.
LEMMA SlotUpdate ==
  ASSUME NEW r \in SlotRecord, NEW n \in Nat, NEW st \in Status
  PROVE  /\ [r EXCEPT !.boot_attempts = n, !.status = st] \in SlotRecord
         /\ [r EXCEPT !.status = st] \in SlotRecord
         /\ [r EXCEPT !.in_progress = FALSE, !.status = st] \in SlotRecord
         /\ [r EXCEPT !.status = st, !.in_progress = FALSE, !.version = None] \in SlotRecord
  BY DEF SlotRecord

\* So does the slot a successful boot leaves behind.
LEMMA DemotedType ==
  ASSUME NEW r \in SlotRecord
  PROVE  Demoted(r) \in SlotRecord
  BY DEF Demoted, SlotRecord, Status

\* The slots of a new device.
LEMMA FreshTypes == FreshSlots \in [SLOTS -> SlotRecord]
<1>1. EmptySlot \in SlotRecord
  BY DEF EmptySlot, SlotRecord, Status
<1>2. [EmptySlot EXCEPT !.version = InitialVersion, !.status = "active"] \in SlotRecord
  BY VersionsAssumption DEF EmptySlot, SlotRecord, Status
<1> QED BY <1>1, <1>2 DEF FreshSlots

-----------------------------------------------------------------------------
(* One lemma per half of the type invariant.                               *)

\* The flags keep their type in every step.
LEMMA FlagsStep == FlagsOK /\ [Next]_vars => FlagsOK'
  BY DEF FlagsOK, Next, vars, policy, InitDevice, StageUpdate, FinishStage,
     RecoverFromInterruptedUpdate, CommitBoot, BootSuccess, BootRetry, AutoRollback,
     BootExhausted, ManualRollback, FactoryReset, SetRecoveryMode, RevokeKey,
     MarkDeviceLost, StartWipe, FinishWipe, RecoverLostDevice, Crash, CrashDuringWrite

\* The slots keep their type in every step.
LEMMA SlotsStep == SlotsOK /\ [Next]_vars => SlotsOK'
<1> SUFFICES ASSUME SlotsOK, [Next]_vars PROVE SlotsOK'
  OBVIOUS
<1> USE DEF SlotsOK
<1>1. CASE InitDevice
  BY <1>1, FreshTypes DEF InitDevice, SLOTS
<1>2. ASSUME NEW m \in Metadata, StageUpdate(m) PROVE SlotsOK'
  <2>1. [version |-> m.version, status |-> "staged", boot_attempts |-> 0,
         counter |-> m.counter, in_progress |-> TRUE] \in SlotRecord
    BY DEF Metadata, SlotRecord, Status
  <2> QED BY <1>2, <2>1 DEF StageUpdate, Target, SLOTS, Other
<1>3. CASE FinishStage
  <2>1. [slots[Target] EXCEPT !.in_progress = FALSE, !.status = "staged_complete"] \in SlotRecord
    BY SlotUpdate, OtherSlot DEF Target, Status
  <2>2. slots' = [slots EXCEPT ![Target] =
                    [slots[Target] EXCEPT !.in_progress = FALSE, !.status = "staged_complete"]]
    BY <1>3 DEF FinishStage
  <2>3. Target \in SLOTS
    BY OtherSlot DEF Target
  <2>4. slots' \in [SLOTS -> SlotRecord]
    BY <2>1, <2>2, <2>3
  <2> QED BY <1>3, <2>4 DEF FinishStage
<1>4. CASE RecoverFromInterruptedUpdate
  BY <1>4 DEF RecoverFromInterruptedUpdate, SlotRecord, Status
<1>5. ASSUME NEW s \in SLOTS, BootSuccess(s) PROVE SlotsOK'
  <2>1. Attempts(s) \in Nat
    BY SlotNumbers DEF Attempts
  <2>2. [slots[s] EXCEPT !.boot_attempts = Attempts(s), !.status = "active"] \in SlotRecord
    BY <2>1, SlotUpdate DEF Status
  <2>3. \A t \in SLOTS : Demoted(slots[t]) \in SlotRecord
    BY DemotedType
  <2> QED BY <1>5, <2>2, <2>3 DEF BootSuccess
<1>6. ASSUME NEW s \in SLOTS, BootRetry(s) \/ BootExhausted(s) PROVE SlotsOK'
  <2>1. Attempts(s) \in Nat
    BY SlotNumbers DEF Attempts
  <2> QED BY <1>6, <2>1 DEF BootRetry, BootExhausted, SlotRecord, Status
<1>7. ASSUME NEW s \in SLOTS, AutoRollback(s) PROVE SlotsOK'
  <2>1. Attempts(s) \in Nat
    BY SlotNumbers DEF Attempts
  <2> QED BY <1>7, <2>1 DEF AutoRollback, SlotRecord, Status, SLOTS, Other
<1>8. CASE ManualRollback
  BY <1>8 DEF ManualRollback, SlotRecord, Status, SLOTS, Other
<1>9. CASE UNCHANGED <<slots, active_slot>>
  BY <1>9
<1> QED
  BY <1>1, <1>2, <1>3, <1>4, <1>5, <1>6, <1>7, <1>8, <1>9
  DEF Next, vars, CommitBoot, FactoryReset, SetRecoveryMode, RevokeKey, MarkDeviceLost,
      StartWipe, FinishWipe, RecoverLostDevice, Crash, CrashDuringWrite

\* The floor, the revoked keys, the user data and pc keep their types.
LEMMA RestStep == SlotsOK /\ RestOK /\ [Next]_vars => RestOK'
<1> SUFFICES ASSUME SlotsOK, RestOK, [Next]_vars PROVE RestOK'
  OBVIOUS
<1> USE DEF RestOK, policy
<1>1. ASSUME NEW s \in SLOTS, BootSuccess(s) PROVE RestOK'
  <2>1. slots[s].counter \in Nat
    BY SlotNumbers DEF SlotsOK
  <2> QED BY <1>1, <2>1 DEF BootSuccess, Raised
<1>2. ASSUME NEW s \in SLOTS, BootRetry(s) \/ BootExhausted(s) \/ AutoRollback(s)
      PROVE  RestOK'
  BY <1>2 DEF BootRetry, BootExhausted, AutoRollback
<1>3. CASE InitDevice
  BY <1>3 DEF InitDevice
<1>4. CASE (\E m \in Metadata : StageUpdate(m)) \/ FinishStage \/ RecoverFromInterruptedUpdate
           \/ ManualRollback
  BY <1>4 DEF StageUpdate, FinishStage, RecoverFromInterruptedUpdate, ManualRollback
<1>5. CASE (\E p \in SUBSET UserData : FactoryReset(p)) \/ (\E on \in BOOLEAN : SetRecoveryMode(on))
           \/ (\E k \in Keys : RevokeKey(k))
  BY <1>5 DEF FactoryReset, SetRecoveryMode, RevokeKey, Preserved
<1>6. CASE MarkDeviceLost \/ StartWipe \/ FinishWipe \/ RecoverLostDevice
  BY <1>6 DEF MarkDeviceLost, StartWipe, FinishWipe, RecoverLostDevice, Preserved
<1>7. CASE Crash \/ CrashDuringWrite \/ UNCHANGED vars
  BY <1>7 DEF Crash, CrashDuringWrite, vars
<1> QED BY <1>1, <1>2, <1>3, <1>4, <1>5, <1>6, <1>7 DEF Next, CommitBoot

\* The values of the state file have their types after every operation and
\* every crash.
THEOREM TypeCorrect == Spec => []TypeOK
<1>1. Init => FlagsOK
  BY DEF Init, FlagsOK
<1>2. Init => SlotsOK /\ RestOK
  BY FreshTypes DEF Init, SlotsOK, RestOK, SLOTS
<1>3. FlagsOK /\ SlotsOK /\ RestOK <=> TypeOK
  BY DEF FlagsOK, SlotsOK, RestOK, TypeOK
<1> QED BY <1>1, <1>2, <1>3, FlagsStep, SlotsStep, RestStep, PTL DEF Spec

\* The slots are well typed in every reachable state.
LEMMA SlotsCorrect == Spec => []SlotsOK
<1>1. TypeOK => SlotsOK
  BY DEF TypeOK, SlotsOK
<1> QED BY <1>1, TypeCorrect, PTL

-----------------------------------------------------------------------------
(* Safety for every caller.                                                *)

\* No slot but the one active_slot names is marked active, in any order of
\* updates, boots, rollbacks and crashes.
LEMMA ActiveMarkStep ==
  SlotsOK /\ OnlyActiveSlotMarkedActive /\ [Next]_vars => OnlyActiveSlotMarkedActive'
<1> SUFFICES ASSUME SlotsOK, OnlyActiveSlotMarkedActive, [Next]_vars
             PROVE  OnlyActiveSlotMarkedActive'
  OBVIOUS
<1> USE DEF SlotsOK, OnlyActiveSlotMarkedActive
<1>1. CASE InitDevice
  BY <1>1 DEF InitDevice, FreshSlots, EmptySlot, SLOTS
<1>2. ASSUME NEW m \in Metadata, StageUpdate(m) PROVE OnlyActiveSlotMarkedActive'
  BY <1>2, OtherSlot DEF StageUpdate, Target
<1>3. CASE FinishStage
  BY <1>3, OtherSlot DEF FinishStage, Target, SlotRecord
<1>4. CASE RecoverFromInterruptedUpdate
  BY <1>4 DEF RecoverFromInterruptedUpdate, SlotRecord
<1>5. ASSUME NEW s \in SLOTS, BootSuccess(s) PROVE OnlyActiveSlotMarkedActive'
  BY <1>5 DEF BootSuccess, Demoted, SlotRecord
<1>6. ASSUME NEW s \in SLOTS, BootRetry(s) \/ BootExhausted(s)
      PROVE  OnlyActiveSlotMarkedActive'
  BY <1>6 DEF BootRetry, BootExhausted, SlotRecord
<1>7. ASSUME NEW s \in SLOTS, AutoRollback(s) PROVE OnlyActiveSlotMarkedActive'
  BY <1>7, OtherSlot DEF AutoRollback, SlotRecord
<1>8. CASE ManualRollback
  BY <1>8, OtherSlot DEF ManualRollback, SlotRecord
<1>9. CASE UNCHANGED <<slots, active_slot>>
  BY <1>9
<1> QED
  BY <1>1, <1>2, <1>3, <1>4, <1>5, <1>6, <1>7, <1>8, <1>9
  DEF Next, vars, CommitBoot, FactoryReset, SetRecoveryMode, RevokeKey, MarkDeviceLost,
      StartWipe, FinishWipe, RecoverLostDevice, Crash, CrashDuringWrite

\* The marks and the pointer agree in every reachable state.
THEOREM ActiveMarkCorrect == Spec => []OnlyActiveSlotMarkedActive
<1>1. Init => OnlyActiveSlotMarkedActive
  BY DEF Init, OnlyActiveSlotMarkedActive, FreshSlots, EmptySlot, SLOTS
<1> QED BY <1>1, SlotsCorrect, ActiveMarkStep, PTL DEF Spec

\* The wipe of a lost device: while execute_remote_wipe is between its writes
\* the data is already gone, so the request may be cleared.
WipeInv == LostDeviceWipedOrPending /\ (pc = "wiping" => user_data = {})

\* A lost device keeps user data only while its wipe is pending.
THEOREM WipeNotForgotten == Spec => []LostDeviceWipedOrPending
<1>1. Init => WipeInv
  BY DEF Init, WipeInv, LostDeviceWipedOrPending
<1>2. WipeInv /\ [Next]_vars => WipeInv'
  <2> SUFFICES ASSUME WipeInv, [Next]_vars PROVE WipeInv'
    OBVIOUS
  <2> USE DEF WipeInv, LostDeviceWipedOrPending, policy, Ready
  <2>1. CASE InitDevice \/ MarkDeviceLost \/ RecoverLostDevice
    BY <2>1 DEF InitDevice, MarkDeviceLost, RecoverLostDevice
  <2>2. ASSUME NEW p \in SUBSET UserData, FactoryReset(p) PROVE WipeInv'
    <3>1. user_data = {} => user_data' = {}
      BY <2>2 DEF FactoryReset, Preserved
    <3> QED BY <2>2, <3>1 DEF FactoryReset
  <2>3. CASE StartWipe
    <3>1. user_data' = {}
      BY <2>3 DEF StartWipe, Preserved
    <3> QED BY <3>1
  <2>4. CASE FinishWipe
    BY <2>4 DEF FinishWipe
  <2>5. CASE (\E m \in Metadata : StageUpdate(m)) \/ FinishStage \/ RecoverFromInterruptedUpdate
             \/ ManualRollback \/ \E s \in SLOTS : CommitBoot(s)
    <3>1. UNCHANGED <<device_lost, remote_wipe_requested, user_data>>
      BY <2>5 DEF StageUpdate, FinishStage, RecoverFromInterruptedUpdate, ManualRollback,
         CommitBoot, BootSuccess, BootRetry, AutoRollback, BootExhausted
    <3>2. pc' # "wiping"
      BY <2>5 DEF StageUpdate, FinishStage, RecoverFromInterruptedUpdate, ManualRollback,
         CommitBoot, BootSuccess, BootRetry, AutoRollback, BootExhausted, CanBoot
    <3> QED BY <3>1, <3>2
  <2>6. CASE (\E on \in BOOLEAN : SetRecoveryMode(on)) \/ \E k \in Keys : RevokeKey(k)
    BY <2>6 DEF SetRecoveryMode, RevokeKey
  <2>7. CASE Crash \/ CrashDuringWrite \/ UNCHANGED vars
    BY <2>7 DEF Crash, CrashDuringWrite, vars
  <2> QED BY <2>1, <2>2, <2>3, <2>4, <2>5, <2>6, <2>7 DEF Next
<1>3. WipeInv => LostDeviceWipedOrPending
  BY DEF WipeInv
<1> QED BY <1>1, <1>2, <1>3, PTL DEF Spec

\* Only a new init_device lowers the anti-rollback floor.
THEOREM FloorMonotone == Spec => FloorNeverFalls
<1>1. SlotsOK /\ RestOK /\ [Next]_vars
        => [anti_rollback_floor' >= anti_rollback_floor \/ InitDevice]_vars
  <2> SUFFICES ASSUME SlotsOK, RestOK, Next
               PROVE  anti_rollback_floor' >= anti_rollback_floor \/ InitDevice
    OBVIOUS
  <2>1. ASSUME NEW s \in SLOTS, BootSuccess(s)
        PROVE  anti_rollback_floor' >= anti_rollback_floor
    <3>1. slots[s].counter \in Nat
      BY SlotNumbers DEF SlotsOK
    <3> QED BY <2>1, <3>1 DEF BootSuccess, Raised, RestOK
  <2>2. CASE anti_rollback_floor' = anti_rollback_floor
    BY <2>2 DEF RestOK
  <2> QED
    BY <2>1, <2>2 DEF Next, CommitBoot, StageUpdate, FinishStage,
       RecoverFromInterruptedUpdate, BootRetry, AutoRollback, BootExhausted, ManualRollback,
       FactoryReset, SetRecoveryMode, RevokeKey, MarkDeviceLost, StartWipe, FinishWipe,
       RecoverLostDevice, Crash, CrashDuringWrite
<1>2. TypeOK => SlotsOK /\ RestOK
  BY DEF TypeOK, SlotsOK, RestOK
<1> QED BY <1>1, <1>2, TypeCorrect, PTL DEF Spec, FloorNeverFalls

\* stage_update and mark_device_lost: while a device is marked lost no image
\* enters a slot, whatever boots, rolls back, recovers or crashes meanwhile.
THEOREM LostTakesNoImage == Spec => NoImageWhileLost
<1> DEFINE NoNewImage == \A s \in SLOTS : slots'[s].version \in {slots[s].version, None}
<1>1. SlotsOK /\ [Next]_vars => [device_lost /\ device_lost' => NoNewImage]_vars
  <2> SUFFICES ASSUME SlotsOK, Next, device_lost, device_lost'
               PROVE  NoNewImage
    OBVIOUS
  <2> USE DEF SlotsOK
  <2>1. ~InitDevice /\ \A m \in Metadata : ~StageUpdate(m)
    BY DEF InitDevice, StageUpdate, Accepts
  <2>2. CASE FinishStage \/ ManualRollback
    BY <2>2, OtherSlot DEF FinishStage, ManualRollback, Target, SlotRecord
  <2>3. CASE RecoverFromInterruptedUpdate
    BY <2>3 DEF RecoverFromInterruptedUpdate, SlotRecord
  <2>4. ASSUME NEW s \in SLOTS, BootSuccess(s) PROVE NoNewImage
    BY <2>4 DEF BootSuccess, Demoted, SlotRecord
  <2>5. ASSUME NEW s \in SLOTS, BootRetry(s) \/ AutoRollback(s) \/ BootExhausted(s)
        PROVE  NoNewImage
    BY <2>5, OtherSlot DEF BootRetry, AutoRollback, BootExhausted, SlotRecord
  <2>6. CASE UNCHANGED slots
    BY <2>6
  <2> QED
    BY <2>1, <2>2, <2>3, <2>4, <2>5, <2>6
    DEF Next, CommitBoot, FactoryReset, SetRecoveryMode, RevokeKey, MarkDeviceLost, StartWipe,
        FinishWipe, RecoverLostDevice, Crash, CrashDuringWrite
<1> QED BY <1>1, SlotsCorrect, PTL DEF Spec, NoImageWhileLost

-----------------------------------------------------------------------------
(* Safety for the documented caller.                                       *)

\* Inductive: the active mark is needed because a successful boot demotes the
\* slot marked active, which must then be intact, and the version of the slot
\* being staged because FinishStage turns it into a spare.
IntactInv ==
  /\ SlotsOK
  /\ OnlyActiveSlotMarkedActive
  /\ ActiveSlotIntact
  /\ FallbackIntact
  /\ pc = "staging" => slots[Target].version \in Versions

\* What is left of a step of the documented caller once recovery, a new
\* init_device and torn writes are set aside.
LEMMA DocumentedCases ==
  ASSUME SlotsOK, Next, Documented
  PROVE  \/ InitDevice
         \/ RecoverFromInterruptedUpdate
         \/ FinishStage
         \/ UNCHANGED <<slots, active_slot>> /\ pc' # "staging"
         \/ \E m \in Metadata : StageUpdate(m)
         \/ /\ pc = "idle" /\ pc' = "idle"
            /\ \A s \in SLOTS : ~slots[s].in_progress
            /\ \/ \E s \in SLOTS : BootSuccess(s) /\ slots[s].version # None
               \/ \E s \in SLOTS : BootRetry(s) \/ BootExhausted(s) \/ AutoRollback(s)
               \/ ManualRollback
<1>1. ASSUME NEW s \in SLOTS, CommitBoot(s)
      PROVE  pc = "idle" /\ pc' = "idle" /\ (BootSuccess(s) => slots[s].version # None)
  BY <1>1 DEF CommitBoot, BootSuccess, BootRetry, BootExhausted, AutoRollback, CanBoot,
     Ready, Documented
<1>2. CASE pc = "idle" /\ \E s \in SLOTS : slots[s].in_progress
  <2>1. RecoverFromInterruptedUpdate \/ InitDevice \/ CrashDuringWrite
    BY <1>2 DEF Documented, Interrupted
  <2> QED BY <2>1 DEF CrashDuringWrite
<1>3. CASE ~(pc = "idle" /\ \E s \in SLOTS : slots[s].in_progress)
  <2>1. CASE \E s \in SLOTS : CommitBoot(s)
    BY <2>1, <1>1, <1>3 DEF CommitBoot
  <2>2. CASE ManualRollback
    BY <2>2, <1>3 DEF ManualRollback, Ready
  <2>3. CASE \/ \E p \in SUBSET UserData : FactoryReset(p)
             \/ \E on \in BOOLEAN : SetRecoveryMode(on)
             \/ \E k \in Keys : RevokeKey(k)
             \/ MarkDeviceLost \/ StartWipe \/ FinishWipe \/ RecoverLostDevice
             \/ Crash \/ CrashDuringWrite
    BY <2>3 DEF FactoryReset, SetRecoveryMode, RevokeKey, MarkDeviceLost, StartWipe,
       FinishWipe, RecoverLostDevice, Crash, CrashDuringWrite, Ready
  <2> QED BY <2>1, <2>2, <2>3 DEF Next
<1> QED BY <1>2, <1>3

\* Every step of the documented caller keeps the running image and the
\* fallback intact.
LEMMA IntactStep == IntactInv /\ [Next /\ Documented]_vars => IntactInv'
<1> SUFFICES ASSUME IntactInv, [Next /\ Documented]_vars PROVE IntactInv'
  OBVIOUS
<1> DEFINE Safe == ActiveSlotIntact /\ FallbackIntact
                   /\ (pc = "staging" => slots[Target].version \in Versions)
<1>1. SlotsOK' /\ OnlyActiveSlotMarkedActive'
  BY SlotsStep, ActiveMarkStep DEF IntactInv
<1>2. CASE UNCHANGED vars
  BY <1>2 DEF vars, IntactInv, SlotsOK, OnlyActiveSlotMarkedActive, ActiveSlotIntact,
     FallbackIntact, Target
<1>3. CASE Next /\ Documented
  <2> USE DEF IntactInv, SlotsOK, ActiveSlotIntact, FallbackIntact
  <2>1. CASE InitDevice
    <3>1. slots'[active_slot'].version = InitialVersion /\ ~slots'[active_slot'].in_progress
      BY <2>1 DEF InitDevice, FreshSlots, EmptySlot, SLOTS
    <3>2. \A s \in SLOTS : slots'[s].status # "previous"
      BY <2>1 DEF InitDevice, FreshSlots, EmptySlot, SLOTS
    <3> QED BY <2>1, <1>1, <3>1, <3>2, VersionsAssumption DEF InitDevice
  <2>2. CASE RecoverFromInterruptedUpdate
    <3>1. Safe'
      BY <2>2 DEF RecoverFromInterruptedUpdate, Ready, SlotRecord
    <3> QED BY <1>1, <3>1
  <2>3. CASE FinishStage
    <3>1. Safe'
      BY <2>3, OtherSlot DEF FinishStage, Target, SlotRecord
    <3> QED BY <1>1, <3>1
  <2>4. CASE UNCHANGED <<slots, active_slot>> /\ pc' # "staging"
    BY <1>1, <2>4
  <2>5. ASSUME NEW m \in Metadata, StageUpdate(m) PROVE IntactInv'
    <3>1. Safe'
      BY <2>5, OtherSlot DEF StageUpdate, Target, Metadata
    <3> QED BY <1>1, <3>1
  <2>6. CASE /\ pc = "idle" /\ pc' = "idle"
             /\ \A s \in SLOTS : ~slots[s].in_progress
             /\ \/ \E s \in SLOTS : BootSuccess(s) /\ slots[s].version # None
                \/ \E s \in SLOTS : BootRetry(s) \/ BootExhausted(s) \/ AutoRollback(s)
                \/ ManualRollback
    <3>1. ASSUME NEW s \in SLOTS, BootSuccess(s), slots[s].version # None PROVE Safe'
      <4>1. ActiveSlotIntact'
        BY <2>6, <3>1 DEF BootSuccess, SlotRecord
      <4>2. ASSUME NEW t \in SLOTS, slots'[t].status = "previous"
            PROVE  slots'[t].version # None /\ ~slots'[t].in_progress
        <5>1. t # s /\ slots'[t] = Demoted(slots[t])
          BY <3>1, <4>2 DEF BootSuccess, SlotRecord
        <5>2. slots[t].status \in {"active", "previous"}
          BY <4>2, <5>1 DEF Demoted, SlotRecord
        <5>3. slots[t].version # None /\ ~slots[t].in_progress
          BY <5>2 DEF OnlyActiveSlotMarkedActive
        <5> QED BY <5>1, <5>3 DEF Demoted, SlotRecord
      <4> QED BY <2>6, <4>1, <4>2
    <3>2. ASSUME NEW s \in SLOTS, BootRetry(s) \/ BootExhausted(s) PROVE Safe'
      BY <2>6, <3>2 DEF BootRetry, BootExhausted, SlotRecord
    <3>3. ASSUME NEW s \in SLOTS, AutoRollback(s) PROVE Safe'
      BY <2>6, <3>3, OtherSlot DEF AutoRollback, IsFallback, SlotRecord
    <3>4. ASSUME ManualRollback PROVE Safe'
      BY <2>6, <3>4, OtherSlot DEF ManualRollback, CanRollBack, SlotRecord
    <3>5. Safe'
      BY <2>6, <3>1, <3>2, <3>3, <3>4
    <3> QED BY <1>1, <3>5
  <2> QED BY <1>3, <2>1, <2>2, <2>3, <2>4, <2>5, <2>6, DocumentedCases
<1> QED BY <1>2, <1>3

\* The invariant holds of every behaviour of the documented caller.
LEMMA IntactCorrect == DocumentedSpec => []IntactInv
<1>1. Init => IntactInv
  <2>1. Init => SlotsOK
    BY FreshTypes DEF Init, SlotsOK, SLOTS
  <2>2. Init => ActiveSlotIntact
    BY VersionsAssumption DEF Init, ActiveSlotIntact, FreshSlots, EmptySlot, SLOTS
  <2>3. Init => FallbackIntact
    <3>1. \A s \in SLOTS : FreshSlots[s].status # "previous"
      BY DEF FreshSlots, EmptySlot, SLOTS
    <3> QED BY <3>1 DEF Init, FallbackIntact
  <2>4. Init => OnlyActiveSlotMarkedActive
    BY DEF Init, OnlyActiveSlotMarkedActive, FreshSlots, EmptySlot, SLOTS
  <2> QED BY <2>1, <2>2, <2>3, <2>4 DEF IntactInv, Init
<1> QED BY <1>1, IntactStep, PTL DEF DocumentedSpec

\* The slot the device runs always holds a complete image.
THEOREM RunningImageIntact == DocumentedSpec => []ActiveSlotIntact
<1>1. IntactInv => ActiveSlotIntact
  BY DEF IntactInv
<1> QED BY <1>1, IntactCorrect, PTL

\* The slot auto rollback would return to always holds a complete image.
THEOREM FallbackImageIntact == DocumentedSpec => []FallbackIntact
<1>1. IntactInv => FallbackIntact
  BY DEF IntactInv
<1> QED BY <1>1, IntactCorrect, PTL

-----------------------------------------------------------------------------
(* The documented caller's manager implements ImagePair.                   *)

\* Steps that leave both slots' versions and in_progress marks, and the
\* pointer, alone are not visible in the pair of images.
LEMMA SameImages ==
  ASSUME SlotsOK, SlotsOK', active_slot' = active_slot,
         \A s \in SLOTS : /\ slots'[s].version = slots[s].version
                          /\ slots'[s].in_progress = slots[s].in_progress
  PROVE  UNCHANGED <<slots[active_slot].version, Spare>>
  BY OtherSlot DEF SlotsOK, Spare

\* When the pointer moves from one complete slot to the other, which keeps its
\* image, the pair is exchanged.
LEMMA ExchangedImages ==
  ASSUME SlotsOK, SlotsOK', active_slot' = Other(active_slot),
         slots[Other(active_slot)].version # None,
         \A s \in SLOTS : /\ slots'[s].version = slots[s].version
                          /\ ~slots[s].in_progress /\ ~slots'[s].in_progress
  PROVE  Pair!Exchange
  BY OtherSlot DEF SlotsOK, Spare, Pair!Exchange

\* Every step of the documented caller is a step of ImagePair or invisible.
LEMMA PairStep ==
  ASSUME IntactInv, IntactInv', [Next /\ Documented]_vars
  PROVE  [Pair!Next]_<<slots[active_slot].version, Spare>>
<1> USE DEF IntactInv
<1>1. CASE UNCHANGED vars
  BY <1>1 DEF vars, Spare
<1>2. CASE Next /\ Documented
  <2>1. CASE InitDevice
    <3>1. slots'[active_slot'].version = InitialVersion /\ Spare' = None
      BY <2>1 DEF InitDevice, FreshSlots, EmptySlot, SLOTS, Spare, Other
    <3> QED BY <3>1 DEF Pair!Next, Pair!Reset, Pair!Factory
  <2>2. CASE RecoverFromInterruptedUpdate
    <3>1. slots'[active_slot'].version = slots[active_slot].version
      BY <2>2 DEF RecoverFromInterruptedUpdate, ActiveSlotIntact, SlotsOK
    <3>2. Spare' = Spare
      BY <2>2, OtherSlot DEF RecoverFromInterruptedUpdate, SlotsOK, SlotRecord, Spare
    <3> QED BY <3>1, <3>2
  <2>3. CASE FinishStage
    <3>1. slots'[active_slot'].version = slots[active_slot].version
      BY <2>3, OtherSlot DEF FinishStage, Target, SlotsOK
    <3>2. Spare' = slots[Target].version
      BY <2>3, OtherSlot DEF FinishStage, Target, SlotsOK, SlotRecord, Spare
    <3>3. slots[Target].version \in Versions
      BY <2>3 DEF FinishStage
    <3> QED BY <3>1, <3>2, <3>3 DEF Pair!Next, Pair!InstallSpare
  <2>4. CASE UNCHANGED <<slots, active_slot>> /\ pc' # "staging"
    BY <2>4 DEF Spare
  <2>5. ASSUME NEW m \in Metadata, StageUpdate(m) PROVE Pair!DropSpare
    BY <2>5, OtherSlot DEF StageUpdate, Target, SlotsOK, Spare, Pair!DropSpare
  <2>6. CASE /\ pc = "idle" /\ pc' = "idle"
             /\ \A s \in SLOTS : ~slots[s].in_progress
             /\ \/ \E s \in SLOTS : BootSuccess(s) /\ slots[s].version # None
                \/ \E s \in SLOTS : BootRetry(s) \/ BootExhausted(s) \/ AutoRollback(s)
                \/ ManualRollback
    <3>1. \A s \in SLOTS : /\ slots'[s].version = slots[s].version
                           /\ slots'[s].in_progress = slots[s].in_progress
      <4>1. ASSUME NEW s \in SLOTS, BootSuccess(s), NEW t \in SLOTS
            PROVE  /\ slots'[t].version = slots[t].version
                   /\ slots'[t].in_progress = slots[t].in_progress
        BY <4>1 DEF BootSuccess, Demoted, SlotsOK, SlotRecord
      <4>2. ASSUME NEW s \in SLOTS, BootRetry(s) \/ BootExhausted(s), NEW t \in SLOTS
            PROVE  /\ slots'[t].version = slots[t].version
                   /\ slots'[t].in_progress = slots[t].in_progress
        BY <4>2 DEF BootRetry, BootExhausted, SlotsOK, SlotRecord
      <4>3. ASSUME NEW s \in SLOTS, AutoRollback(s), NEW t \in SLOTS
            PROVE  /\ slots'[t].version = slots[t].version
                   /\ slots'[t].in_progress = slots[t].in_progress
        BY <4>3, OtherSlot DEF AutoRollback, SlotsOK, SlotRecord
      <4>4. ASSUME ManualRollback, NEW t \in SLOTS
            PROVE  /\ slots'[t].version = slots[t].version
                   /\ slots'[t].in_progress = slots[t].in_progress
        BY <4>4, OtherSlot DEF ManualRollback, SlotsOK, SlotRecord
      <4> QED BY <2>6, <4>1, <4>2, <4>3, <4>4
    <3>2. CASE active_slot' = active_slot
      BY <3>1, <3>2, SameImages
    <3>3. CASE active_slot' # active_slot
      <4>1. active_slot' = Other(active_slot)
        BY <3>3, OtherSlot DEF SlotsOK
      <4>2. slots[Other(active_slot)].version # None
        <5>1. ASSUME NEW s \in SLOTS, BootSuccess(s), slots[s].version # None
              PROVE  slots[Other(active_slot)].version # None
          BY <5>1, <4>1 DEF BootSuccess
        <5>2. ASSUME NEW s \in SLOTS, AutoRollback(s)
              PROVE  slots[Other(active_slot)].version # None
          BY <5>2, <4>1 DEF AutoRollback, IsFallback
        <5>3. ASSUME NEW s \in SLOTS, BootRetry(s) \/ BootExhausted(s) PROVE FALSE
          BY <5>3, <3>3 DEF BootRetry, BootExhausted
        <5>4. ASSUME ManualRollback PROVE slots[Other(active_slot)].version # None
          BY <5>4 DEF ManualRollback, CanRollBack
        <5> QED BY <2>6, <5>1, <5>2, <5>3, <5>4
      <4>3. Pair!Exchange
        BY <2>6, <3>1, <4>1, <4>2, ExchangedImages
      <4> QED BY <4>3 DEF Pair!Next
    <3> QED BY <3>2, <3>3
  <2> QED BY <1>2, <2>1, <2>2, <2>3, <2>4, <2>5, <2>6, DocumentedCases DEF Pair!Next
<1> QED BY <1>1, <1>2

\* Staging and recovery touch the spare image only; boots and rollbacks at
\* most exchange it with the running one.
THEOREM ImagePairRefinement == DocumentedSpec => ImplementsImagePair
<1>1. Init => Pair!Init
  <2>1. FreshSlots["A"].version = InitialVersion
    BY DEF FreshSlots, EmptySlot, SLOTS
  <2>2. FreshSlots["B"].version = None /\ ~FreshSlots["B"].in_progress
    BY DEF FreshSlots, EmptySlot, SLOTS
  <2> QED BY <2>1, <2>2 DEF Init, Pair!Init, Pair!Factory, Spare, Other
<1>2. IntactInv /\ IntactInv' /\ [Next /\ Documented]_vars
        => [Pair!Next]_<<slots[active_slot].version, Spare>>
  BY PairStep
<1> QED BY <1>1, <1>2, IntactCorrect, PTL DEF DocumentedSpec, ImplementsImagePair, Pair!Spec
=============================================================================

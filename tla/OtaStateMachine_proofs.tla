---------------------- MODULE OtaStateMachine_proofs ----------------------
(***************************************************************************)
(* Proofs about the OTA state machine, for every set of versions and of    *)
(* security versions.                                                      *)
(***************************************************************************)
EXTENDS OtaTrial, TLAPS

\* The type invariant but for last_error, which is treated on its own: the
\* provers do not mix Boolean-valued variables with arithmetic.
DataOK ==
  /\ state \in OtaState
  /\ active_slot \in Slot
  /\ slots \in [Slot -> SlotInfo]
  /\ pending \in UpdatePackage \cup {None}

\* The anti-rollback check of check_for_update, as long as it matters: of the
\* package, and once it is applied of the slot it was applied to.
PendingNotOlder ==
  /\ state \in Downloading =>
       pending.security_version >= slots[active_slot].security_version
  /\ state = "reboot_pending" =>
       slots[Inactive].security_version = pending.security_version

\* An idle machine has no package left over for the next update to find.
IdleHasNoPackage == state = "idle" => pending = None

\* Nothing whose signature does not verify gets as far as the running slot.
OnlyVerifiedInstalled ==
  state \in {"staging", "applying", "reboot_pending", "health_check", "committed"}
    => pending.valid

\* Inductive: PendingForOtherSlot says which slot Apply writes, PendingNotOlder
\* carries the check made at the start to the reboot.
OtaInv ==
  /\ DataOK
  /\ PendingForOtherSlot
  /\ OnlyVerifiedInstalled
  /\ PendingNotOlder
  /\ NoSecurityDowngrade
  /\ IdleHasNoPackage

\* There are two slots, and Inactive is the one that is not active.
LEMMA TwoSlots ==
  ASSUME active_slot \in Slot
  PROVE  /\ Inactive \in Slot /\ Inactive # active_slot
         /\ \A s \in Slot : s = active_slot \/ s = Inactive
  BY DEF Slot, Inactive

\* A package is well formed, and for the inactive slot once redirected.
LEMMA RetargetedPackage ==
  ASSUME NEW p \in UpdatePackage, active_slot \in Slot
  PROVE  /\ Retargeted(p) \in UpdatePackage
         /\ Retargeted(p).target_slot = Inactive
         /\ Retargeted(p).security_version = p.security_version
  BY DEF Retargeted, UpdatePackage, Slot, Inactive

\* Security versions are numbers.
LEMMA SecurityNat == SecurityVersions \subseteq Nat /\ 1 \in SecurityVersions
  BY SecurityAssumption

\* The invariant holds of the initial states.
LEMMA OtaInit == Init => OtaInv
<1> SUFFICES ASSUME Init PROVE OtaInv
  OBVIOUS
<1>1. slots \in [Slot -> SlotInfo]
  BY SecurityNat, VersionsAssumption DEF Init, Slot, SlotInfo
<1>2. state = "idle" /\ pending = None /\ active_slot = "a"
  BY DEF Init
<1> QED
  BY <1>1, <1>2 DEF OtaInv, DataOK, PendingForOtherSlot, OnlyVerifiedInstalled,
     PendingNotOlder, NoSecurityDowngrade, IdleHasNoPackage, OtaState, Downloading, Slot

\* The body of rollback, from any state it runs in.
LEMMA OtaRollBack ==
  ASSUME OtaInv, RollBack
  PROVE  OtaInv'
<1> USE DEF OtaInv, DataOK
<1>1. state' \in {"rolled_back", "failed"}
  BY DEF RollBack
<1>2. DataOK'
  <2>1. slots' \in [Slot -> SlotInfo]
    BY DEF RollBack, SlotInfo
  <2>2. active_slot' \in Slot
    BY TwoSlots DEF RollBack
  <2>3. pending' \in UpdatePackage \cup {None}
    BY DEF RollBack
  <2> QED BY <1>1, <2>1, <2>2, <2>3 DEF OtaState
<1> QED
  BY <1>1, <1>2 DEF PendingForOtherSlot, OnlyVerifiedInstalled, PendingNotOlder,
     NoSecurityDowngrade, IdleHasNoPackage, Downloading

\* Every call keeps the invariant.
LEMMA OtaStep == OtaInv /\ [Next]_vars => OtaInv'
<1> SUFFICES ASSUME OtaInv, [Next]_vars PROVE OtaInv'
  OBVIOUS
<1> USE DEF OtaInv, DataOK, PendingForOtherSlot, OnlyVerifiedInstalled, PendingNotOlder,
            NoSecurityDowngrade, IdleHasNoPackage, Downloading, OtaState
<1>1. ASSUME NEW p \in UpdatePackage, CheckForUpdate(p) PROVE OtaInv'
  <2>1. CASE TooOld(p)
    BY <1>1, <2>1 DEF CheckForUpdate
  <2>2. CASE ~TooOld(p)
    <3>1. /\ state' = "download_pending" /\ pending' = Retargeted(p)
          /\ UNCHANGED <<active_slot, slots>>
      BY <1>1, <2>2 DEF CheckForUpdate
    <3>2. pending' \in UpdatePackage /\ pending'.target_slot = Inactive'
      BY <3>1, RetargetedPackage DEF Inactive
    <3>3. pending'.security_version >= slots'[active_slot'].security_version
      <4>1. p.security_version \in Nat /\ slots[active_slot].security_version \in Nat
        BY SecurityNat DEF SlotInfo, UpdatePackage
      <4>2. p.security_version >= slots[active_slot].security_version
        BY <2>2, <4>1 DEF TooOld
      <4>3. pending'.security_version = p.security_version
        BY <3>1, RetargetedPackage
      <4> QED BY <3>1, <4>2, <4>3
    <3> QED BY <3>1, <3>2, <3>3, NoneAssumption
  <2> QED BY <2>1, <2>2
<1>2. CASE Fail
  BY <1>2 DEF Fail
<1>3. CASE Download \/ Verify \/ Stage
  BY <1>3 DEF Download, Verify, PendingVerifies, Stage, Inactive
<1>4. CASE Apply
  <2>1. pending \in UpdatePackage /\ pending.target_slot = Inactive
    BY <1>4 DEF Apply
  <2>2. slots' \in [Slot -> SlotInfo]
    BY <1>4, <2>1 DEF Apply, UpdatePackage, SlotInfo
  <2>3. slots'[active_slot] = slots[active_slot]
    BY <1>4, <2>1, TwoSlots DEF Apply
  <2>4. slots'[Inactive].security_version = pending.security_version
    BY <1>4, <2>1, TwoSlots DEF Apply
  <2> QED BY <1>4, <2>1, <2>2, <2>3, <2>4 DEF Apply, Inactive
<1>5. CASE SimulateReboot
  <2>1. active_slot' = Inactive /\ Inactive' = active_slot
    BY <1>5, TwoSlots DEF SimulateReboot, Inactive, Slot
  <2>2. slots[Inactive].security_version >= slots[active_slot].security_version
    BY <1>5 DEF SimulateReboot
  <2>3. NoSecurityDowngrade'
    BY <1>5, <2>1, <2>2 DEF SimulateReboot
  <2>4. DataOK' /\ PendingForOtherSlot' /\ OnlyVerifiedInstalled' /\ PendingNotOlder'
        /\ IdleHasNoPackage'
    BY <1>5, <2>1, TwoSlots DEF SimulateReboot
  <2> QED BY <2>3, <2>4
<1>6. CASE HealthCheckOk
  <2>1. slots' \in [Slot -> SlotInfo]
    BY <1>6 DEF HealthCheckOk, Passed, SlotInfo
  <2>2. \A s \in Slot : slots'[s].security_version = slots[s].security_version
    BY <1>6 DEF HealthCheckOk, Passed, SlotInfo
  <2> QED BY <1>6, <2>1, <2>2, TwoSlots DEF HealthCheckOk, Inactive
<1>7. CASE HealthCheckBad \/ RollBackFailed
  BY <1>7, OtaRollBack DEF HealthCheckBad, RollBackFailed
<1>8. CASE ResetToIdle
  BY <1>8 DEF ResetToIdle
<1>9. ASSUME NEW preserve \in BOOLEAN, FactoryReset(preserve) PROVE OtaInv'
  <2>1. slots' \in [Slot -> SlotInfo] /\ active_slot' \in Slot
    BY <1>9, VersionsAssumption DEF FactoryReset, FactoryVersion, SlotInfo, Slot
  <2> QED BY <1>9, <2>1 DEF FactoryReset
<1>10. CASE UNCHANGED vars
  BY <1>10 DEF vars, Inactive
<1> QED
  BY <1>1, <1>2, <1>3, <1>4, <1>5, <1>6, <1>7, <1>8, <1>9, <1>10 DEF Next, UpdateStep

\* The invariant holds of every behaviour.
LEMMA OtaCorrect == Spec => []OtaInv
  BY OtaInit, OtaStep, PTL DEF Spec

-----------------------------------------------------------------------------
\* No step writes the running slot, and the asserts of apply and
\* simulate_reboot hold.
THEOREM PendingForOtherSlotAlways == Spec => []PendingForOtherSlot
<1>1. OtaInv => PendingForOtherSlot
  BY DEF OtaInv
<1> QED BY <1>1, OtaCorrect, PTL

\* Nothing that does not verify is installed.
THEOREM OnlyVerifiedInstalledAlways == Spec => []OnlyVerifiedInstalled
<1>1. OtaInv => OnlyVerifiedInstalled
  BY DEF OtaInv
<1> QED BY <1>1, OtaCorrect, PTL

\* No update lowers the security version the device runs.
THEOREM NoSecurityDowngradeAlways == Spec => []NoSecurityDowngrade
<1>1. OtaInv => NoSecurityDowngrade
  BY DEF OtaInv
<1> QED BY <1>1, OtaCorrect, PTL

\* last_error is set exactly when the last update did not make it.
ErrorIffNotInstalled == last_error <=> state \in {"failed", "rolled_back"}
ErrorInv == last_error \in BOOLEAN /\ ErrorIffNotInstalled

\* Every step keeps it: the failing ones set it, reset and factory reset clear it.
LEMMA ErrorCorrect == Spec => []ErrorInv
<1>1. Init => ErrorInv
  BY DEF Init, ErrorInv, ErrorIffNotInstalled
<1>2. ErrorInv /\ [Next]_vars => ErrorInv'
  <2> SUFFICES ASSUME ErrorInv, [Next]_vars PROVE ErrorInv'
    OBVIOUS
  <2> USE DEF ErrorInv, ErrorIffNotInstalled
  <2>1. CASE \E p \in UpdatePackage : CheckForUpdate(p)
    BY <2>1 DEF CheckForUpdate
  <2>2. CASE Fail \/ HealthCheckBad \/ RollBackFailed
    BY <2>2 DEF Fail, HealthCheckBad, RollBackFailed, RollBack
  <2>3. CASE Download \/ Verify \/ Stage \/ Apply \/ SimulateReboot \/ HealthCheckOk
    BY <2>3 DEF Download, Verify, Stage, Apply, SimulateReboot, HealthCheckOk
  <2>4. CASE ResetToIdle \/ \E preserve \in BOOLEAN : FactoryReset(preserve)
    BY <2>4 DEF ResetToIdle, FactoryReset
  <2>5. CASE UNCHANGED vars
    BY <2>5 DEF vars
  <2> QED BY <2>1, <2>2, <2>3, <2>4, <2>5 DEF Next, UpdateStep
<1> QED BY <1>1, <1>2, PTL DEF Spec

\* Type correctness.
THEOREM TypeCorrect == Spec => []TypeOK
<1>1. OtaInv /\ ErrorInv => TypeOK
  BY DEF OtaInv, DataOK, ErrorInv, TypeOK
<1> QED BY <1>1, ErrorCorrect, OtaCorrect, PTL

-----------------------------------------------------------------------------
\* What runs boots; what is about to run does, too.
BootsInv ==
  /\ slots[active_slot].bootable
  /\ state = "reboot_pending" => slots[Inactive].bootable
  /\ state = "health_check" => slots[Inactive].bootable

\* The slot that a factory reset makes active boots.
ABoots == slots["a"].bootable

\* No call takes the bootable mark from a slot.
LEMMA BootableStays ==
  ASSUME OtaInv, [Next]_vars, NEW s \in Slot, slots[s].bootable
  PROVE  slots'[s].bootable
<1> USE DEF OtaInv, DataOK
<1>1. CASE Apply
  BY <1>1 DEF Apply
<1>2. CASE HealthCheckOk
  BY <1>2 DEF HealthCheckOk, Passed, SlotInfo
<1>3. CASE RollBack
  BY <1>3 DEF RollBack, SlotInfo
<1>4. ASSUME NEW preserve \in BOOLEAN, FactoryReset(preserve) PROVE slots'[s].bootable
  BY <1>4 DEF FactoryReset, SlotInfo
<1>5. CASE UNCHANGED slots
  BY <1>5
<1>6. \/ Apply \/ HealthCheckOk \/ RollBack \/ UNCHANGED slots
      \/ \E preserve \in BOOLEAN : FactoryReset(preserve)
  BY DEF Next, UpdateStep, CheckForUpdate, Fail, Download, Verify, Stage, SimulateReboot,
         HealthCheckBad, RollBackFailed, ResetToIdle, vars
<1> QED BY <1>1, <1>2, <1>3, <1>4, <1>5, <1>6

\* Every call keeps both: apply makes the slot it writes bootable before the reboot, a
\* rollback asks, and a factory reset goes to slot a.
LEMMA BootsStep ==
  ASSUME OtaInv, BootsInv, ABoots, [Next]_vars
  PROVE  BootsInv' /\ ABoots'
<1> USE DEF OtaInv, DataOK, BootsInv
<1>0. ABoots'
  BY BootableStays DEF ABoots, Slot
<1>1. CASE Apply
  <2>1. pending.target_slot = Inactive
    BY <1>1 DEF Apply, PendingForOtherSlot, Downloading
  <2>2. slots'[Inactive].bootable
    BY <1>1, <2>1, TwoSlots DEF Apply
  <2>3. slots'[active_slot].bootable
    BY BootableStays
  <2> QED BY <1>0, <1>1, <2>2, <2>3 DEF Apply, Inactive
<1>2. CASE SimulateReboot
  <2>1. active_slot' = Inactive /\ Inactive' = active_slot
    BY <1>2, TwoSlots DEF SimulateReboot, PendingForOtherSlot, Downloading, Inactive, Slot
  <2> QED BY <1>0, <1>2, <2>1 DEF SimulateReboot
<1>3. CASE HealthCheckOk
  <2>1. slots'[active_slot].bootable
    BY BootableStays
  <2> QED BY <1>0, <1>3, <2>1 DEF HealthCheckOk
<1>4. CASE RollBack
  <2>1. slots[Inactive].bootable => slots'[Inactive].bootable
    BY BootableStays, TwoSlots
  <2> QED BY <1>0, <1>4, <2>1 DEF RollBack, Boots
<1>5. ASSUME NEW preserve \in BOOLEAN, FactoryReset(preserve) PROVE BootsInv'
  <2>1. slots'[active_slot].bootable
    BY BootableStays
  <2>2. active_slot' \in {active_slot, "a"}
    BY <1>5 DEF FactoryReset
  <2> QED BY <1>0, <1>5, <2>1, <2>2 DEF FactoryReset, ABoots
<1>6. CASE \/ \E p \in UpdatePackage : CheckForUpdate(p)
           \/ Fail \/ Download \/ Verify \/ Stage \/ ResetToIdle
           \/ UNCHANGED vars
  BY <1>0, <1>6 DEF CheckForUpdate, Fail, Download, Verify, Stage, ResetToIdle, Inactive, vars
<1> QED
  BY <1>0, <1>1, <1>2, <1>3, <1>4, <1>5, <1>6
     DEF Next, UpdateStep, HealthCheckBad, RollBackFailed

\* The initial state: slot a runs, and boots.
LEMMA BootsInit == Init => BootsInv /\ ABoots
  BY DEF Init, BootsInv, ABoots, Slot

\* ota_state_machine.py, rollback, and factory_reset: whatever anyone calls, the slot
\* that runs is one that boots.
THEOREM RunningSlotBoots == Spec => [](slots[active_slot].bootable)
<1>1. BootsInv => slots[active_slot].bootable
  BY DEF BootsInv
<1> QED BY <1>1, BootsInit, OtaInit, BootsStep, OtaStep, PTL DEF Spec

\* The invariant of the machine with its record.
TrialInv == OtaInv /\ BootsInv /\ ABoots /\ WayBackIntact

\* From the check to the reboot no step touches the slot that runs; the reboot makes
\* it the other one.
LEMMA TrialStep == TrialInv /\ [NextTrial]_<<vars, before>> => TrialInv'
<1> SUFFICES ASSUME TrialInv, [NextTrial]_<<vars, before>> PROVE TrialInv'
  OBVIOUS
<1> USE DEF TrialInv
<1>1. [Next]_vars
  BY DEF NextTrial
<1>2. OtaInv' /\ BootsInv' /\ ABoots'
  BY <1>1, OtaStep, BootsStep
<1>3. state' = "health_check" => slots'[Inactive'].bootable
  BY <1>2 DEF BootsInv
<1> SUFFICES /\ state' \in Downloading => slots'[active_slot'] = before'
             /\ state' = "health_check" => slots'[Inactive'] = before'
  BY <1>2, <1>3 DEF WayBackIntact
<1> USE DEF OtaInv, DataOK, WayBackIntact, Downloading
<1>4. CASE UNCHANGED <<vars, before>>
  BY <1>4 DEF vars, Inactive
<1> SUFFICES ASSUME Next, before' = IF UpdateAccepted THEN slots[active_slot] ELSE before
             PROVE  /\ state' \in Downloading => slots'[active_slot'] = before'
                    /\ state' = "health_check" => slots'[Inactive'] = before'
  BY <1>4 DEF NextTrial
<1>5. ASSUME NEW p \in UpdatePackage, CheckForUpdate(p), state' \in Downloading
      PROVE  slots'[active_slot'] = before'
  BY <1>5 DEF CheckForUpdate, UpdateAccepted
<1>6. CASE Download \/ Verify \/ Stage
  BY <1>6 DEF Download, Verify, Stage, UpdateAccepted
<1>7. CASE Apply
  <2>1. pending.target_slot = Inactive
    BY <1>7 DEF Apply, PendingForOtherSlot
  <2>2. slots'[active_slot] = slots[active_slot]
    BY <1>7, <2>1, TwoSlots DEF Apply
  <2> QED BY <1>7, <2>2 DEF Apply, UpdateAccepted
<1>8. CASE SimulateReboot
  <2>1. Inactive' = active_slot
    BY <1>8, TwoSlots DEF SimulateReboot, PendingForOtherSlot, Inactive, Slot
  <2> QED BY <1>8, <2>1 DEF SimulateReboot, UpdateAccepted
<1>9. CASE \/ Fail \/ HealthCheckOk \/ HealthCheckBad \/ RollBackFailed \/ ResetToIdle
           \/ \E preserve \in BOOLEAN : FactoryReset(preserve)
  BY <1>9 DEF Fail, HealthCheckOk, HealthCheckBad, RollBackFailed, RollBack, ResetToIdle,
              FactoryReset
<1>10. ASSUME NEW p \in UpdatePackage, CheckForUpdate(p) PROVE state' # "health_check"
  BY <1>10 DEF CheckForUpdate
<1> QED BY <1>5, <1>6, <1>7, <1>8, <1>9, <1>10 DEF Next, UpdateStep

\* The invariant holds of every behaviour of the machine with its record.
LEMMA TrialCorrect == TrialSpec => []TrialInv
<1>1. InitTrial => TrialInv
  BY OtaInit, BootsInit DEF InitTrial, TrialInv, WayBackIntact, Init, Downloading
<1> QED BY <1>1, TrialStep, PTL DEF TrialSpec

\* ota_state_machine.py: while an update is under way, and while the new slot is on
\* trial, the slot it started from is as it was.
THEOREM WayBackAlways == TrialSpec => []WayBackIntact
<1>1. TrialInv => WayBackIntact
  BY DEF TrialInv
<1> QED BY <1>1, TrialCorrect, PTL

\* A trial ends committed, reset, or where it began, and never for want of a slot to
\* return to.
TrialEnds ==
  [][state = "health_check" /\ state' \in {"rolled_back", "failed"}
       => state' = "rolled_back" /\ slots'[active_slot'] = before]_<<vars, before>>

\* ota_state_machine.py, health_check and rollback: a failed health check brings back
\* the slot the update started from, as it was; "no_bootable_rollback_slot" does not
\* come of it.
THEOREM FailedTrialReturns == TrialSpec => TrialEnds
<1> DEFINE Ends == state = "health_check" /\ state' \in {"rolled_back", "failed"}
                     => state' = "rolled_back" /\ slots'[active_slot'] = before
<1>1. TrialInv /\ [NextTrial]_<<vars, before>> => [Ends]_<<vars, before>>
  <2> SUFFICES ASSUME TrialInv, Next, state = "health_check", state' \in {"rolled_back", "failed"}
               PROVE  state' = "rolled_back" /\ slots'[active_slot'] = before
    BY DEF NextTrial
  <2> USE DEF TrialInv, OtaInv, DataOK
  <2>1. RollBack
    BY DEF Next, UpdateStep, CheckForUpdate, Fail, Download, Verify, Stage, Apply,
           SimulateReboot, HealthCheckOk, HealthCheckBad, RollBackFailed, ResetToIdle,
           FactoryReset
  <2>2. slots[Inactive].bootable /\ slots[Inactive] = before
    BY DEF WayBackIntact
  <2>3. slots'[Inactive] = slots[Inactive] /\ active_slot' = Inactive /\ state' = "rolled_back"
    BY <2>1, <2>2, TwoSlots DEF RollBack, Boots
  <2> QED BY <2>2, <2>3
<1> QED BY <1>1, TrialCorrect, PTL DEF TrialSpec, TrialEnds

-----------------------------------------------------------------------------
\* The machine implements ImagePair: a step installs another spare, exchanges
\* the two, resets them, or leaves both.
THEOREM ImplementsPair == Spec => ImplementsImagePair
<1> DEFINE running == slots[active_slot].version
           spare == slots[Inactive].version
<1>1. Init => Pair!Init
  <2> SUFFICES ASSUME Init PROVE Pair!Init
    OBVIOUS
  <2>1. active_slot = "a" /\ Inactive = "b"
    BY DEF Init, Inactive
  <2>2. running = InitialA /\ spare = InitialB
    BY <2>1 DEF Init, Slot
  <2> QED BY <2>2, VersionsAssumption DEF Pair!Init, Pair!Factory
<1>2. OtaInv /\ [Next]_vars => [Pair!Next]_<<running, spare>>
  <2> SUFFICES ASSUME OtaInv, [Next]_vars
               PROVE  Pair!Next \/ UNCHANGED <<running, spare>>
    OBVIOUS
  <2> USE DEF OtaInv, DataOK
  <2>0. /\ running \in Versions /\ spare \in Versions /\ None \notin Versions
        /\ active_slot \in Slot
    BY TwoSlots, NoneAssumption DEF SlotInfo
  <2>1. CASE Apply
    <3>1. pending.target_slot = Inactive /\ pending.version \in Versions
      BY <2>1 DEF Apply, PendingForOtherSlot, Downloading, UpdatePackage
    <3>2. active_slot' = active_slot /\ Inactive' = Inactive
      BY <2>1 DEF Apply, Inactive
    <3>3. running' = running /\ spare' \in Versions
      BY <2>1, <3>1, <3>2, TwoSlots DEF Apply
    <3> QED BY <3>3 DEF Pair!Next, Pair!InstallSpare
  <2>2. CASE SimulateReboot
    <3>1. active_slot' = Inactive /\ Inactive' = active_slot /\ slots' = slots
      BY <2>2, TwoSlots DEF SimulateReboot, PendingForOtherSlot, Downloading, Inactive, Slot
    <3>2. running' = spare /\ spare' = running
      BY <3>1
    <3> QED BY <2>0, <3>2 DEF Pair!Next, Pair!Exchange
  <2>3. CASE HealthCheckOk
    <3>1. \A s \in Slot : slots'[s].version = slots[s].version
      BY <2>3 DEF HealthCheckOk, Passed, SlotInfo
    <3>2. active_slot' = active_slot /\ Inactive' = Inactive
      BY <2>3 DEF HealthCheckOk, Inactive
    <3> QED BY <2>0, <3>1, <3>2, TwoSlots
  <2>4. CASE RollBack
    <3>1. CASE Boots(Inactive)
      <4>1. \A s \in Slot : slots'[s].version = slots[s].version
        BY <2>4, <3>1 DEF RollBack, SlotInfo
      <4>2. active_slot' = Inactive /\ Inactive' = active_slot
        BY <2>4, <3>1, TwoSlots DEF RollBack, Inactive, Slot
      <4>3. running' = spare /\ spare' = running
        BY <2>0, <4>1, <4>2, TwoSlots
      <4> QED BY <2>0, <4>3 DEF Pair!Next, Pair!Exchange
    <3>2. CASE ~Boots(Inactive)
      BY <2>4, <3>2 DEF RollBack, Inactive
    <3> QED BY <3>1, <3>2
  <2>5. CASE FactoryReset(FALSE)
    <3>1. active_slot' = "a" /\ Inactive' = "b"
      BY <2>5 DEF FactoryReset, Inactive
    <3>2. \A s \in Slot : slots'[s].version = InitialA
      BY <2>5 DEF FactoryReset, FactoryVersion, SlotInfo
    <3>3. running' = InitialA /\ spare' = InitialA
      BY <3>1, <3>2 DEF Slot
    <3> QED BY <3>3, VersionsAssumption DEF Pair!Next, Pair!Reset, Pair!Factory
  <2>6. CASE \/ \E p \in UpdatePackage : CheckForUpdate(p)
             \/ Fail \/ Download \/ Verify \/ Stage \/ ResetToIdle \/ FactoryReset(TRUE)
             \/ UNCHANGED vars
    BY <2>6 DEF CheckForUpdate, Fail, Download, Verify, Stage, ResetToIdle, FactoryReset,
                Inactive, vars
  <2> HIDE DEF OtaInv, DataOK, running, spare
  <2> QED BY <2>1, <2>2, <2>3, <2>4, <2>5, <2>6
             DEF Next, UpdateStep, HealthCheckBad, RollBackFailed
<1> QED BY <1>1, <1>2, OtaCorrect, PTL DEF Spec, ImplementsImagePair, Pair!Spec
=============================================================================

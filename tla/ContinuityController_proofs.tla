--------------------- MODULE ContinuityController_proofs ---------------------
(***************************************************************************)
(* Theorems about ContinuityController, for every set of operations, paths *)
(* and bandwidths, and every threshold and bound.                          *)
(***************************************************************************)
EXTENDS ContinuityRecovery, SessionResume_proofs, TLAPS

-----------------------------------------------------------------------------
(* What the calls do to the state: each applies two or three events, and   *)
(* an event that is illegal is dropped.                                    *)

\* The states in which nothing is under way, and those a controller can be found in
\* between calls: a call that raised may have left it resuming or in a transfer.
Quiet == ContinuityState \ InProgress
Settled == Quiet \cup {"RESUMING", "MULTIPATH"}

\* An event that starts nothing leads to a quiet state, or nowhere.
LEMMA AfterQuiet ==
  ASSUME NEW s \in Settled,
         NEW event \in {"BANDWIDTH_DROP", "ENTER_OFFLINE", "BEGIN_RECOVERY", "RECOVERY_DONE",
                        "FAIL", "RESUME_DONE", "MULTIPATH_DONE", "TRANSITION_COMMIT",
                        "TRANSITION_ROLLBACK"}
  PROVE  After(s, event) \in Quiet \cup {s}
BY DEF After, LegalTransitions, ContinuityState, Settled, Quiet, InProgress

\* However a transition ends and whatever of its events is dropped, it ends quiet or
\* where it began.
LEMMA AfterTransition ==
  ASSUME NEW s \in Settled, NEW outcome \in Outcome
  PROVE  After(After(After(s, "BEGIN_TRANSITION"), "TRANSITION_PREP_OK"), OutcomeEvent(outcome))
           \in Quiet \cup {s}
<1>1. \/ After(s, "BEGIN_TRANSITION") = "TRANSITION_PREP"
      \/ After(s, "BEGIN_TRANSITION") = s
  BY DEF After, LegalTransitions, ContinuityState, Settled, Quiet, InProgress
<1>2. After("TRANSITION_PREP", "TRANSITION_PREP_OK") = "TRANSITIONING"
  BY DEF After, LegalTransitions
<1>3. After(s, "TRANSITION_PREP_OK") = s
  BY DEF After, LegalTransitions, ContinuityState, Settled, Quiet, InProgress
<1>4. OutcomeEvent(outcome) \in {"TRANSITION_COMMIT", "TRANSITION_ROLLBACK", "FAIL"}
  BY DEF OutcomeEvent
<1>5. After("TRANSITIONING", OutcomeEvent(outcome)) \in {"HEALTHY", "RECOVERING", "FAILED"}
  BY <1>4 DEF After, LegalTransitions
<1>6. After(s, OutcomeEvent(outcome)) \in Quiet \cup {s}
  BY <1>4, AfterQuiet
<1> QED  BY <1>1, <1>2, <1>3, <1>5, <1>6 DEF Quiet, ContinuityState, InProgress

\* A multipath transfer that returns ends quiet or where it began.
LEMMA AfterMultipath ==
  ASSUME NEW s \in Settled, NEW ok \in BOOLEAN
  PROVE  After(After(s, "BEGIN_MULTIPATH"), MultipathEvent(ok)) \in Quiet \cup {s}
<1>1. After(s, "BEGIN_MULTIPATH") \in {"MULTIPATH", s}
  BY DEF After, LegalTransitions, ContinuityState, Settled, Quiet, InProgress
<1>2. MultipathEvent(ok) \in {"MULTIPATH_DONE", "FAIL"}
  BY DEF MultipathEvent
<1>3. After("MULTIPATH", MultipathEvent(ok)) \in {"HEALTHY", "FAILED"}
  BY <1>2 DEF After, LegalTransitions
<1>4. After(s, MultipathEvent(ok)) \in Quiet \cup {s}
  BY <1>2, AfterQuiet
<1> QED  BY <1>1, <1>3, <1>4 DEF Quiet, ContinuityState, InProgress

\* A RESUME that returns ends quiet or where it began, and never resuming.
LEMMA AfterResume ==
  ASSUME NEW s \in Settled, NEW ok \in BOOLEAN
  PROVE  After(After(s, "BEGIN_RESUME"), ResumeEvent(ok)) \in (Quiet \cup {s}) \ {"RESUMING"}
<1>1. ResumeEvent(ok) \in {"RESUME_DONE", "FAIL"}
  BY DEF ResumeEvent
<1>2. After("RESUMING", ResumeEvent(ok)) \in {"HEALTHY", "FAILED"}
  BY <1>1 DEF After, LegalTransitions
<1>3. CASE After(s, "BEGIN_RESUME") = "RESUMING"
  BY <1>2, <1>3 DEF Quiet, ContinuityState, InProgress
<1>4. CASE After(s, "BEGIN_RESUME") # "RESUMING"
  <2>1. After(s, "BEGIN_RESUME") = s /\ s # "RESUMING"
    BY <1>4 DEF After, LegalTransitions, ContinuityState, Settled, Quiet, InProgress
  <2>2. After(s, ResumeEvent(ok)) \in Quiet \cup {s}
    BY <1>1, AfterQuiet
  <2> QED  BY <2>1, <2>2 DEF Quiet, InProgress
<1> QED  BY <1>3, <1>4

\* A transfer or a resume that raises is left where it was begun, or nowhere new.
LEMMA AfterRaise ==
  ASSUME NEW s \in Settled
  PROVE  /\ After(s, "BEGIN_MULTIPATH") \in {s, "MULTIPATH"}
         /\ After(s, "BEGIN_RESUME") \in {s, "RESUMING"}
BY DEF After, LegalTransitions, ContinuityState, Settled, Quiet, InProgress

\* What a step does to the state: only a call that raised leaves something begun.
LEMMA StateStep ==
  ASSUME state \in Settled, [Next]_vars
  PROVE  \/ state' \in Quiet \cup {state}
         \/ raised' = TRUE /\ state' \in {"RESUMING", "MULTIPATH"}
<1> DEFINE Ends == state' \in Quiet \cup {state}
<1>1. ASSUME NEW target \in Paths, NEW outcome \in Outcome, Transition(target, outcome) PROVE Ends
  BY <1>1, AfterTransition DEF Transition
<1>2. ASSUME NEW measured \in Kbps, Adapt(measured) PROVE Ends
  BY <1>2, AfterQuiet DEF Adapt
<1>3. CASE CacheOnly \/ FailService
  BY <1>3, AfterQuiet DEF CacheOnly, FailService
<1>4. CASE RecoverService
  <2>1. After(state, "BEGIN_RECOVERY") \in Quiet \cup {state}  BY AfterQuiet
  <2>2. state' \in Quiet \cup {After(state, "BEGIN_RECOVERY")}
    BY <1>4, <2>1, AfterQuiet DEF RecoverService, Settled
  <2> QED  BY <2>1, <2>2
<1>5. ASSUME NEW ok \in BOOLEAN, Multipath(ok) PROVE Ends
  BY <1>5, AfterMultipath DEF Multipath
<1>6. ASSUME NEW right_token \in BOOLEAN, Resume(right_token) PROVE Ends
  <2>1. PICK ok \in BOOLEAN : state' = After(After(state, "BEGIN_RESUME"), ResumeEvent(ok))
    BY <1>6 DEF Resume, Valid, ResumeEvent
  <2> QED  BY <2>1, AfterResume
<1>7. CASE MultipathRaises
  BY <1>7, AfterRaise DEF MultipathRaises, Raises
<1>8. CASE ResumeRaises
  BY <1>8, AfterRaise DEF ResumeRaises, Raises
<1>9. CASE Restart
  BY <1>9 DEF Restart, Quiet, ContinuityState, InProgress
<1>10. CASE state' = state
  BY <1>10
<1>11. \/ state' = state \/ CacheOnly \/ FailService \/ RecoverService
       \/ MultipathRaises \/ ResumeRaises \/ Restart
       \/ \E target \in Paths, outcome \in Outcome : Transition(target, outcome)
       \/ \E measured \in Kbps : Adapt(measured)
       \/ \E ok \in BOOLEAN : Multipath(ok)
       \/ \E right_token \in BOOLEAN : Resume(right_token)
  BY DEF Next, OtherStep, KeepService, CheckpointSession, SessionAltered, SessionGarbled,
         TimePasses, vars
<1> QED
  BY <1>1, <1>2, <1>3, <1>4, <1>5, <1>6, <1>7, <1>8, <1>9, <1>10, <1>11

-----------------------------------------------------------------------------
(* What the calls do to the checkpoint.                                    *)

\* RESUME keeps what the session held; one that was exactly-once remains so.
LEMMA ResumeSession ==
  ASSUME disk \in Session, NEW right_token \in BOOLEAN, Resume(right_token)
  PROVE  /\ disk' \in Session
         /\ (disk').genuine = disk.genuine
         /\ Keeps(disk, disk')
         /\ Once(disk) => Once(disk')
<1>1. CASE Valid(disk, now, right_token) /\ ~Replays(disk)
  <2>1. disk' = Signed(Resumed(disk))  BY <1>1 DEF Resume
  <2> DEFINE t == Resumed(disk)
  <2>2. /\ t \in Session /\ (Once(disk) => Once(t)) /\ t.genuine = disk.genuine
        /\ Keeps(disk, t)
    BY ResumedSession
  <2> HIDE DEF t
  <2>3. /\ Signed(t) \in Session /\ (Once(t) => Once(Signed(t)))
        /\ Signed(t).genuine = t.genuine /\ Keeps(t, Signed(t))
    BY <2>2, SignedSession
  <2>4. Keeps(disk, Signed(t))  BY <2>2, <2>3, KeepsTransitive
  <2> QED  BY <2>1, <2>2, <2>3, <2>4 DEF t
<1>2. CASE Valid(disk, now, right_token) /\ Replays(disk)
  <2>1. disk' \in PartlyResumed(disk)  BY <1>2 DEF Resume
  <2>2. ~Once(disk)  BY <1>2 DEF Once
  <2> QED  BY <2>1, <2>2, PartlyResumedSession
<1>3. CASE ~Valid(disk, now, right_token)
  <2>1. disk' = Signed(disk)  BY <1>3 DEF Resume
  <2> QED  BY <2>1, SignedSession
<1> QED  BY <1>1, <1>2, <1>3

\* checkpoint_session writes a session, exactly-once if it is genuine, however old the
\* one the caller passed.
LEMMA CheckpointedSession ==
  ASSUME now \in Nat, CheckpointSession
  PROVE  disk' \in Session /\ ((disk').genuine => Once(disk'))
<1>1. CASE disk' = Fresh(now)
  BY <1>1, FreshSession
<1>2. ASSUME NEW s \in Held, disk' = Signed(s)
      PROVE  disk' \in Session /\ ((disk').genuine => Once(disk'))
  <2>1. s \in Session
    <3>1. s.expires_at \in Nat  BY LifetimeAssumption DEF Held
    <3>2. s.committed \in [Ops -> Nat]  BY DEF Held
    <3>3. s.position \in Nat /\ s.pending \in SUBSET Ops  BY DEF Held
    <3>4. s = [pending |-> s.pending, committed |-> s.committed, position |-> s.position,
               expires_at |-> s.expires_at, resumed |-> s.resumed, signed |-> s.signed,
               genuine |-> s.genuine]
          /\ s.resumed \in BOOLEAN /\ s.signed \in BOOLEAN /\ s.genuine \in BOOLEAN
      BY DEF Held
    <3> QED  BY <3>1, <3>2, <3>3, <3>4 DEF Session
  <2>2. s.genuine => Once(s)  BY DEF Held, Once
  <2> QED  BY <1>2, <2>1, <2>2, SignedSession
<1> QED  BY <1>1, <1>2 DEF CheckpointSession

-----------------------------------------------------------------------------
ControllerInv == TypeOK /\ state \in Settled /\ ExactlyOnce

\* What a step leaves in the checkpoint.
DiskOK == disk \in Session \cup {None, Unreadable} /\ ExactlyOnce

\* Every step keeps the checkpoint exactly-once.
LEMMA DiskStep ==
  ASSUME DiskOK, now \in Nat, [Next]_vars
  PROVE  DiskOK'
<1> USE NoneAssumption
<1>1. ASSUME disk' \in Session, (disk').genuine => Once(disk') PROVE DiskOK'
  BY <1>1 DEF DiskOK, ExactlyOnce
<1>2. ASSUME NEW right_token \in BOOLEAN, Resume(right_token) PROVE DiskOK'
  <2>1. disk \in Session  BY <1>2 DEF Resume
  <2>2. disk.genuine => Once(disk)  BY <2>1 DEF DiskOK, ExactlyOnce
  <2> QED  BY <1>1, <1>2, <2>1, <2>2, ResumeSession
<1>3. CASE CheckpointSession
  BY <1>1, <1>3, CheckpointedSession
<1>4. CASE SessionAltered
  <2>1. disk \in Session /\ disk' \in Altered(disk, 0 .. MaxPosition)
    BY <1>4 DEF SessionAltered, AlterFile
  <2>2. disk' \in Session /\ (disk').genuine = FALSE
    BY <2>1, AlteredSession, 0 .. MaxPosition \in SUBSET Nat
  <2> QED  BY <1>1, <2>2
<1>5. CASE SessionGarbled
  BY <1>5 DEF SessionGarbled, DiskOK, ExactlyOnce
<1>6. CASE disk' = disk
  BY <1>6 DEF DiskOK, ExactlyOnce
<1>7. \/ disk' = disk \/ CheckpointSession \/ SessionAltered \/ SessionGarbled
      \/ \E right_token \in BOOLEAN : Resume(right_token)
  BY DEF Next, OtherStep, KeepService, Transition, Adapt, CacheOnly, RecoverService, FailService,
         Multipath, MultipathRaises, ResumeRaises, Raises, Restart, TimePasses, Tick, vars
<1> QED  BY <1>2, <1>3, <1>4, <1>5, <1>6, <1>7

\* What is neither state nor checkpoint.
RestOK ==
  /\ active_bearer \in Paths \cup {None}
  /\ adaptation_mode \in AdaptationMode /\ mode \in AdaptationMode
  /\ samples \in 0 .. Dwell
  /\ now \in Nat

\* Every step keeps it well typed.
LEMMA RestStep ==
  ASSUME RestOK, [Next]_vars
  PROVE  RestOK'
<1> USE DEF RestOK
<1>0. Dwell \in Nat \ {0}  BY PolicyAssumption
<1>1. ASSUME NEW target \in Paths, NEW outcome \in Outcome, Transition(target, outcome)
      PROVE  RestOK'
  BY <1>1 DEF Transition, adaptation
<1>2. ASSUME NEW measured \in Kbps, Adapt(measured) PROVE RestOK'
  <2>1. mode' \in AdaptationMode
    BY <1>2 DEF Adapt, NextMode, AdaptationMode
  <2>2. samples' \in 0 .. Dwell
    BY <1>0, <1>2 DEF Adapt
  <2> QED  BY <1>2, <2>1, <2>2 DEF Adapt
<1>3. ASSUME NEW ok \in BOOLEAN, Multipath(ok) PROVE RestOK'
  BY <1>3 DEF Multipath, adaptation
<1>4. ASSUME NEW right_token \in BOOLEAN, Resume(right_token) PROVE RestOK'
  BY <1>4 DEF Resume, adaptation
<1>5. CASE RecoverService \/ Restart
  BY <1>0, <1>5 DEF RecoverService, Restart, AdaptationMode
<1>6. CASE TimePasses
  BY <1>6 DEF TimePasses, Tick, adaptation
<1>7. CASE \/ KeepService \/ CacheOnly \/ FailService \/ MultipathRaises \/ ResumeRaises
           \/ CheckpointSession \/ SessionAltered \/ SessionGarbled \/ UNCHANGED vars
  BY <1>7
     DEF KeepService, CacheOnly, FailService, MultipathRaises, ResumeRaises, Raises,
         CheckpointSession, SessionAltered, AlterFile, SessionGarbled, adaptation, vars
<1> QED
  BY <1>1, <1>2, <1>3, <1>4, <1>5, <1>6, <1>7 DEF Next, OtherStep

\* raised is set by the calls that end, and kept by what is no call.
LEMMA RaisedStep ==
  ASSUME raised \in BOOLEAN, [Next]_vars
  PROVE  raised' \in BOOLEAN
<1>1. raised' = raised \/ raised' = TRUE \/ raised' = FALSE
  BY DEF Next, OtherStep, KeepService, Transition, Adapt, CacheOnly, RecoverService, FailService,
         Multipath, MultipathRaises, Resume, ResumeRaises, Raises, Returns, CheckpointSession,
         Restart, SessionAltered, SessionGarbled, TimePasses, vars
<1> QED  BY <1>1

\* The invariant in its parts.
LEMMA InvParts == ControllerInv <=> RestOK /\ DiskOK /\ state \in Settled /\ raised \in BOOLEAN
<1>1. Settled \subseteq ContinuityState
  BY DEF Settled, Quiet, ContinuityState
<1> QED  BY <1>1 DEF ControllerInv, TypeOK, RestOK, DiskOK

\* A new controller satisfies the invariant.
LEMMA ControllerInitInv == Init => ControllerInv
<1> SUFFICES ASSUME Init PROVE ControllerInv
  OBVIOUS
<1>1. state \in Settled
  BY DEF Init, Settled, Quiet, ContinuityState, InProgress
<1>2. disk \notin Session
  BY NoneAssumption DEF Init
<1>3. samples \in 0 .. Dwell
  BY PolicyAssumption DEF Init
<1>4. RestOK
  BY <1>3 DEF Init, RestOK, AdaptationMode
<1>5. DiskOK
  BY <1>2 DEF Init, DiskOK, ExactlyOnce
<1> QED  BY <1>1, <1>4, <1>5, InvParts DEF Init

\* Every call, restart and change of the file keeps the invariant.
LEMMA ControllerNextInv == ControllerInv /\ [Next]_vars => ControllerInv'
<1> SUFFICES ASSUME ControllerInv, [Next]_vars PROVE ControllerInv'
  OBVIOUS
<1>1. RestOK /\ DiskOK /\ state \in Settled /\ raised \in BOOLEAN
  BY InvParts
<1>2. RestOK'  BY <1>1, RestStep
<1>3. DiskOK'  BY <1>1, DiskStep DEF RestOK
<1>4. state' \in Settled  BY <1>1, StateStep DEF Settled
<1>5. raised' \in BOOLEAN  BY <1>1, RaisedStep
<1>6. Settled \subseteq ContinuityState
  BY DEF Settled, Quiet, ContinuityState
<1> QED  BY <1>2, <1>3, <1>4, <1>5, <1>6 DEF ControllerInv, TypeOK, RestOK, DiskOK

\* The invariant holds in every reachable state.
LEMMA ControllerInvariance == Spec => []ControllerInv
BY ControllerInitInv, ControllerNextInv, PTL DEF Spec

-----------------------------------------------------------------------------
\* controller.py, execute: the variables are well typed.
THEOREM ControllerTypeCorrect == Spec => []TypeOK
BY ControllerInvariance, PTL DEF ControllerInv

\* controller.py, execute: with illegal events dropped and with calls that raise, only
\* a call that raises leaves the controller in the middle of something, and that is
\* never a transition.
THEOREM OnlyRaisesInterrupt == Spec => ReturnsSettled
<1> DEFINE Ends == state' \in InProgress /\ state' # state
                     => raised' /\ state' \in {"RESUMING", "MULTIPATH"}
<1>1. ControllerInv /\ [Next]_vars => [Ends]_vars
  <2> SUFFICES ASSUME ControllerInv, [Next]_vars, state' \in InProgress, state' # state
               PROVE  raised' = TRUE /\ state' \in {"RESUMING", "MULTIPATH"}
    OBVIOUS
  <2> QED  BY StateStep DEF ControllerInv, Quiet
<1> QED  BY <1>1, ControllerInvariance, PTL DEF Spec, ReturnsSettled

\* controller.py, _do_transition: the controller is never found in a transition.
THEOREM NeverInTransition == Spec => [](state \notin {"TRANSITION_PREP", "TRANSITIONING"})
<1>1. ControllerInv => state \notin {"TRANSITION_PREP", "TRANSITIONING"}
  BY DEF ControllerInv, Settled, Quiet, InProgress
<1> QED  BY <1>1, ControllerInvariance, PTL

\* controller.py, _do_resume and checkpoint_session: no genuine checkpoint has an
\* operation committed twice or waiting to be.
THEOREM ControllerCommittedOnce == Spec => []ExactlyOnce
BY ControllerInvariance, PTL DEF ControllerInv

\* controller.py, _do_resume: RESUME forgets nothing that was in the checkpoint.
THEOREM ResumeNeverForgets == Spec => ResumeForgetsNothing
<1> DEFINE Kept == \A right_token \in BOOLEAN : Resume(right_token) => Keeps(disk, disk')
<1>1. ControllerInv /\ [Next]_vars => [Kept]_vars
  <2> SUFFICES ASSUME NEW right_token \in BOOLEAN, Resume(right_token)
               PROVE  Keeps(disk, disk')
    OBVIOUS
  <2>1. disk \in Session  BY DEF Resume
  <2> QED  BY <2>1, ResumeSession
<1> QED  BY <1>1, ControllerInvariance, PTL DEF Spec, ResumeForgetsNothing

-----------------------------------------------------------------------------
\* A step of the driven controller is a step of the controller or leaves it alone.
LEMMA MeasuredStep ==
  ASSUME kbps \in Kbps, [NextMeasured]_<<vars, kbps>>
  PROVE  [Next]_vars /\ kbps' \in Kbps
<1>1. CASE Measure  BY <1>1 DEF Measure
<1>2. CASE Report  BY <1>2 DEF Report, Next
<1>3. ASSUME NEW target \in Paths \cup {None}, IngestAndDecide(target)
      PROVE  [Next]_vars /\ kbps' = kbps
  <2>1. kbps' = kbps  BY <1>3 DEF IngestAndDecide
  <2>2. CASE target \notin {None, active_bearer} /\ \E outcome \in Outcome : Transition(target, outcome)
    BY <2>1, <2>2 DEF Next, OtherStep
  <2>3. CASE Adapt(kbps)  BY <2>1, <2>3 DEF Next
  <2>4. CASE KeepService  BY <2>1, <2>4 DEF Next, OtherStep
  <2> QED  BY <1>3, <2>2, <2>3, <2>4 DEF IngestAndDecide
<1>4. CASE OtherStep /\ UNCHANGED kbps  BY <1>4 DEF Next
<1>5. CASE UNCHANGED <<vars, kbps>>  BY <1>5
<1> QED  BY <1>1, <1>2, <1>3, <1>4, <1>5 DEF NextMeasured

\* controller.py: what ingest_and_decide and a caller that reports a bandwidth do to
\* the controller is what its calls do in some order, so that all of the above holds
\* of it.
THEOREM MeasuredImplementsController == MeasuredSpec => Spec
<1>1. InitMeasured => Init /\ kbps \in Kbps  BY DEF InitMeasured
<1>2. kbps \in Kbps /\ [NextMeasured]_<<vars, kbps>> => [Next]_vars /\ (kbps \in Kbps)'
  BY MeasuredStep
<1> QED  BY <1>1, <1>2, PTL DEF MeasuredSpec, Spec
=============================================================================

------------------------ MODULE ContinuityController ------------------------
(***************************************************************************)
(* The ContinuityController (service_continuity_execution/controller.py)   *)
(* with its state machine (state_machine.py), bearer transitions           *)
(* (transition.py), bandwidth adaptation (adaptation.py) and the session   *)
(* checkpoint (resume.py).  One action is one call of execute, or of       *)
(* checkpoint_session.                                                     *)
(*                                                                         *)
(* An event that is illegal in the present state is ignored, and the call  *)
(* goes on: state follows the calls only as far as the table lets it.  A   *)
(* call that raises stops where it is.                                     *)
(***************************************************************************)
EXTENDS SessionFile

CONSTANTS
  Paths,        \* bearer paths
  Kbps,         \* bandwidths a caller observes
  Degrade,      \* degrade_kbps, 200
  Recover,      \* recover_kbps, 350
  Minimum,      \* minimum_kbps, 50
  Dwell         \* min_dwell_samples, 3

ASSUME PolicyAssumption ==
  /\ Kbps \subseteq Nat /\ {Degrade, Recover, Minimum} \subseteq Nat
  /\ Minimum < Degrade /\ Degrade < Recover /\ Dwell \in Nat \ {0}
ASSUME BearerAssumption == None \notin Paths

VARIABLES
  state,            \* ContinuityState
  active_bearer,    \* a path, or None
  adaptation_mode,  \* the controller's copy of the mode
  mode,             \* adaptation.mode
  samples,          \* adaptation.samples_in_mode, counted up to Dwell
  raised            \* whether the last call raised an exception

vars == <<state, active_bearer, adaptation_mode, mode, samples, raised, disk, now>>
adaptation == <<adaptation_mode, mode, samples>>

ContinuityState == {"HEALTHY", "DEGRADING", "TRANSITION_PREP", "TRANSITIONING", "RESUMING",
                    "MULTIPATH", "REDUCED_SERVICE", "OFFLINE_CAPABLE", "RECOVERING", "FAILED"}

\* OFFLINE and EMERGENCY_MINIMAL need arguments the controller never passes.
AdaptationMode == {"FULL", "REDUCED", "MINIMUM_USEFUL"}

LegalTransitions ==
  [HEALTHY |->
     [BANDWIDTH_DROP |-> "DEGRADING", BEGIN_TRANSITION |-> "TRANSITION_PREP",
      BEGIN_MULTIPATH |-> "MULTIPATH", ENTER_OFFLINE |-> "OFFLINE_CAPABLE", FAIL |-> "FAILED"],
   DEGRADING |->
     [BANDWIDTH_DROP |-> "REDUCED_SERVICE", BANDWIDTH_RECOVER |-> "HEALTHY",
      BEGIN_TRANSITION |-> "TRANSITION_PREP", ENTER_OFFLINE |-> "OFFLINE_CAPABLE",
      FAIL |-> "FAILED"],
   TRANSITION_PREP |->
     [TRANSITION_PREP_OK |-> "TRANSITIONING", TRANSITION_ROLLBACK |-> "RECOVERING",
      FAIL |-> "FAILED"],
   TRANSITIONING |->
     [TRANSITION_COMMIT |-> "HEALTHY", TRANSITION_ROLLBACK |-> "RECOVERING", FAIL |-> "FAILED"],
   RESUMING |-> [RESUME_DONE |-> "HEALTHY", FAIL |-> "FAILED"],
   MULTIPATH |->
     [MULTIPATH_DONE |-> "HEALTHY", BANDWIDTH_DROP |-> "REDUCED_SERVICE", FAIL |-> "FAILED"],
   REDUCED_SERVICE |->
     [BANDWIDTH_RECOVER |-> "RECOVERING", BEGIN_RESUME |-> "RESUMING",
      ENTER_OFFLINE |-> "OFFLINE_CAPABLE", FAIL |-> "FAILED"],
   OFFLINE_CAPABLE |->
     [BEGIN_RESUME |-> "RESUMING", BEGIN_RECOVERY |-> "RECOVERING", FAIL |-> "FAILED"],
   RECOVERING |-> [RECOVERY_DONE |-> "HEALTHY", FAIL |-> "FAILED"],
   FAILED |-> [BEGIN_RECOVERY |-> "RECOVERING", BEGIN_RESUME |-> "RESUMING"]]

\* _set_state
After(s, event) ==
  IF event \in DOMAIN LegalTransitions[s] THEN LegalTransitions[s][event] ELSE s

Init ==
  /\ state = "HEALTHY"
  /\ active_bearer = None
  /\ adaptation_mode = "FULL" /\ mode = "FULL" /\ samples = 0
  /\ raised = FALSE
  /\ disk = None
  /\ now = 0

-----------------------------------------------------------------------------
\* How a call ends: it returns, or it raises and does nothing further.
Returns == raised' = FALSE
Raises == raised' = TRUE /\ UNCHANGED <<active_bearer, adaptation, disk, now>>

\* How execute_transition ends: an unavailable or untrusted target fails before
\* anything is switched, a failed activation or commit is rolled back.
Outcome == {"COMMITTED", "ROLLED_BACK", "FAILED"}

\* Variant with a bug: a rolled back transition is not told to the state machine.
OutcomeIfCommitted(outcome) == IF outcome = "COMMITTED" THEN "TRANSITION_COMMIT" ELSE "KEEP"

OutcomeEvent(outcome) ==
  CASE outcome = "COMMITTED" -> "TRANSITION_COMMIT"
    [] outcome = "ROLLED_BACK" -> "TRANSITION_ROLLBACK"
    [] OTHER -> "FAIL"

KeepService == Returns /\ UNCHANGED <<state, active_bearer, adaptation, disk, now>>

\* TRANSITION
Transition(target, outcome) ==
  /\ Returns
  /\ state' = After(After(After(state, "BEGIN_TRANSITION"), "TRANSITION_PREP_OK"),
                    OutcomeEvent(outcome))
  /\ active_bearer' = IF outcome = "COMMITTED" THEN target ELSE active_bearer
  /\ UNCHANGED <<adaptation, disk, now>>

\* Variant with a bug: from MINIMUM_USEFUL there is no way back.
NextModeOneWay(kbps) ==
  CASE mode = "FULL" /\ kbps < Degrade -> "REDUCED"
    [] mode = "REDUCED" /\ kbps < Minimum -> "MINIMUM_USEFUL"
    [] mode = "REDUCED" /\ kbps >= Recover -> "FULL"
    [] OTHER -> mode

NextMode(kbps) ==
  CASE mode = "FULL" /\ kbps < Degrade -> "REDUCED"
    [] mode = "REDUCED" /\ kbps < Minimum -> "MINIMUM_USEFUL"
    [] mode = "REDUCED" /\ kbps >= Recover -> "FULL"
    [] mode = "MINIMUM_USEFUL" /\ kbps >= Degrade -> "REDUCED"
    [] OTHER -> mode

\* ADAPT: observe, which changes the mode after Dwell samples at the earliest.
Adapt(kbps) ==
  /\ Returns
  /\ mode' = IF samples + 1 >= Dwell THEN NextMode(kbps) ELSE mode
  /\ samples' = IF mode' # mode THEN 0 ELSE IF samples < Dwell THEN samples + 1 ELSE samples
  /\ adaptation_mode' = mode'
  /\ state' = IF mode' = "FULL" THEN state ELSE After(state, "BANDWIDTH_DROP")
  /\ UNCHANGED <<active_bearer, disk, now>>

CacheOnly ==
  /\ Returns
  /\ state' = After(state, "ENTER_OFFLINE")
  /\ UNCHANGED <<active_bearer, adaptation, disk, now>>

\* RECOVER leaves adaptation.mode as it is.
RecoverService ==
  /\ Returns
  /\ state' = After(After(state, "BEGIN_RECOVERY"), "RECOVERY_DONE")
  /\ adaptation_mode' = "FULL"
  /\ UNCHANGED <<active_bearer, mode, samples, disk, now>>

FailService ==
  /\ Returns
  /\ state' = After(state, "FAIL")
  /\ UNCHANGED <<active_bearer, adaptation, disk, now>>

MultipathEvent(ok) == IF ok THEN "MULTIPATH_DONE" ELSE "FAIL"

\* MULTIPATH
Multipath(ok) ==
  /\ Returns
  /\ state' = After(After(state, "BEGIN_MULTIPATH"), MultipathEvent(ok))
  /\ UNCHANGED <<active_bearer, adaptation, disk, now>>

\* MULTIPATH over no paths: the transfer divides by their number.
MultipathRaises == Raises /\ state' = After(state, "BEGIN_MULTIPATH")

ResumeEvent(ok) == IF ok THEN "RESUME_DONE" ELSE "FAIL"

\* RESUME.  The session is checkpointed, and so signed, whether it was resumed,
\* refused, or stopped at a replay.
Resume(right_token) ==
  LET ok == Valid(disk, now, right_token) /\ ~Replays(disk)
  IN  /\ Returns
      /\ disk \in Session
      /\ \/ ok /\ disk' = Signed(Resumed(disk))
         \/ Valid(disk, now, right_token) /\ ~ok /\ disk' \in PartlyResumed(disk)
         \/ ~Valid(disk, now, right_token) /\ disk' = Signed(disk)
      /\ state' = After(After(state, "BEGIN_RESUME"), ResumeEvent(ok))
      /\ UNCHANGED <<active_bearer, adaptation, now>>

\* RESUME of a checkpoint that is missing, is not JSON, or cannot be written again.
ResumeRaises == Raises /\ state' = After(state, "BEGIN_RESUME")

\* The sessions a caller may hold, of any age: made by the functions of resume.py,
\* or read from an altered file.
Held ==
  {s \in [pending : SUBSET Ops, committed : [Ops -> {0, 1}], position : 0 .. MaxPosition,
          expires_at : {t + Lifetime : t \in 0 .. now}, resumed : BOOLEAN,
          signed : {FALSE}, genuine : BOOLEAN] : s.genuine => ~Replays(s)}

\* checkpoint_session: of a new session, or of whatever the caller passes.
CheckpointSession ==
  /\ \/ disk' = Fresh(now)
     \/ \E s \in Held : disk' = Signed(s)
  /\ UNCHANGED <<state, active_bearer, adaptation, raised, now>>

-----------------------------------------------------------------------------
\* A new controller process on the same directory.
Restart ==
  /\ state' = "HEALTHY"
  /\ active_bearer' = None
  /\ adaptation_mode' = "FULL" /\ mode' = "FULL" /\ samples' = 0
  /\ raised' = FALSE
  /\ UNCHANGED <<disk, now>>

\* The checkpoint is session.json of the controller's directory.
SessionAltered == AlterFile /\ UNCHANGED <<state, active_bearer, adaptation, raised>>

\* What is there is no longer JSON.
SessionGarbled ==
  /\ disk \in Session
  /\ disk' = Unreadable
  /\ UNCHANGED <<state, active_bearer, adaptation, raised, now>>

TimePasses == Tick /\ UNCHANGED <<state, active_bearer, adaptation, raised>>

\* All but ADAPT.
OtherStep ==
  \/ KeepService
  \/ \E target \in Paths, outcome \in Outcome : Transition(target, outcome)
  \/ CacheOnly
  \/ RecoverService
  \/ FailService
  \/ \E ok \in BOOLEAN : Multipath(ok)
  \/ MultipathRaises
  \/ \E right_token \in BOOLEAN : Resume(right_token)
  \/ ResumeRaises
  \/ CheckpointSession
  \/ Restart
  \/ SessionAltered
  \/ SessionGarbled
  \/ TimePasses

Next == OtherStep \/ \E kbps \in Kbps : Adapt(kbps)

Spec == Init /\ [][Next]_vars

-----------------------------------------------------------------------------
\* Type invariant.
TypeOK ==
  /\ state \in ContinuityState
  /\ active_bearer \in Paths \cup {None}
  /\ adaptation_mode \in AdaptationMode /\ mode \in AdaptationMode
  /\ samples \in 0 .. Dwell
  /\ raised \in BOOLEAN
  /\ disk \in Session \cup {None, Unreadable}
  /\ now \in Nat

\* What only a call under way should show.
InProgress == {"TRANSITION_PREP", "TRANSITIONING", "RESUMING", "MULTIPATH"}

\* Although illegal events are dropped one by one, a call that returns never leaves
\* the controller in the middle of something: only one that raises does, which
\* a transition never is.
ReturnsSettled ==
  [][state' \in InProgress /\ state' # state
       => raised' /\ state' \in {"RESUMING", "MULTIPATH"}]_vars

\* A checkpoint the program wrote never has an operation committed twice or
\* waiting to be committed again, whatever was resumed, refused or restarted and
\* however old the sessions were that callers checkpointed.
ExactlyOnce == disk \in Session /\ disk.genuine => Once(disk)

\* RESUME forgets nothing, whether the session was resumed, refused or stopped at a
\* replay: what is checkpointed then holds everything the file held.
ResumeForgetsNothing ==
  [][\A right_token \in BOOLEAN : Resume(right_token) => Keeps(disk, disk')]_vars
=============================================================================

------------------------- MODULE ContinuityRecovery -------------------------
(***************************************************************************)
(* The ContinuityController driven by a measured bandwidth: by a caller    *)
(* that keeps reporting the measurement with ADAPT, and through            *)
(* ingest_and_decide (controller.py), which does so only while the         *)
(* bandwidth is low.  Every step of it is a step of ContinuityController.  *)
(***************************************************************************)
EXTENDS ContinuityController

VARIABLE kbps  \* the bandwidth measured last

Measure == kbps' \in Kbps /\ UNCHANGED vars

Report == Adapt(kbps) /\ UNCHANGED kbps

\* ingest_and_decide: switch to the selected path, else adapt to a low bandwidth,
\* else keep everything.
IngestAndDecide(target) ==
  /\ \/ target \notin {None, active_bearer} /\ \E outcome \in Outcome : Transition(target, outcome)
     \/ target \in {None, active_bearer} /\ kbps < Degrade /\ Adapt(kbps)
     \/ target \in {None, active_bearer} /\ kbps >= Degrade /\ KeepService
  /\ UNCHANGED kbps

NextMeasured ==
  \/ Measure
  \/ Report
  \/ \E target \in Paths \cup {None} : IngestAndDecide(target)
  \/ OtherStep /\ UNCHANGED kbps

InitMeasured == Init /\ kbps \in Kbps

MeasuredSpec ==
  /\ InitMeasured
  /\ [][NextMeasured]_<<vars, kbps>>
  /\ WF_<<vars, kbps>>(Report)

\* Hysteresis and recovery: once the bandwidth stays good, the service comes back
\* to the full mode and stays there.
GoodBandwidthRecovers == <>[](kbps >= Recover) => <>[](adaptation_mode = "FULL")
=============================================================================

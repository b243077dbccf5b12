\* Two versions, in both directions between the channels.
CONSTANTS
  Version = {1, 2}
  Channel = {"dev", "stable"}
  None = None
  MaxCalls = 3
  MaxCrashes = 2
SPECIFICATION Spec
CHECK_DEADLOCK FALSE
INVARIANTS
  TypeOK
  ReportedIsWhole
  ProvenVersionsKept

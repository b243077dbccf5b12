\* Two operations, a token that expires, a crash anywhere.
CONSTANTS
  op1 = op1
  op2 = op2
  None = None
  Unreadable = Unreadable
  Ops = {op1, op2}
  Lifetime = 1
  MaxNow = 2
  MaxPosition = 1
SPECIFICATION ProcessSpec
SYMMETRY Symmetry
INVARIANTS
  ProcessTypeOK
  ProcessesExactlyOnce
  OnlyGenuineRuns
  CheckpointsAreSigned
PROPERTIES
  CheckpointsOnlyGrow

\* Refuted: a revoked device stays revoked.
CONSTANTS
  i1 = i1
  i2 = i2
  d1 = d1
  s1 = s1
  channel = channel
  c1 = c1
  None = None
  Instance = {i1, i2}
  Device = {d1}
  Save = {s1}
  Key = {channel}
  Content = {c1}
  Op <- MCOp
  InitialDoc <- MCInitialDoc
  MaxNow = 1
  MaxCalls = 2
  MaxFaults = 1
SPECIFICATION Spec
CHECK_DEADLOCK FALSE
PROPERTIES
  RevocationSticks

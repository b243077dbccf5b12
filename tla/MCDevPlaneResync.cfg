\* Outages, lost answers and failed writes: what is held gets delivered.
CONSTANTS
  i1 = i1
  i2 = i2
  d1 = d1
  s1 = s1
  channel = channel
  c1 = c1
  None = None
  Instance = {i1, i2}
  Device = {d1}
  Save = {s1}
  Key = {channel}
  Content = {c1}
  Op <- ResyncOp
  InitialDoc <- MCInitialDoc
  MaxNow = 0
  MaxCalls = 2
  MaxFaults = 2
SPECIFICATION FairSpec
CHECK_DEADLOCK FALSE
PROPERTIES
  HeldCallsDelivered

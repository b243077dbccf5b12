\* Any calls, restarts, a token that expires, a file that may be altered.
CONSTANTS
  wifi = wifi
  op1 = op1
  None = None
  Unreadable = Unreadable
  Paths = {wifi}
  Ops = {op1}
  Lifetime = 0
  MaxNow = 1
  MaxPosition = 0
  Kbps = {40, 100, 250, 500}
  Degrade = 200
  Recover = 350
  Minimum = 50
  Dwell = 3
SPECIFICATION MeasuredSpec
INVARIANTS
  TypeOK
  ExactlyOnce
PROPERTIES
  ReturnsSettled
  ResumeForgetsNothing
  GoodBandwidthRecovers

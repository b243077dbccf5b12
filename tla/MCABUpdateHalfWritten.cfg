\* Refuted: the device never runs a half-written slot.
CONSTANTS
  v1 = v1
  v2 = v2
  k1 = k1
  apps = apps
  accounts = accounts
  None = None
  Versions = {v1, v2}
  InitialVersion = v1
  Counters = {0, 1}
  Keys = {k1}
  UserData = {apps, accounts}
  MAX_BOOT_ATTEMPTS = 3
  BootBound = 4
SPECIFICATION Spec
INVARIANTS
  NeverRunsHalfWrittenSlot

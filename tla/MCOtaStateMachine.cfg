\* Any caller, any step may fail.
CONSTANTS
  v010 = v010
  v009 = v009
  v020 = v020
  None = None
  Versions = {v010, v009, v020}
  InitialA = v010
  InitialB = v009
  SecurityVersions = {1, 2, 3}
SPECIFICATION TrialSpec
INVARIANTS
  TypeOK
  PendingForOtherSlot
  NoSecurityDowngrade
  WayBackIntact
PROPERTIES
  ImplementsImagePair

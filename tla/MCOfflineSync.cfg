\* Two replicas, edits of two keys, stale records, flushes and restarts.
CONSTANTS
  k1 = k1
  k2 = k2
  v1 = v1
  None = None
  Replica = {1, 2}
  Key = {k1, k2}
  Value = {v1}
  Wall = {1}
  Request = {1}
  Policies = {"lww", "vector_clock"}
  MaxEdits = 2
  MaxApplied = 1
SPECIFICATION FairSpec
CHECK_DEADLOCK FALSE
INVARIANTS
  TypeOK
  VectorsIdentify
  EditsKept
PROPERTIES
  Converges

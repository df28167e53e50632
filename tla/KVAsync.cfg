SPECIFICATION Spec
CONSTANTS
  r1 = r1
  r2 = r2
  r3 = r3
  Reqs = {r1, r2, r3}
  KeyOf <- SameKeys
  PBlocks = {p1, p2}
  CBlocks = {c1}
  Capacity = 2
  force_clean_up_threshold = 0
  KV_LOOKUP_RETRIES = 2
  stages = 1
  AsyncP = TRUE
  AsyncC = TRUE
  MaxBatches = 2
  Aborts = TRUE
  DeviceFails = FALSE
  PutErrors = FALSE
  None = None
SYMMETRY BlockSymmetry
INVARIANTS
  TypeOK
  BuffersOutliveDevice
  LoadsPopulated
  NobodyRaises
PROPERTIES
  NeverOverwritten
  RefinesHandoff
CHECK_DEADLOCK FALSE

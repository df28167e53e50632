SPECIFICATION FairSpec
CONSTANTS
  r1 = r1
  r2 = r2
  r3 = r3
  Reqs = {r1, r2, r3}
  KeyOf <- SameKeys
  PBlocks = {p1}
  CBlocks = {c1, c2}
  Capacity = 1
  force_clean_up_threshold = 0
  KV_LOOKUP_RETRIES = 2
  stages = 1
  AsyncP = FALSE
  AsyncC = FALSE
  MaxBatches = 1
  Aborts = FALSE
  DeviceFails = TRUE
  PutErrors = TRUE
  None = None
INVARIANTS
  LoadedOnce
  TrackerBounded
PROPERTIES
  Decoded
CHECK_DEADLOCK FALSE

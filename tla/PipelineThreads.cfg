CONSTANTS
  prefill_num_execObj = 2
  Batches = {b1, b2}
  Buckets <- TwoBuckets
  Positions <- ShortOrLong
  MaxChunks = 3
  Async = TRUE
  Threaded = TRUE
  DeviceFails = TRUE
  None = None
SPECIFICATION Spec
SYMMETRY HandleSymmetry
INVARIANTS
  SlotConservation
  BatchLifecycle
  PooledAreIdle
  BucketCoversPrompt
  BucketsMirrorFlight
PROPERTIES
  NeverBelowInFlight
  SavedOnce
  RefinesLease
\* a call that raised stops its thread
CHECK_DEADLOCK FALSE

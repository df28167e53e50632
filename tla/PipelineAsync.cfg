CONSTANTS
  prefill_num_execObj = 3
  Batches = {b1, b2}
  Buckets <- TwoBuckets
  Positions <- ShortOrLong
  MaxChunks = 3
  Async = TRUE
  Threaded = FALSE
  DeviceFails = FALSE
  None = None
SPECIFICATION FairSpec
INVARIANTS
  TypeOK
PROPERTIES
  BatchesComplete

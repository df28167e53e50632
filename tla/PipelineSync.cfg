CONSTANTS
  prefill_num_execObj = 2
  Batches = {b1, b2}
  Buckets <- TwoBuckets
  Positions <- ShortOrLong
  MaxChunks = 3
  Async = FALSE
  Threaded = FALSE
  DeviceFails = FALSE
  None = None
SPECIFICATION Spec
INVARIANTS
  NoStall

SPECIFICATION Spec
CONSTANTS
  r1 = r1
  r2 = r2
  r3 = r3
  r4 = r4
  h1 = h1
  h2 = h2
  h3 = h3
  Reqs = {r1, r2, r3, r4}
  Hashes = {h1, h2, h3}
  ImageOf <- Images
  Capacity = 2
  ECap = 2
  CCap = 1
  EC_LOOKUP_RETRIES = 2
  Restarts = 1
  StoreErrors = 1
  None = None
INVARIANTS
  ViewsPinned
  EncoderHit
  NothingLeaks
PROPERTIES
  Served
CHECK_DEADLOCK FALSE

SPECIFICATION Spec
CONSTANTS
  r1 = r1
  r2 = r2
  r3 = r3
  Requests <- MCRequests
  PromptLen <- MCPromptLen
  MaxLen = 4
  K = 2
  MaxSeqs = 2
  Modes <- MCModes
  Pad = Pad
  Junk = Junk
  None = None
SYMMETRY MCSymmetry
INVARIANTS
  CacheTrue
  OutputTrue
  HandshakeHolds
  InContext

SPECIFICATION Spec
CONSTANTS
  r1 = r1
  r2 = r2
  Reqs = {r1, r2}
  Methods = {"draft_model", "dflash"}
  K = 2
  Prompts = {2, 5, 8}
  Chunks = {3, 4}
  MaxLen = 11
  DrafterMax = 10
SYMMETRY RowSymmetry
INVARIANTS
  DraftContext
  CounterTracks
  DraftRowsInContext
CHECK_DEADLOCK FALSE

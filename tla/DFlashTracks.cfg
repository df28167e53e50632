SPECIFICATION Spec
CONSTANTS
  r1 = r1
  r2 = r2
  Reqs = {r1, r2}
  Methods = {"dflash"}
  K = 2
  Prompts = {2, 5, 8}
  Chunks = {3}
  MaxLen = 11
  DrafterMax = 10
SYMMETRY RowSymmetry
INVARIANTS
  KeepsTracking
CHECK_DEADLOCK FALSE

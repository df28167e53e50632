SPECIFICATION Spec
CONSTANTS
  ScoreLanes = 2
  Absent = Absent
  Placeholder = Placeholder
  Raised = Raised
  LogLanes = 2
  HvxMin = 3
  HvxGroups = 3
  BitonicMin = 4
  BitonicTopk = 2
  MaxExperts = 9
  MaxGroups = 4
  MaxTopK = 4
  TokensPerPatch = 2
  MaxPatches = 2
  MergeSize = 2
  VisionSize = 8
  H = 2
  D = 2
  NoMask = NoMask
  Zero = Zero
  Workloads <- MCWorkloads
  Recoveries <- MCRecoveries
  Routers <- MCRouters
  Launches <- MCLaunches
  Prompts <- MCPrompts
  i1 = i1
  i2 = i2
INVARIANTS
  RejectionAgrees
  RouterAgrees
  EmbeddingsPlaced
CHECK_DEADLOCK FALSE

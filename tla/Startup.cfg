SPECIFICATION Spec
CONSTANTS
  Launches <- MCLaunches
  DefaultSeqLen = 4
  MaxInits = 5
  MaxDownloads = 8
  HwCores = 3
INVARIANTS
  ServiceReady
PROPERTIES
  StartupEnds
CHECK_DEADLOCK FALSE

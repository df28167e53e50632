SPECIFICATION FairSpec
CONSTANTS
  N = 5
  Devices = {d1, d2, d3}
  num_devices <- MixedNeeds
  model_name <- MixedModels
  config_key <- MixedConfigs
  MaxNotReady = 2
  Main = Main
  None = None
INVARIANTS
  TypeOK
  DevicesExclusive
  ColdJobsFirst
PROPERTIES
  AllJobsEnd
CHECK_DEADLOCK FALSE

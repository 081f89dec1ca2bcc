SPECIFICATION Spec
CONSTANTS
  v1 = v1
  v2 = v2
  v3 = v3
  Votes = {v1, v2, v3}
  None = None
  Configs <- OneConfigs
  InitialPools <- OnePools
  NewVsa = 2
  Rent = 1
  Extra = 1
  Growing = {v3}
  MaxRemoveIxs = 2
  MaxAddIxs = 2
  MaxEpoch = 2
  MaxInterference = 1
  MaxLosses = 1
CHECK_DEADLOCK FALSE
INVARIANTS
  TypeOK
  SyncedAfterRun
  UndisturbedRunNeverPanics
PROPERTIES
  EventuallySynced
  AllowedSteps

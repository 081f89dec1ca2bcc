SPECIFICATION Spec
CONSTANTS
  v1 = v1
  v2 = v2
  v3 = v3
  Votes = {v1, v2, v3}
  None = None
  Configs <- TwoConfigs
  InitialPools <- StalePools
  NewVsa = 2
  Rent = 1
  Extra = 1
  Growing = {}
  MaxRemoveIxs = 5
  MaxAddIxs = 7
  MaxEpoch = 2
  MaxInterference = 0
  MaxLosses = 0
CHECK_DEADLOCK FALSE
INVARIANTS
  RemovalsFromUpdatedEntries

SPECIFICATION Spec
CONSTANTS
  v1 = v1
  v2 = v2
  v3 = v3
  Validators = {v1, v2}
  Requests <- SharedRequests
  InitialLedgers <- SharedLedgers
  InitialStatuses <- SharedStatuses
  Remainder = Remainder
  All = All
  U64Max = 100
  Rent = 1
  MinDelegation = 2
  LibNewVsa = 2
  MinActive = 1
  UserAmount = 2
  ChunkSize = 1
  MaxEpoch = 1
  MaxRuns = 1
  MaxInterference = 0
  RerunWhileInFlight = FALSE
CHECK_DEADLOCK FALSE
INVARIANTS
  VsaAlwaysExists

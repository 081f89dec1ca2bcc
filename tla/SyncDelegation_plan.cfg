SPECIFICATION Spec
CONSTANTS
  v1 = v1
  v2 = v2
  v3 = v3
  Validators = {v1, v2, v3}
  Requests <- PlanRequests
  InitialLedgers <- PlanLedgers
  InitialStatuses <- AllActive
  Remainder = Remainder
  All = All
  U64Max = 100
  Rent = 1
  MinDelegation = 2
  LibNewVsa = 2
  MinActive = 1
  UserAmount = 2
  ChunkSize = 2
  MaxEpoch = 1
  MaxRuns = 2
  MaxInterference = 0
  RerunWhileInFlight = TRUE
CHECK_DEADLOCK FALSE
INVARIANTS
  TypeOK
  ReserveKeepsRent
  EphemeralSeedsDistinct
  UndisturbedRunNeverAborts
  RemainderYields
  SettledAfterRun
PROPERTIES
  NeverUndershoots

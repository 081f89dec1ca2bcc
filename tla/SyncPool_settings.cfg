SPECIFICATION Spec
CONSTANTS
  k1 = k1
  k2 = k2
  Keys = {k1, k2}
  None = None
  DefaultAuth = DefaultAuth
  Unset = Unset
  Payer = k1
  Fees <- SomeFees
  Raises <- SomeRaises
  Starts <- ManyStarts
  OtherTargets <- SomeOtherTargets
  MaxInterference = 1
  MaxHandovers = 1
  MaxLosses = 1
CHECK_DEADLOCK FALSE
INVARIANTS
  TypeOK
  SettledAfterRun
  ListedNeedsNoSync
PROPERTIES
  UndisturbedSyncSucceeds
  UnsetIsKept
  HandoverSticks
  FeesComeIntoForce

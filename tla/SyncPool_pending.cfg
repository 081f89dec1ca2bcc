SPECIFICATION Spec
CONSTANTS
  k1 = k1
  k2 = k2
  Keys = {k1, k2}
  None = None
  DefaultAuth = DefaultAuth
  Unset = Unset
  Payer = k1
  Fees <- SomeFees
  Raises <- SomeRaises
  Starts <- FeeStarts
  OtherTargets <- SomeOtherTargets
  MaxInterference = 0
  MaxHandovers = 0
  MaxLosses = 0
CHECK_DEADLOCK FALSE
INVARIANTS
  NoChangesNecessary

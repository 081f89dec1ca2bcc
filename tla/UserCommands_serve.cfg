SPECIFICATION Spec
CONSTANTS
  c1 = c1
  c2 = c2
  v1 = v1
  v2 = v2
  Commands = {c1, c2}
  None = None
  All = All
  Votes = {v1, v2}
  Seeds = {1, 2}
  Starts <- SomeStarts
  Earnings <- SomeEarnings
  StakeAmount = 1
  MinStake = 1
  MaxEpoch = 1
  MaxChanges = 1
  MaxLosses = 1
CHECK_DEADLOCK FALSE
INVARIANTS
  TypeOK
  UndisturbedCommandSucceeds
  LargestIfUpdated
PROPERTIES
  EventuallyServed

SPECIFICATION Spec
CONSTANTS
  c1 = c1
  c2 = c2
  v1 = v1
  v2 = v2
  v3 = v3
  v4 = v4
  Cranks = {c1, c2}
  Options <- SomeOptions
  Votes = {v1, v2, v3, v4}
  InitialLists <- SomeLists
  ChunkSize = 2
  MaxEpoch = 2
  MaxChanges = 1
  MaxLosses = 1
CHECK_DEADLOCK FALSE
INVARIANTS
  TypeOK
  UndisturbedUpdateSucceeds
PROPERTIES
  SkipsOnlyUpdated
  EventuallyUpdated

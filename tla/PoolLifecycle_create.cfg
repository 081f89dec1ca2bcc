SPECIFICATION LifecycleSpec
CONSTANTS
  k1 = k1
  k2 = k2
  ata = ata
  v1 = v1
  v2 = v2
  v3 = v3
  Keys = {k1, k2, ata}
  None = None
  DefaultAuth = DefaultAuth
  Unset = Unset
  Payer = k1
  FeeAta = ata
  Votes = {v1, v2, v3}
  Fees <- SomeFees
  Zero <- NoFee
  Raises = {}
  Files <- ManyFiles
  InitialMints <- ManyMints
  InitialReserves <- ManyReserves
  InitialAccounts <- ManyAccounts
  MinReserve = 2
  NewVsa = 2
  MaxAddIxs = 2
  MaxLosses = 1
CHECK_DEADLOCK FALSE
INVARIANTS
  TypeOK
  CreatedAsConfigured
  UndisturbedCreateSucceeds
PROPERTIES
  HandoverLast
  EventuallyInitialized
  EventuallyAsConfigured

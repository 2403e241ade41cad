CONSTANTS
  UseTZProtection = TRUE
  CompositionTypeMDP = FALSE
  Composer = composer
  Clients = {c1}
  Usages <- MCUsages
  Requests <- MCRequests
  MaxFds = 2
  FbThreads = {t1, t2}
  numBuffers = 2
  FbLine = 480
  FbRows = 10
SPECIFICATION Spec
INVARIANTS KernelHoldsWhatHandlesSay CacheIsCoherent PlanesFit FbSlotsExclusive
CONSTRAINT OneAtATime

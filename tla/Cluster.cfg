\* Two migraters, one of which may fail in any way, on one or two threads of an
\* orchestrator that may stop.
SPECIFICATION CFairSpec
CONSTANTS
  w1 = w1
  w2 = w2
  Worker = {w1, w2}
  Stream = {w1, w2}
  WorkerOf <- OneEach
  PoolSizes = {1, 2}
  Chosen = {"active-fair-share"}
  Reports = {}
  MaxTime = 0
  ExitRate = 5
  Bandwidth = 6
  FullRate = 6
  Priorities <- NoPriorities
  DefaultPriority = 1
  Alpha = 5
  Beta = 5
  Floor = 2
  EpsInv = 1000
  Size = 1
  Flight = 1
  Faults = {"copyfail", "crash", "break", "stop"}
  Faulty = {w1}
INVARIANTS
  CTypeOK
PROPERTIES
  RatesSettle
  OfferIsGranted
  SharesReturn
  ShutdownReachesAll
CHECK_DEADLOCK FALSE

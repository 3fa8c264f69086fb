\* Two migraters with two messages each on their way, whose processes, streams and
\* copies fail.
SPECIFICATION GSpec
CONSTANTS
  w1 = w1
  w2 = w2
  Worker = {w1, w2}
  Stream = {w1, w2}
  WorkerOf <- OneEach
  PoolSizes = {2}
  Chosen = {"active-fair-share"}
  Reports = {}
  MaxTime = 0
  ExitRate = 5
  Bandwidth = 6
  FullRate = 6
  Priorities <- NoPriorities
  DefaultPriority = 1
  Alpha = 5
  Beta = 5
  Floor = 2
  EpsInv = 1000
  Size = 1
  Flight = 2
  Faults = {"copyfail", "crash", "break"}
  Faulty = {w1, w2}
INVARIANTS
  AllottedBounded
SYMMETRY SameHosts
CHECK_DEADLOCK FALSE

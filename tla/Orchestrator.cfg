\* Three streams of two workers (w1 is restarted) on two threads, under the
\* policies that divide the bandwidth.
SPECIFICATION Spec
CONSTANTS
  w1 = w1
  w2 = w2
  w3 = w3
  Worker = {w1, w3}
  Stream = {w1, w2, w3}
  WorkerOf <- Restarted
  PoolSizes = {2}
  Chosen = {"uniform-fair-share", "active-fair-share", "static-priority",
            "age-priority", "epoch-priority"}
  Reports <- Mixed
  MaxTime = 1
  ExitRate = 5
  Bandwidth = 2000
  FullRate = 2000
  Priorities <- SomePriorities
  DefaultPriority = 1
  Alpha = 0
  Beta = 10
  Floor = 0
  EpsInv = 1000
INVARIANTS
  TypeOK
  NoGhosts
  ConnectedIsRegistered
  OvershootBounded
  SharesFit
PROPERTIES
  RegistrationComesBack
  ActiveIsGranted
  AgeIsKept
CHECK_DEADLOCK FALSE

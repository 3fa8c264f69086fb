\* Four checkpoints and a step, every fault, flushes that last until the next
\* save at most.
SPECIFICATION TSpec
CONSTANTS
  Ckpt = {1, 2, 3, 4, 5}
  MaxSaves = 5
  Faults <- FaultKinds
  Lag = 1
  TotalSteps = 9
  Interval = 2
INVARIANTS
  TypeOK
  PreviousKept
  PartialHasWriter
  SavedIsThere
  TTypeOK
  EpochsFit
  WorkIsKept
CHECK_DEADLOCK FALSE

\* A migrater that is still busy refuses the next checkpoint.
SPECIFICATION Spec
CONSTANTS
  Ckpt = {1, 2}
  MaxSaves = 2
  Faults = {"refuse"}
  Lag = 2
INVARIANT CountedIsHandled
CHECK_DEADLOCK FALSE

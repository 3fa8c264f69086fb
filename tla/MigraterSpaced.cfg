\* Saves further apart than a flush, an activity-respecting policy, both
\* shutdowns.
SPECIFICATION FairSpec
CONSTANTS
  MaxCkpts = 2
  Chunks = 1
  MaxInFlight = 1
  IdleReplies <- HoldIdle
  ActiveReplies <- GrantAll
  Events = {"exit", "ctrlc", "streamloss"}
  Spacing = "reported"
INVARIANTS
  PendingCoversData
  DrainedExit
PROPERTIES
  ImplementsHandoff
  AcceptedIsFlushed
  ExitReachesMain
  CtrlCEnds
CHECK_DEADLOCK FALSE

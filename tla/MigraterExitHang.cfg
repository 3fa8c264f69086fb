\* EXIT while the second of two overlapping transfers has lost its rate.
SPECIFICATION FairSpec
CONSTANTS
  MaxCkpts = 2
  Chunks = 1
  MaxInFlight = 1
  IdleReplies <- HoldIdle
  ActiveReplies <- GrantAll
  Events = {"exit"}
  Spacing = "none"
PROPERTY ExitReachesMain

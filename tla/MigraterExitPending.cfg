\* EXIT while an accepted checkpoint waits for its first grant.
SPECIFICATION Spec
CONSTANTS
  MaxCkpts = 1
  Chunks = 1
  MaxInFlight = 1
  IdleReplies <- HoldIdle
  ActiveReplies <- GrantAll
  Events = {"exit"}
  Spacing = "reported"
INVARIANT PendingStartsOnExit

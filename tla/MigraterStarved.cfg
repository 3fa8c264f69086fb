\* A policy that holds idle workers; a second save soon after the first flush.
SPECIFICATION FairSpec
CONSTANTS
  MaxCkpts = 2
  Chunks = 1
  MaxInFlight = 1
  IdleReplies <- HoldIdle
  ActiveReplies <- GrantAll
  Events = {}
  Spacing = "flushed"
PROPERTY AcceptedIsFlushed

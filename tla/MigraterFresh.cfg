\* A grant still in flight when the next checkpoint is accepted.
SPECIFICATION Spec
CONSTANTS
  MaxCkpts = 2
  Chunks = 1
  MaxInFlight = 1
  IdleReplies <- HoldIdle
  ActiveReplies <- GrantAll
  Events = {}
  Spacing = "reported"
PROPERTY FreshInstruction
CHECK_DEADLOCK FALSE

\* Every event, a policy that grants every heartbeat, at times at rate zero, and
\* two checkpoints that may overlap.
SPECIFICATION Spec
CONSTANTS
  MaxCkpts = 2
  Chunks = 1
  MaxInFlight = 1
  IdleReplies <- GrantAll
  ActiveReplies <- GrantOrPause
  Events <- EventKinds
  Spacing = "none"
INVARIANTS
  TypeOK
  CompletionNeedsRequest
  ActiveFlagHasCopier
PROPERTY NoAcceptAfterShutdown
VIEW WithoutEpochs
CHECK_DEADLOCK FALSE

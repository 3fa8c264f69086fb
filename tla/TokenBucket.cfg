\* Seven bytes in chunks of two, rates that change at every pass, and a buffer of
\* two items.
SPECIFICATION PFairSpec
CONSTANTS
  FileSize = 7
  ChunkSize = 2
  Rates <- SomeRates
  Interval = 3
  MaxElapsed = 2
  Horizon = 4
  MaxLen = 2
INVARIANTS
  TypeOK
  BurstBounded
  LastItemIsZero
  PTypeOK
  LastItemIsKept
  SizeIsUpperBound
PROPERTIES
  CopyEnds
  SizeOnlyFalls
  SizeReachesZero

SPECIFICATION FairSpec
CONSTANTS
  Window = 1
  SnapshotAfter = 1
  MaxLag = 2
  Streams = TRUE
  Overlaps = FALSE
  MaxSeq = 2
  MaxFaults = 2
  MaxPrunes = 0
  MaxRebuilds = 1
INVARIANT NothingForgotten
PROPERTIES
  OnlyFaultsStrand
  CatchesUp
CHECK_DEADLOCK FALSE

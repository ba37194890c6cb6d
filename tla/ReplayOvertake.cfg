SPECIFICATION Spec
CONSTANTS
  Window = 2
  SnapshotAfter = 2
  MaxLag = 1
  Streams = TRUE
  Overlaps = FALSE
  MaxSeq = 4
  MaxFaults = 1
  MaxPrunes = 0
  MaxRebuilds = 1
INVARIANT
  NothingStranded
CHECK_DEADLOCK FALSE

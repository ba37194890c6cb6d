SPECIFICATION Spec
CONSTANTS
  Window = 2
  SnapshotAfter = 2
  MaxLag = 1
  Streams = FALSE
  Overlaps = FALSE
  MaxSeq = 4
  MaxFaults = 1
  MaxPrunes = 1
  MaxRebuilds = 1
INVARIANTS
  TypeOK
  ReplayInv
  NothingPassedOver
CHECK_DEADLOCK FALSE

SPECIFICATION Spec
CONSTANTS
  Client = {c1, c2}
  Stamp = {1, 2, 3}
  MaxLog = 3
  Overlaps = TRUE
SYMMETRY Devices
INVARIANTS
  TypeOK
  MergeInv
  NoUpsertLost
  NewestUpsertWins
  CollapseKeepsNewest
PROPERTIES
  ReachGrows
  RedeliveryHarmless
CHECK_DEADLOCK FALSE

SPECIFICATION FairSpec
CONSTANTS
  None = None
  Tab = {t1, t2}
  Releases = 2
  Once = {2}
  MaxDeaths = 2
  MaxFaults = 1
INVARIANTS
  TypeOK
  OneConstruction
  MigratedOnce
  InertForCause
PROPERTY
  CallsEnd
CHECK_DEADLOCK FALSE

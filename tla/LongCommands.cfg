SPECIFICATION FairSpec
CONSTANTS
  j1 = j1
  j2 = j2
  None = None
  Job = {j1, j2}
  Key <- KeyShared
  Stack = {j1, j2}
  NoTimeout = {}
  MaxRestarts = 2
  MaxFaults = 1
INVARIANTS
  TypeOK
  
  OneWake
PROPERTIES
  
  OrphansWoken
  ListClears
CHECK_DEADLOCK FALSE

SPECIFICATION Spec
CONSTANTS
  None = None
  Tab = {t1, t2}
  Releases = 2
  Once = {2}
  MaxDeaths = 1
  MaxFaults = 0
INVARIANT
  LeadsItsOwn
CHECK_DEADLOCK FALSE

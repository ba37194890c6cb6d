SPECIFICATION Spec
CONSTANTS
  t1 = t1
  t2 = t2
  t3 = t3
  c1 = c1
  c2 = c2
  None = None
  Tab = {t1, t2, t3}
  Call = {c1, c2}
  Owner <- OwnerTwo
  Kind <- KindQueries
  Ids = 3
  MaxDeaths = 0
  MaxStalls = 0
  MaxDbFaults = 0
INVARIANT
  OwnAnswers
CHECK_DEADLOCK FALSE

SPECIFICATION FairSpec
CONSTANTS
  t1 = t1
  t2 = t2
  c1 = c1
  c2 = c2
  None = None
  Tab = {t1, t2}
  Call = {c1, c2}
  Owner <- OwnerTwo
  Kind <- KindBoth
  Remote = {r1}
  MaxDeaths = 1
  MaxFaults = 1
INVARIANTS
  TypeOK
  
  

  
  
CHECK_DEADLOCK FALSE

SPECIFICATION FairSpec
CONSTANTS
  t1 = t1
  t2 = t2
  t3 = t3
  c1 = c1
  c2 = c2
  None = None
  Tab = {t1, t2, t3}
  Call = {c1, c2}
  Owner <- OwnerOne
  Kind <- KindMixed
  Ids = 3
  MaxDeaths = 1
  MaxStalls = 0
  MaxDbFaults = 1
INVARIANTS
  TypeOK
  OneEngine
  AnswersHold
PROPERTIES
  OpNotOvertaken
  EventuallyAnswered
CHECK_DEADLOCK FALSE

SPECIFICATION FairSpec
CONSTANTS
  c1 = c1
  w1 = w1
  w2 = w2
  Client = {c1}
  Write = {w1, w2}
  Owner <- OwnerOne
  Ops <- OpsMixed
  BadJson <- SecondOp
  BadSql <- OtherOp
  MaxFaults = 2
  MaxDbFaults = 1
INVARIANTS
  TypeOK
  OpLogInv
  WriteAhead
  SessionCoversBacklog
PROPERTIES
  DurableDelivery
  Settles
CHECK_DEADLOCK FALSE

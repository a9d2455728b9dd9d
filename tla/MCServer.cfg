SPECIFICATION FairSpec
CONSTANTS
  c1 = c1
  c2 = c2
  q1 = q1
  Callers <- MCCallers
  Requests <- MCRequests
  Nil = Nil
  MaxConf = 3
CHECK_DEADLOCK FALSE
INVARIANTS
  TypeOK
  NoLostUpdate
  RequestsServed
  CachesAccounted
PROPERTIES
  ClosedIsFinal
  StartReturns
  CloseReturns

SPECIFICATION Spec
CONSTANTS
  b1 = b1
  b2 = b2
  n1 = n1
  Buffer = {b1, b2}
  Network = {n1}
  NetworkOf <- OneShared
  Limit = 2
  Cap = 3
  MaxId = 4
  MaxQueue = 2
  MaxSessions = 2
INVARIANTS
  HistorySorted
  StoreConsistent
  LatchNotStranded
  FirstSessionMirrors
CHECK_DEADLOCK FALSE

SPECIFICATION Spec
CONSTANTS
  b1 = b1
  b2 = b2
  n1 = n1
  n2 = n2
  Buffer = {b1, b2}
  Network = {n1, n2}
  NetworkOf <- OneEach
  NoBuffer = NoBuffer
  MaxId = 2
  MaxActs = 2
  MaxMoves = 1
  MaxSessions = 2
  MaxWire = 1
  MaxQueue = 2
SYMMETRY Exchange
CHECK_DEADLOCK FALSE
INVARIANTS
  MarkersReachCore
  MarkersBelong
  SeenWasDrawnOrDue
PROPERTIES
  MarkersAreTheUsers

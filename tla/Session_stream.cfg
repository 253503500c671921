SPECIFICATION Spec
CONSTANTS
  n1 = n1
  n2 = n2
  Network = {n1, n2}
  Leftover = {n2}
  MaxEvents = 6
INVARIANTS
  EventsFaithful
  RequestedExactlyOnce
PROPERTIES
  ImplementsEventStream
CHECK_DEADLOCK FALSE

SPECIFICATION Spec
CONSTANTS
  b1 = b1
  b2 = b2
  NoBuffer = NoBuffer
  Buffer = {b1, b2}
  MaxFrames = 4
  MaxActs = 2
  MaxQueue = 3
INVARIANTS
  ActiveKnown
  ScreenCurrent
  UnreadMarked
PROPERTIES
  PointerStays
  SettlesUnlessRaced
CHECK_DEADLOCK FALSE

SPECIFICATION LogSpec
CONSTANTS
  MaxId = 4
  Height <- MCHeight
  Day <- MCDay
  LastDay = 2
  View = 3
  Cap = 3
INVARIANTS
  CursorOnMessage
PROPERTIES
  ReaderStays
  CursorAppearsOnScreen

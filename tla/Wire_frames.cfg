SPECIFICATION Spec
CONSTANTS
  MaxNesting = 2
  Offered <- Feature
  Cores <- AllCores
  Tags <- MCTags
  Headers <- MCHeaders
  Items <- MCItems
  MaxItems = 2
INVARIANTS
  FramesUnderstood
  MessagesInSync
  RoundTrip
  EchoExact
CHECK_DEADLOCK FALSE

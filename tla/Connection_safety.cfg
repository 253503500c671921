SPECIFICATION FairSpec
CONSTANTS
  MaxDecodeFailures = 2
  MaxArrivals = 11
INVARIANTS
  TypeOK
  CredentialsProtected
  DeliveryFaithful
  DesyncDetected
  HeartbeatAnswered
  ReleasesSocket
  WriterPresent
PROPERTIES
  ImplementsEventStream
  IterationEnds
CHECK_DEADLOCK FALSE

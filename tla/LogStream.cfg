SPECIFICATION FairSpec
CONSTANTS
  LineKind <- SomeLines
  Option <- SomeOptions
  MaxLines = 3
  Window = 1  Capacity = 1  Buffer = 2
CHECK_DEADLOCK FALSE
PROPERTIES ImplementsDelivery Follows Ends AgentStops

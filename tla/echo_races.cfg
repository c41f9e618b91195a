SPECIFICATION SpecRaces
\* The system really stops: its nodes leave their loops, or wait for messages.
CHECK_DEADLOCK FALSE
CONSTANTS
  Node = {1, 2, 3}
  Neighbors <- Triangle
  Number = {1, 2, 3, 4, 5}
  Content <- Races
  Time <- Times
  Order <- OrderEach
  OtherTraffic = FALSE
  Traced = 4
INVARIANTS
  TypeOK
  OneMessagePerConnection
  EchoHasEntry
  NeighborsShuttingDown
  FeedbackSound
  TimeEverywhere
PROPERTIES
  QuietWhenShuttingDown
  ImplementsFeedback

SPECIFICATION Spec
\* The system really stops: its nodes leave their loops, or wait for messages.
CHECK_DEADLOCK FALSE
CONSTANTS
  Node = {1, 2, 3, 4}
  Neighbors <- Complete
  Number = {0}
  Content <- OneShutdown
  Time <- NoTime
  Order <- OrdersAtOneAndTwo
  OtherTraffic = FALSE
  Traced = 0
INVARIANTS
  NeighborsShuttingDown

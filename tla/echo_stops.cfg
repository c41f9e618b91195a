SPECIFICATION FairSpec
\* The system really stops: its nodes leave their loops, or wait for messages.
CHECK_DEADLOCK FALSE
CONSTANTS
  Node = {1, 2, 3, 4, 5}
  Neighbors <- Kite
  Number = {0}
  Content <- OneShutdown
  Time <- NoTime
  Order <- OrderAtLeaf
  OtherTraffic = FALSE
  Traced = 0
INVARIANTS
  NothingForCompleted
PROPERTIES
  AllStop

SPECIFICATION Spec
\* The bound on the calls stops the model.
CHECK_DEADLOCK FALSE
CONSTANTS
  Node = {1, 2, 4}
  Neighbors <- Complete
  recallPeriod = 3
  Opinion <- Undecided
  Prompted = {1}
  MaxCalls = 2
  TerminationTime = 5
  Informed = {1, 4}
INVARIANTS
  TypeOK
  NoFutureTime
  ConsistentCut
  OncePerNumber
PROPERTIES
  ImplementsSnapshot

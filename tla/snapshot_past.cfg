SPECIFICATION Spec
\* The bound on the calls stops the model.
CHECK_DEADLOCK FALSE
CONSTANTS
  Node = {1, 2, 3}
  Neighbors <- Complete
  recallPeriod = 3
  Opinion <- Undecided
  Prompted = {1, 3}
  MaxCalls = 4
  TerminationTime = 5
  Informed = {1, 3}
PROPERTIES
  PastReachesCopy

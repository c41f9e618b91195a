SPECIFICATION Spec
\* Nodes stop, and the bound on the clocks stops the model.
CHECK_DEADLOCK FALSE
CONSTANTS
  HighestNodeID = 2
  Neighbors <- Two
  Prompted = {1, 2}
  Files = {0}
  MaxClock = 16
INVARIANTS
  StopsAfterThreeZeros

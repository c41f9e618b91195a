SPECIFICATION Spec
\* Nodes stop, and the bound on the clocks stops the model.
CHECK_DEADLOCK FALSE
CONSTANTS
  HighestNodeID = 3
  Neighbors <- Three
  Prompted = {1}
  Files <- FileOrNone
  MaxClock = 11
INVARIANTS
  TypeOK
  TopOnNonEmpty
  EntersAfterAll
  CountersBelowQueue
  OwnOnTop

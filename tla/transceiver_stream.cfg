SPECIFICATION FairSpec
\* The process ends.
CHECK_DEADLOCK FALSE
CONSTANTS
  Connection = {1, 2}
  Size <- Mixed
  Buffer = 2
  Control <- MixedControl
  Descriptor = {1, 2}
INVARIANTS
  TypeOK
  NoHalfMessage
  NoLostWakeup
  TerminatesOnlyIfLate
PROPERTIES
  ImplementsLossyChannel
  Served
  Closes

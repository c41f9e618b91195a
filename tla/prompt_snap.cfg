SPECIFICATION SpecPrompt
\* The prompt sends one message, which is read once.
CHECK_DEADLOCK FALSE
CONSTANTS
  Document = Document
  Null = Null
  NoMessage = NoMessage
  Node <- Cells
  MaxNodes <- Few
  Symbol <- Symbols
  Made = {}
  Attributes = {}
  Numbers <- SmallNumbers
  Messages = {}
  nodes = {1, 2}
  TypedTimes <- Typed
  TooLong = "99999999999"
  RandomNumber = 7
INVARIANTS
  SnapIsNotStart

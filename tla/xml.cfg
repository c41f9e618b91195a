SPECIFICATION SpecXml
\* A node starts once, a message is read once, a document is printed once.
CHECK_DEADLOCK FALSE
CONSTANTS
  Document = Document
  Null = Null
  NoMessage = NoMessage
  Node <- Cells
  MaxNodes <- Few
  Symbol <- Symbols
  Made <- Kinds
  Attributes <- OneAttribute
  Numbers <- SmallNumbers
  Messages <- Sent
  nodes = {1, 2}
  TypedTimes <- Typed
  TooLong = "99999999999"
  RandomNumber = 7
  Identifiers <- SmallNumbers
  AddressFiles <- Addressed
  GraphFiles <- Graphs
  Started = {1, 3}
  Texts <- Strings
  UINT_MAX = 16777215
  Unset = Unset
  Blocks = {1, 2}
  ITEMS_PER_BLOCK = 2
  InitialBlocks = 1
  NoItem = NoItem
  Printable <- Runs
  InitialBuffer = 2
  MaxText = 7
INVARIANTS
  WellLinked
  PoolsCount
  PrintKeepsTree
  ParseLeavesNothing
  MessageSurvives
  PieceIsNoMessage
  OrderTakesEffect
  BiggestIsHighest
  PoolHandsOutOnce
  BufferHoldsOutput
PROPERTIES
  ImplementsDecoder
  ImplementsForest

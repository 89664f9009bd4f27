\* Both channels are full when the writer fails and a handler replies.
SPECIFICATION FairSpec
CONSTANTS
  Calls = {c1, c2}
  NoCall = NoCall
  HandlersSet = TRUE
  MaxId = 2
  OutCap = 1
  InCap = 1
PROPERTIES
  WriterStops
CHECK_DEADLOCK FALSE

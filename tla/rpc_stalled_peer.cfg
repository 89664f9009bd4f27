\* Two calls of the application; the server may stop reading.
SPECIFICATION FairSpec
CONSTANTS
  Calls = {c1, c2}
  NoCall = NoCall
  HandlersSet = FALSE
  MaxId = 2
  OutCap = 1
  InCap = 1
PROPERTIES
  EveryRequestEnds
CHECK_DEADLOCK FALSE

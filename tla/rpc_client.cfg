\* Two calls, each made by the application or by a server-request handler.
SPECIFICATION FairSpec
CONSTANTS
  Calls = {c1, c2}
  NoCall = NoCall
  HandlersSet = TRUE
  MaxId = 2
  OutCap = 1
  InCap = 1
INVARIANTS
  WaitingIsReachable
  NoStaleEntry
  NoSilentEnd
  HandlerCallsUnanswered
PROPERTIES
  KeepsPromise
  QueuedRequestsEnd
  FailureIsAnnounced
CHECK_DEADLOCK FALSE

\* A call of run() or of run_streamed(), a turn of another client, a pump that
\* may fall behind.
SPECIFICATION FairSpec
CONSTANTS
  t1 = t1
  t2 = t2
  o1 = o1
  th1 = th1
  th2 = th2
  u1 = u1
  u2 = u2
  Turns = {t1, t2}
  OtherTurns = {o1}
  Threads = {th1, th2}
  ThreadOf <- SameThread
  NoId = NoId
  NoUsage = NoUsage
  Runs = {t1}
  Usages = {u1, u2}
  Published <- MixedEvents
  EventCap = 2
  StreamCap = 1
  MaxStarted = 1
  MaxEvents = 3
INVARIANTS
  NoSilentStream
  NothingMissing
  WellFormedStream
  RunOkIsComplete
  UsageIsLatest
PROPERTIES
  PromptTerminalArrives
  LossEndsStreams
CHECK_DEADLOCK FALSE

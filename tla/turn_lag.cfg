\* Two turns on one thread; a pump falls behind.
SPECIFICATION FairSpec
CONSTANTS
  t1 = t1
  t2 = t2
  o1 = o1
  th1 = th1
  th2 = th2
  u1 = u1
  u2 = u2
  Turns = {t1, t2}
  OtherTurns = {o1}
  Threads = {th1, th2}
  ThreadOf <- SameThread
  NoId = NoId
  NoUsage = NoUsage
  Runs = {t2}
  Usages = {}
  Published <- EndEvents
  EventCap = 1
  StreamCap = 1
  MaxStarted = 2
  MaxEvents = 3
PROPERTIES
  TerminalArrives
CHECK_DEADLOCK FALSE

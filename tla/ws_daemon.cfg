\* Two calls, in one process or in two, with every fault.
SPECIFICATION FairSpec
CONSTANTS
  s1 = s1
  s2 = s2
  p1 = p1
  p2 = p2
  Starts = {s1, s2}
  Processes = {p1, p2}
  Calls <- SampleCalls
  NoStart = NoStart
  Polls = 1
  Attempts = 2
  ResendAt = 1
INVARIANTS
  NoDuplicate
  OnlyOwnedStopped
  OrphansHaveACause
  ShutdownStops
PROPERTIES
  EveryCallReturns
CHECK_DEADLOCK FALSE

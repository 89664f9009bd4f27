\* Two Thread objects, made in every way, with lost and refused requests.
SPECIFICATION Spec
CONSTANTS
  o1 = o1
  o2 = o2
  Objects = {o1, o2}
  Made <- SampleMade
  Requests <- SampleRequests
  Recorded = 2
  MaxThreads = 4
  MaxTurns = 2
  MaxCalls = 4
  Pages <- SamplePages
  MaxPages = 2
INVARIANTS
  LoadedFirst
  OneThreadEach
  SteersOwnTurn
  AnnouncedOnce
  LatestIsLatest
PROPERTIES
  OverridesLastOneTurn
CHECK_DEADLOCK FALSE

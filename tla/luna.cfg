\* One run of luna of each kind, on each kind of machine.
SPECIFICATION FairSpec
CONSTANTS
  Lines <- SampleLines
  Environments <- SampleEnvironments
  Streams <- SampleStreams
  MaxPages = 3
INVARIANTS
  ActsAsTold
  AuthenticatedFirst
  OutputIsWhole
  ZeroMeansDone
CHECK_DEADLOCK FALSE

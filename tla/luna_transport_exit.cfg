\* The exit code of a turn whose connection is lost.
SPECIFICATION FairSpec
CONSTANTS
  Lines <- SampleLines
  Environments <- SampleEnvironments
  Streams <- SampleStreams
  MaxPages = 3
PROPERTIES
  LostStreamIsTransport
CHECK_DEADLOCK FALSE

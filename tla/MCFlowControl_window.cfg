SPECIFICATION LiveSpec
CONSTANTS
  NumStreams = 2
  SendLen <- MCSendLenTwo
  ChunkLen = 2
  ConnWindow = 8
  StreamWindow = 5
  OwnConnWindow = 7
  OwnStreamWindow = 5
  MaxInFlight = 3
  MaxDup = 1
  MaxDrop = 1
INVARIANTS TypeOK NeverOverLimit WindowKept CountedOnce BlockedIsCurrent
PROPERTIES
  StallIsReported
  ReceivedUnlessLost

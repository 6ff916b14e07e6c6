SPECIFICATION LiveSpec
CONSTANTS
  NumStreams = 2
  SendLen <- MCSendLen
  ChunkLen = 2
  ConnWindow = 6
  StreamWindow = 6
  OwnConnWindow = 6
  OwnStreamWindow = 6
  MaxInFlight = 3
  MaxDup = 0
  MaxDrop = 1
PROPERTIES EventuallyReceived

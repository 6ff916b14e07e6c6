SPECIFICATION Spec
CONSTANTS
  NumStreams = 1
  SendLen <- MCSendLenShort
  ChunkLen = 2
  MaxAcks = 2
  MaxDrop = 1
  MaxDup = 1
  MaxEarly = 1
  MaxPolls = 1
  MaxModes = 1
  MaxFaults = 5
  MaxRanges = 4
  MaxSentPackets = 12
  PacketThreshold = 2
  PacketBudget = 3
  RetransmitBudget = 1
  RetransmitOnlyBudget = 3
  NewDataBudget = 2
  ThrottledBudget = 1
  ProbeBudget = 2
  MaxReceivedRanges = 2
  MaxAckRanges = 0
INVARIANTS ProbeGoesOut

SPECIFICATION Spec
CONSTANTS
  NumStreams = 1
  SendLen <- MCSendLenOne
  ChunkLen = 1
  MaxAcks = 3
  MaxDrop = 2
  MaxDup = 0
  MaxEarly = 0
  MaxPolls = 0
  MaxModes = 0
  MaxFaults = 2
  MaxRanges = 1
  MaxSentPackets = 12
  PacketThreshold = 2
  PacketBudget = 6
  RetransmitBudget = 1
  RetransmitOnlyBudget = 3
  NewDataBudget = 5
  ThrottledBudget = 1
  ProbeBudget = 2
  MaxReceivedRanges = 4
  MaxAckRanges = 3
INVARIANTS LossesAlwaysRecorded


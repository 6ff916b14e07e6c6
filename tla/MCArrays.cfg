SPECIFICATION ArraysSpec
CONSTANTS
  Length = 7
  MaxRanges = 3
  ChunkLen = 2
  MaxPn = 8
  MaxReceivedRanges = 3
  MaxAckRanges = 1
  Window = 16
  PnLimit = 64
INVARIANTS
  RangesWF
  LostNotAcked
  NumbersWF
  AckSound
  AckMeansRanges
  LargestIsReported
  NumbersRecovered
PROPERTIES
  ImplementsSets
  ImplementsPnSet

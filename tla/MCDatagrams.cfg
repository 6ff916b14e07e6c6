SPECIFICATION Spec
CONSTANTS
  MaxAckPairs = 2
  MaxFrameData = 1500
  MaxFrames = 64
  DefaultNumbers <- MCDefaultNumbers
  ClientCid <- MCClientCid
  ServerCid <- MCServerCid
  FirstDcid <- MCFirstDcid
  RetryCid <- MCRetryCid
  TokenBytes <- MCTokenBytes
  FramesOf <- MCFramesOf
  OtherFrames <- MCOtherFrames
  Hellos <- MCHellos
  Pns = {5, 65543}
  OtherPnLens = {1, 2, 3}
  MinInitial = 200
CHECK_DEADLOCK FALSE
INVARIANTS ReadBack ParamsReadBack

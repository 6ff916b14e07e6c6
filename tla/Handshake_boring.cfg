SPECIFICATION Spec
CONSTANTS
  BoringSSL = TRUE
  Flights = {1, 5}
  Tickets = 1
  MaxEvents = 8
  PaddedLen = 12
  ChunkLen = 15
  RetryModes = {FALSE, TRUE}
  V2Modes = {{"client", "server"}}
  TokensExpire = TRUE
  MaxDrop = 1
  MaxDup = 1
  MaxReorder = 1
INVARIANTS
  TypeOK
  IndInv
  StepsInOrder
  AmplificationLimit
  AcksAreTrue
  CryptoInOrder
  FlightComplete
PROPERTIES
  ValidatedByProof
  NumbersAreFresh
CHECK_DEADLOCK FALSE

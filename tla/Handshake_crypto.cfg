SPECIFICATION Spec
CONSTANTS
  BoringSSL = TRUE
  Flights = {2}
  Tickets = 1
  MaxEvents = 8
  PaddedLen = 12
  ChunkLen = 15
  RetryModes = {FALSE}
  V2Modes = {{}}
  TokensExpire = FALSE
  MaxDrop = 1
  MaxDup = 0
  MaxReorder = 0
INVARIANTS
  CryptoIsReliable
CHECK_DEADLOCK FALSE

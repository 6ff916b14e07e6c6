SPECIFICATION Spec
CONSTANTS
  BoringSSL = TRUE
  Flights = {2}
  Tickets = 1
  MaxEvents = 8
  PaddedLen = 12
  ChunkLen = 15
  RetryModes = {FALSE}
  V2Modes = {{"server"}}
  TokensExpire = FALSE
  MaxDrop = 0
  MaxDup = 0
  MaxReorder = 0
INVARIANTS
  ChosenIsNegotiated
CHECK_DEADLOCK FALSE

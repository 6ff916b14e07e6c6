SPECIFICATION FairSpec
CONSTANTS
  BoringSSL = FALSE
  Flights = {1}
  Tickets = 0
  MaxEvents = 8
  PaddedLen = 12
  ChunkLen = 15
  RetryModes = {FALSE}
  V2Modes = {{}, {"client"}, {"client", "server"}}
  TokensExpire = FALSE
  MaxDrop = 1
  MaxDup = 2
  MaxReorder = 2
INVARIANTS
  NobodyFails
  VersionsAgree
PROPERTIES
  DiscardedKeysUnused
  HandshakeCompletes

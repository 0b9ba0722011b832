SPECIFICATION FairSpec
CONSTANTS
  Base = 5
  SERVERPROT_SIZES <- MCSizes
  LOGOUT = 0
  Unknown <- MCUnknown
  Keystream <- MCKeystream
  SeedLength = 2
  MaxPayload = 5
  MaxPackets = 2
  MaxConnections = 2
INVARIANTS
  GameLoopNeverBlocks
  KeystreamInStep
PROPERTIES
  EveryPacketHandled
  ImplementsChannel

\* Three devices for two addresses, one engine started twice, one restart, one failed exchange.
SPECIFICATION FairSpec
CONSTANTS
  Device = {d1, d2, d3}
  Restless = {d1}
  NoAddr = NoAddr
  None = None
  NoTok = NoTok
  NodeBase = 8
  HalfSize = 3
  MaxTokens = 9
  MaxSessions = 2
  MaxEpoch = 1
  MaxFaults = 1
INVARIANTS TokenIsMine AddressAgreesUntilRestart
PROPERTY NotStranded
CHECK_DEADLOCK FALSE

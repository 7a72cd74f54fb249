\* Six keys for the four host addresses of a range of five; every range over six-bit
\* addresses; two join tokens; every packet over words of two bits; eight peers for six
\* local addresses; every setup over two ports; two nested suffixes.
SPECIFICATION PartsSpec
CONSTANTS
  Key = {k1, k2, k3, k4, k5, k6}
  Base = 10
  Size = 5
  NoAddr = NoAddr
  Width = 6
  SmallestHostBits = 3
  Spelling <- MCSpelling
  normalize <- MCNormalize
  Wildcard = "*"
  Blank = ""
  DefaultGroup = "default"
  JoinToken = {t1, t2}
  NoToken = NoToken
  NoGroup = NoGroup
  B = 4
  Rest = {1}
  IcmpTo = {0}
  NoMap = NoMap
  MaxUnmapped = 1
  LocalBase = 16
  LocalSize = 8
  Overlay = {64, 65, 66, 67, 68, 69, 71, 81}
  Foreign = {50}
  Self = 65
  Caller = {c1, c2}
  NoLocal = NoLocal
  IpHost = {"127.0.0.1", "ip"}
  NameHost = {"name"}
  AnyHost = "0.0.0.0"
  Loopback = "127.0.0.1"
  Port = {443, 8443}
  NoPort = 0
  Untyped = Untyped
  ZoneSuffix <- MCSuffix
  DnsPeer <- MCPeer
  DnsService <- MCService
  Query <- MCQuery
  lower <- MCLower
  NoName = ""
  NoIP = 0
  NoVip = NoVip
  MaxPeers = 2
  MaxSvcs = 1
INVARIANTS
  ExhaustedOnlyWhenFull HalvesPartitionRange AmbiguousTokensRejected
  ChecksumsRepaired RepliesReachTheSender RefusedOnlyWhenFull AddressesWork
  NamesResolveRight
CHECK_DEADLOCK FALSE

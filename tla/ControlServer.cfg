\* Three devices and three names for two addresses each, two requests in flight.
SPECIFICATION Spec
CONSTANTS
  Spelling <- MCSpelling
  normalize <- MCNormalize
  Wildcard = "*"
  Blank = ""
  Device = {1, 2, 3}
  NoDevice = NoDevice
  JoinToken = {"ja", "jg", "bad"}
  JoinGroup <- MCJoinGroup
  NoGroup = NoGroup
  Rules <- MCRules
  Name = {1, 2, 3}
  NoName = NoName
  AllowList <- MCAllowList
  Token = {t1, t2, t3}
  NoTok = NoTok
  Handler = {h1, h2}
  NodeBase = 8
  HalfSize = 3
  NoAddr = NoAddr
  None = None
  MaxEpoch = 1
CONSTRAINT InView
SYMMETRY Symmetry
INVARIANTS
  TokenIndexInStep AddressesUnique
  VisibleServiceIsReachable AnswersStayRoutable
PROPERTIES RevokedForGood AddressesStable ImplementsDirectory

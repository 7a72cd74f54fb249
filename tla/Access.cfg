\* Two other devices and one service; three registrations or publications, a restart of
\* the server, an edit and a failure.
SPECIFICATION FairSpec
CONSTANTS
  Spelling <- MCSpelling
  normalize <- MCNormalize
  rules <- MCRules
  AllowList <- MCAllowList
  Wildcard = "*"
  Blank = ""
  Host = h
  HostGroup = "a"
  Client = {d1, d2}
  Name = {s}
  None = None
  MaxMoves = 3
  MaxRestarts = 1
  MaxEdits = 1
  MaxFailures = 1
INVARIANT AdmittedWasAllowed
PROPERTY PolicyTakesHold
CONSTRAINT InOrder
CHECK_DEADLOCK FALSE

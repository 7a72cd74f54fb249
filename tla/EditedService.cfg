\* As Access.cfg, with an edit only: no restart, no failure and nobody else.
SPECIFICATION FairSpec
CONSTANTS
  Spelling <- MCSpelling
  normalize <- MCNormalize
  rules <- MCRules
  AllowList <- MCAllowList
  Wildcard = "*"
  Blank = ""
  Host = h
  HostGroup = "a"
  Client = {d1, d2}
  Name = {s}
  None = None
  MaxMoves = 0
  MaxRestarts = 0
  MaxEdits = 1
  MaxFailures = 0
PROPERTY EditsTakeEffect
CHECK_DEADLOCK FALSE

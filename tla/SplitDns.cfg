\* Two suffixes and an unusable one, one of them also covered by a foreign rule;
\* failures, interference and kills.
SPECIFICATION FairSpec
CONSTANTS
  Suffix = {home, work, odd}
  Plain = {home, work}
  ForeignNs = {home}
  MaxRuns = 2
  MaxChanges = 4
  MaxFailures = 1
  MaxMeddles = 1
INVARIANT NothingLeftBehind
PROPERTIES ForeignKept EventuallyInStep
CHECK_DEADLOCK FALSE

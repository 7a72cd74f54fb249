\* As Manager.cfg, without faults and with every caller told apart.
SPECIFICATION Spec
CONSTANTS
  Alias = {home, work, lab}
  Caller = {c1, c2}
  Ports = 3
  BusyPorts = {2}
  Slices = 2
  None = None
  MaxRequests = 3
  MaxFaults = 0
  MaxRuns = 2
INVARIANT LocalRangesUnique
CHECK_DEADLOCK FALSE

\* Three networks for two local ranges and three ports, one of them taken by another
\* program; two calls at a time.
SPECIFICATION Spec
CONSTANTS
  Alias = {home, work, lab}
  Caller = {c1, c2}
  Ports = 3
  BusyPorts = {2}
  Slices = 2
  None = None
  MaxRequests = 3
  MaxFaults = 1
  MaxRuns = 2
SYMMETRY Symmetry
INVARIANTS EntriesMatchEngines LocalRangesDistinct NetworksKept PortIsFree
CHECK_DEADLOCK FALSE

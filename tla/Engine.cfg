\* Two other devices, a service here and one there; the server restarts, an operation
\* fails, the engine reconnects, any two of these; the local range lacks one address.
SPECIFICATION FairSpec
CONSTANTS
  d1 = d1
  d2 = d2
  s1 = s1
  Me = me
  Other = {d1, d2}
  Mine = {m1}
  Theirs <- MCTheirs
  None = None
  VipBase = 100
  Room = 4
  MaxRestarts = 1
  MaxFailures = 1
  MaxStops = 1
  MaxTrouble = 2
INVARIANT AllowedDisjoint
PROPERTIES InStepEventually HostedServed
CHECK_DEADLOCK FALSE

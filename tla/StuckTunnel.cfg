\* As Engine.cfg, with two failures and no restart or stop.
SPECIFICATION FairSpec
CONSTANTS
  d1 = d1
  d2 = d2
  s1 = s1
  Me = me
  Other = {d1, d2}
  Mine = {m1}
  Theirs <- MCTheirs
  None = None
  VipBase = 100
  Room = 5
  MaxRestarts = 0
  MaxFailures = 2
  MaxStops = 0
  MaxTrouble = 2
PROPERTY TunnelRepaired
CHECK_DEADLOCK FALSE

\* Two nodes, one of which may reopen its socket, the other sends; one datagram lost or
\* duplicated.  A proxy with three clients, one of them refused, and three sockets.
SPECIFICATION SocketsSpec
CONSTANTS
  Node = {n1, n2}
  Roaming = {n1}
  Talking = {n2}
  MaxOpens = 2
  MaxLost = 1
  MaxRestarts = 1
  MaxResets = 1
  Client = {c1, c2, c3}
  Refused = {c3}
  None = None
  MaxSockets = 3
INVARIANTS FlowsArePumped CloseIsFinal
PROPERTIES TunnelsComeUp FlowsExpire
CHECK_DEADLOCK FALSE

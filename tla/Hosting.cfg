\* The process may be killed at any step; requests may overtake AutoStart;
\* a read of the key file may fail.  The application: eight operations and service starts.
\* The tray: three networks for two items, three requests.
SPECIFICATION HostingSpec
CONSTANTS
  Conf <- MCConf
  Invalid = {"empty"}
  Mode <- MCMode
  San <- MCSan
  Caller = {c1, c2}
  None = None
  Torn = Torn
  MaxRequests = 3
  MaxFailures = 1
  MaxReadErrors = 1
  MaxRuns = 3
  TabConf = {"alpha", "beta"}
  NoConf = NoConf
  MaxCalls = 8
  Network = {1, 2, 3}
  Settings = {"s", "t"}
  TraySlots = 2
  NoNet = NoNet
  MaxChanges = 3
INVARIANTS SocketsMatch CertificateFits OperatorObeyed PinStable StopStaysStopped
  ClicksHitWhatTheyShow
CHECK_DEADLOCK FALSE

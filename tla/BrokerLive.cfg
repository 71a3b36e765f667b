SPECIFICATION FairSpec
CONSTANTS
  w1 = w1
  w2 = w2
  q1 = q1
  Wrappers = {w1}
  Ids = {w1}
  IdOf <- OwnIds
  Probes = {}
  MaxPanes = 1
  MaxConnections = 2
  MaxOpens = 2
  CloseOnSuccess = TRUE
  HoldOnFailure = TRUE
  Provider = "closable"
  None = None
CHECK_DEADLOCK FALSE
PROPERTIES CloseTerminates PaneCloseReachesWrapper HelpersEnd

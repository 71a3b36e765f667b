SPECIFICATION Spec
CONSTANTS
  w1 = w1
  w2 = w2
  q1 = q1
  Wrappers = {w1}
  Ids = {w1}
  IdOf <- OwnIds
  Probes = {q1}
  MaxPanes = 1
  MaxConnections = 2
  MaxOpens = 2
  CloseOnSuccess = TRUE
  HoldOnFailure = TRUE
  Provider = "zellij"
  None = None
CHECK_DEADLOCK FALSE
INVARIANTS PaneOwned CloseAtMostOnce OneVerdict NoForgottenWrapper SlotsBalance ClosedIsQuiet Ownership
PROPERTIES ImplementsLedger

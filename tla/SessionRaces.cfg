SPECIFICATION Spec
CONSTANTS
  s1 = s1
  s2 = s2
  a1 = a1
  a2 = a2
  a3 = a3
  h1 = h1
  h2 = h2
  e1 = e1
  e2 = e2
  Sessions = {s1, s2}
  Admins = {a1, a2}
  Kind <- CleanStop
  Hosts = {h1}
  HostOf <- OneHost
  Endpoints = {e1}
  EndpointOf <- OneEndpoint
  Ignores <- OwnIgnores
  Bridged = {s1}
  PauseOnIdle = FALSE
  Frail = {s1}
  Faults = {"timeout", "loseSync"}
  MaxSyncs = 3
  None = None
INVARIANTS LeaseGuardsRecord StoppedMeansQuiet RootInUse

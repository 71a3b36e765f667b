SPECIFICATION Spec
CONSTANTS
  s1 = s1
  s2 = s2
  a1 = a1
  a2 = a2
  a3 = a3
  h1 = h1
  h2 = h2
  e1 = e1
  e2 = e2
  Sessions = {s1, s2}
  Admins = {a1, a2, a3}
  Kind <- HostCommands
  Hosts = {h1, h2}
  HostOf <- TwoHosts
  Endpoints = {e1, e2}
  EndpointOf <- NewEndpoint
  Ignores <- SameIgnores
  Bridged = {s1}
  PauseOnIdle = TRUE
  Frail = {s1}
  Faults = {}
  MaxSyncs = 2
  None = None
INVARIANTS HostUseInv
PROPERTIES ImplementsHostUse

SPECIFICATION FairSpec
CONSTANTS
  s1 = s1
  s2 = s2
  a1 = a1
  a2 = a2
  a3 = a3
  h1 = h1
  h2 = h2
  e1 = e1
  e2 = e2
  Sessions = {s1, s2}
  Admins = {a1}
  Kind <- Clean
  Hosts = {h1}
  HostOf <- OneHost
  Endpoints = {e1}
  EndpointOf <- OneEndpoint
  Ignores <- SameIgnores
  Bridged = {s1}
  PauseOnIdle = TRUE
  Frail = {a1}
  Faults = {"mutagen", "remote", "disk", "loseRoot"}
  MaxSyncs = 2
  None = None
INVARIANTS WorkIsRecorded
PROPERTIES RetentionHonest SignalledEnds HostLockReleased

SPECIFICATION FairSpec
CONSTANTS
  c1 = c1
  c2 = c2
  c3 = c3
  d1 = d1
  d2 = d2
  d3 = d3
  Clients = {c1, c2, c3}
  Digests = {d1, d2, d3}
  Kept = 1
  MaxMasters = 3
  Settings <- All
  None = None
INVARIANTS AgentsUsable NothingLeftBehind BrokersReachable
PROPERTIES MasterOutlivesUsers ClientsSettle

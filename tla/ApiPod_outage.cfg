\* Three threads, one connection, a pool that waits less than a probe's period.
CONSTANTS
  Clients = {c1, c2}
  Probes = {p1, p2}
  NoProbe = NoProbe
  Threads = 3
  PoolSize = 1
  Patience = 0
  StartupThreshold = 2
  ReadinessThreshold = 2
  LivenessThreshold = 2
SPECIFICATION FairSpec
INVARIANT SilentOnlyUnderClients
PROPERTIES RequestsEnd ReadyAgain

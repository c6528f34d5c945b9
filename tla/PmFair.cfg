\* Fairness: overlapping calls, idle collection, shutdown and restart.
SPECIFICATION FairSpec
CONSTANTS
  c1 = c1  c2 = c2
  m1 = m1  m2 = m2
  p1 = p1  p2 = p2  p3 = p3
  Models = {m1}
  Callers = {c1, c2}
  Pids = {p1}
  Ports = {1}
  IdleTimeout = 0
  AllowShutdown = TRUE
  NoPid = NoPid
  NoModel = NoModel
PROPERTIES EnsureReturns DeadLeavesTable IdleIsCollected StopAllKills

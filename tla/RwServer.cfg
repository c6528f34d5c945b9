\* Recruiting, stopping, crashes, shutdown and restart, under fairness.
SPECIFICATION FairSpec
CONSTANTS
  c1 = c1  c2 = c2
  p1 = p1  p2 = p2  p3 = p3
  Callers = {c1, c2}
  Pids = {p1, p2}
  AllowShutdown = TRUE
  NoPid = NoPid
INVARIANTS TypeOK CmdIsTheServer
PROPERTIES RecruitAnswered StopTakesEffect

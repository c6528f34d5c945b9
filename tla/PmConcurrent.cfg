\* Overlapping calls for one model.
SPECIFICATION Spec
CONSTANTS
  c1 = c1  c2 = c2
  m1 = m1  m2 = m2
  p1 = p1  p2 = p2  p3 = p3
  Models = {m1}
  Callers = {c1, c2}
  Pids = {p1, p2}
  Ports = {1, 2}
  IdleTimeout = 1
  AllowShutdown = FALSE
  NoPid = NoPid
  NoModel = NoModel
SYMMETRY Symmetry
INVARIANTS LoadingHasOwner DeadEntryIsDropped KillsOnlyForgotten
PROPERTY LostOnlyByRelaunch CollideOnlyBeforeBind

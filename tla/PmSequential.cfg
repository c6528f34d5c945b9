\* One call at a time, two models.
SPECIFICATION Spec
CONSTANTS
  c1 = c1  c2 = c2
  m1 = m1  m2 = m2
  p1 = p1  p2 = p2  p3 = p3
  Models = {m1, m2}
  Callers = {c1}
  Pids = {p1, p2, p3}
  Ports = {1, 2}
  IdleTimeout = 0
  AllowShutdown = FALSE
  NoPid = NoPid
  NoModel = NoModel
SYMMETRY Symmetry
INVARIANTS TypeOK NoOrphan ReadyIsServing PortsDistinct
PROPERTY RefinesLifecycle

\* A pipeline that is loaded, and what is planned then.
SPECIFICATION Spec
CONSTANTS
  d = d  w1 = w1  w2 = w2
  c1 = c1  c2 = c2
  NodeSeq <- MCNodes
  Driver = d
  Total <- MCTotal
  Base = big
  Size = 8
  Calls = {c1, c2}
  MaxFaults = 0
  None = None
INVARIANT WarmIsReused

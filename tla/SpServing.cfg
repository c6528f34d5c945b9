\* Two requests for either spelling; one thing goes wrong.
SPECIFICATION FairSpec
CONSTANTS
  d = d  w1 = w1  w2 = w2
  c1 = c1  c2 = c2
  NodeSeq <- MCNodes
  Driver = d
  Total <- MCTotal
  Base = big
  Size = 8
  Calls = {c1, c2}
  MaxFaults = 1
  None = None
INVARIANT TypeOK
PROPERTIES PlannedLaunchFits RoomIsUsed

\* Two peers that come, go and swap two addresses; times scaled down.
SPECIFICATION Spec
CONSTANTS
  p1 = p1  p2 = p2
  a1 = a1  a2 = a2
  Peers = {p1, p2}
  Watched = p1
  Addrs = {a1, a2}
  Pool = home
  PoolNames = {home}
  None = None
  StaleAfter = 2
  PollEvery = 1
  FetchTimeout = 1
  PruneEvery = 1
SYMMETRY Symmetry
INVARIANTS TypeOK LivePeerIsFresh OnlineWasThere DepartedIsPruned

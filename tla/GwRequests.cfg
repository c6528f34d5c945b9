\* Two requests over two nodes, clients that leave, agents that stop, under fairness.
SPECIFICATION FairSpec
CONSTANTS
  n1 = n1  n2 = n2
  r1 = r1  r2 = r2
  secret = secret
  NoToken = NoToken
  Nodes = {n1, n2}
  Requests = {r1, r2}
  Token <- MCToken
  NoNode = NoNode
  Keep = 2
  MaxRouted = 3
INVARIANTS TypeOK ActiveLacksSelfDriven HistoryAccounts
PROPERTY ForsakenIsReleased

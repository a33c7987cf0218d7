SPECIFICATION LiveSpec
CONSTANTS
  c1 = c1  c2 = c2  c3 = c3
  d1 = d1  d2 = d2
  k1 = k1  k2 = k2
  Client = {c1, c2}
  Coin = {k1}
  Denom = {d1, d2}
  NoDenom = NoDenom
  NoClient = NoClient
  MaxPoolTransactions = 2
  MaxJoins = 1
  MaxDrops = 2
PROPERTIES ServerRecovers ClientsRecover ReadySessionCommits
\* Joins and broken connections are bounded: the behaviours end there.
CHECK_DEADLOCK FALSE

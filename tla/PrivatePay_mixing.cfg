SPECIFICATION Spec
CONSTANTS
  c1 = c1  c2 = c2  c3 = c3
  d1 = d1  d2 = d2
  k1 = k1  k2 = k2
  Client = {c1, c2}
  Coin = {k1, k2}
  Denom = {d1, d2}
  NoDenom = NoDenom
  NoClient = NoClient
  MaxPoolTransactions = 2
  MaxJoins = 2
  MaxDrops = 2
SYMMETRY Symmetry
INVARIANTS TypeOK PoolConsistent SignersAreInThePool SignaturesFit ClientsConsistent
PROPERTY ImplementsMixing
\* Joins and broken connections are bounded: the behaviours end there.
CHECK_DEADLOCK FALSE

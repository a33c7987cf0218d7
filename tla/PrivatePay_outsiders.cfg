SPECIFICATION Spec
CONSTANTS
  c1 = c1  c2 = c2  c3 = c3
  d1 = d1  d2 = d2
  k1 = k1  k2 = k2
  Client = {c1, c2, c3}
  Coin = {k1}
  Denom = {d1}
  NoDenom = NoDenom
  NoClient = NoClient
  MaxPoolTransactions = 2
  MaxJoins = 1
  MaxDrops = 0
SYMMETRY Symmetry
INVARIANT OnlyParticipantsMix
\* Joins and broken connections are bounded: the behaviours end there.
CHECK_DEADLOCK FALSE

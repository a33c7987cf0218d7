SPECIFICATION Spec
CONSTANTS
  n1 = n1  n2 = n2
  m1 = m1  m2 = m2  m3 = m3
  t1 = t1  t2 = t2
  o1 = o1  o2 = o2
  NoTx = NoTx
  NoMn = NoMn
  Node = {n1, n2}
  Masternode = {m1, m2, m3}
  KnownAtStart = {m1, m2, m3}
  Tx = {t1, t2}
  Outpoint = {o1}
  MnOf <- Pair
  Inputs <- OneInput
  Stray = {}
  TopRank <- AllRanked
  SIGNATURES_REQUIRED = 2
  SIGNATURES_TOTAL = 3
  ORPHAN_VOTE_SECONDS = 0
  ORPHAN_RATE_SECONDS = 1
  nInstaPayKeepLock = 1
  BLOCK_FILTERING = TRUE
  MaxHeight = 1
  MaxTime = 0
  MaxRestarts = 0
  MaxReorg = 0
SYMMETRY PairSymmetry
INVARIANT NoConflictingLocks
PROPERTY ImplementsTxLock
\* Heights, time and restarts are bounded: the behaviours end there.
CHECK_DEADLOCK FALSE

SPECIFICATION Spec
CONSTANTS
  n1 = n1  n2 = n2
  m1 = m1  m2 = m2  m3 = m3
  t1 = t1  t2 = t2
  o1 = o1  o2 = o2
  NoTx = NoTx
  NoMn = NoMn
  Node = {n1}
  Masternode = {m1, m2}
  KnownAtStart = {m1, m2}
  Tx = {t1, t2}
  Outpoint = {o1}
  MnOf <- Solo
  Inputs <- OneInput
  Stray = {}
  TopRank <- AllRanked
  SIGNATURES_REQUIRED = 2
  SIGNATURES_TOTAL = 2
  ORPHAN_VOTE_SECONDS = 0
  ORPHAN_RATE_SECONDS = 1
  nInstaPayKeepLock = 1
  BLOCK_FILTERING = TRUE
  MaxHeight = 4
  MaxTime = 0
  MaxRestarts = 1
  MaxReorg = 1
SYMMETRY SoloSymmetry
INVARIANTS TypeOK LockBackedByQuorum MempoolHonoursLocks MempoolConsistent ConfirmedHeightIsTrue
\* Heights, time and restarts are bounded: the behaviours end there.
CHECK_DEADLOCK FALSE

SPECIFICATION Spec
CONSTANTS
  Peer = {p1, p2}
  MaxBroadcasts = 2
  MaxFaults = 1
  MIN_MNB = 1
  MIN_MNP = 1
  STALE = 2
  EXPIRATION = 2
  NEW_START = 3
  RETRY = 1
  MAX_SCORE = 1
  BAN = 1
  QUORUM_TOTAL = 2
  QUORUM_REQUIRED = 2

SYMMETRY Symmetry
INVARIANTS
  TypeOK
  ListedIsSeen
PROPERTIES
  NewStartNeedsQuorum
  BanIsServed

SPECIFICATION LiveSpec
CONSTANTS
  Peer = {p1}
  MaxBroadcasts = 2
  MaxFaults = 1
  MIN_MNB = 1
  MIN_MNP = 1
  STALE = 2
  EXPIRATION = 2
  NEW_START = 3
  RETRY = 1
  MAX_SCORE = 1
  BAN = 1
  QUORUM_TOTAL = 0
  QUORUM_REQUIRED = 1
PROPERTIES
  AnnouncedIsListed

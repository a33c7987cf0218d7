SPECIFICATION LiveSpec
CONSTANTS
  Masternode = {a, b}
  MaxTime = 2
  MaxVotes = 2
  MaxFaults = 2
  nGovernanceMinQuorum = 2

INVARIANTS
  TypeOK
  IndexIsTrue
  CurrentIsNewest
  GoneIsFlagged
PROPERTIES
  DeletionNeedsQuorum
  VotesAreCounted
CHECK_DEADLOCK FALSE

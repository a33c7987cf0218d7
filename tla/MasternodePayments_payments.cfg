SPECIFICATION LiveSpec
CONSTANTS
  Voter = {m1, m2, m3}
  Payee = {p1, p2}
  Self = {m1}
  SIGNATURES_REQUIRED = 2
  ForkBlock = FALSE
  MaxFaults = 1
INVARIANTS TypeOK CountsAreHonest NoSplit MinedBlockIsValid
PROPERTY VotesAreCounted
\* The block becomes too old: the behaviours end there.
CHECK_DEADLOCK FALSE

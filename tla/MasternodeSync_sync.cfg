SPECIFICATION LiveSpec
CONSTANTS
  Peer = {p1}
  Unreliable = {}
  Old = {}
  TIMEOUT = 1
  COOLDOWN = 1
  MaxDisturbances = 2
INVARIANTS TypeOK  TickNeverThrows
PROPERTY SyncEnds

SPECIFICATION MCSpec
CONSTANTS
  Components = {"sessions"}
  Ids = {i1, i2}
  Users = {u1, u2}
  Requests = {r1, r2, r3}
  Nobody = Nobody
  NoEntry = NoEntry
  MaxChanges = 0
  ReceiverSettings <- MCReceivers
  Frames = 2
  MaxBatches = 2
  MaxConns = 3
  MaxTurns = 3
INVARIANTS ReplaceClosesAll
SYMMETRY Symmetry
CHECK_DEADLOCK FALSE

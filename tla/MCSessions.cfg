SPECIFICATION MCSpec
CONSTANTS
  Components = {"sessions", "forward"}
  Ids = {i1}
  Users = {u1, u2}
  Requests = {r1, r2, r3}
  Nobody = Nobody
  NoEntry = NoEntry
  MaxChanges = 1
  ReceiverSettings <- MCReceivers
  Frames = 2
  MaxBatches = 2
  MaxConns = 3
  MaxTurns = 3
INVARIANTS OnlyOwnerUses LiveIsListed DeliveryHonest
SYMMETRY Symmetry
CHECK_DEADLOCK FALSE

SPECIFICATION ShipSpec
CONSTANTS
  Records = {r1, r2}
  Others = {cp}
  MaxLog = 3
  Batch = 2
  Long = {}
INVARIANTS NoneSkipped

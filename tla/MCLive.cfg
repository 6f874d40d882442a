SPECIFICATION MCSpec
CONSTANTS
  Calls = {c1}
  MaxEgress = 2
  MaxAsks = 3
  MaxSends = 3
  MaxStarts = 2
  d1 = d1
  d2 = d2
  dbad = dbad
  dwild = dwild
  Missing = Missing
  MaxInstalls = 0
  MaxMoves = 3
  Configs = {"plain", "user", "pair", "both", "typo", "aws"}
  Docs = {1, 2}
  References <- MCReferences
  Broken = "broken"
  Sources = {"file", "vault"}
  Compiled = {"file", "vault"}
  MaxRotations = 1
  MaxEdits = 1
  MaxFaults = 1
INVARIANTS NoHoles EgressAccounted
PROPERTIES CallsEnd BundleSettles SecretsConverge
CHECK_DEADLOCK FALSE

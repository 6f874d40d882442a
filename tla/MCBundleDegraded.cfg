SPECIFICATION Spec
CONSTANTS
  Docs = {d1, d2, dbad, dwild}
  Compiles = {d1, d2, dwild}
  Signed = {d1, d2, dbad}
  First = d1
  Missing = Missing
  MaxEdits = 2
  MaxInstalls = 0
  MaxRuns = 1
  MaxMoves = 3
INVARIANTS DegradedSaysSo
CHECK_DEADLOCK FALSE

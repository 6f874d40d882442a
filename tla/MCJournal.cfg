SPECIFICATION Spec
CONSTANTS
  Records = {r1, r2, r3}
  Procs = {p1, p2}
  NoProc = NoProc
  Tick = Tick
  Seal = Seal
  Torn = Torn
  MaxBatch = 2
  QueueDepth = 2
  EveryRecords = 2
  SeqMax = 5
SYMMETRY Symmetry
INVARIANTS WrittenOnce Contiguous AckedDurable ExportsBacked WritersSound VerifierExact
PROPERTIES DurableKept

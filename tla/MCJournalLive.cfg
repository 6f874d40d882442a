SPECIFICATION FairSpec
CONSTANTS
  Records = {r1, r2}
  Procs = {p1, p2}
  NoProc = NoProc
  Tick = Tick
  Seal = Seal
  Torn = Torn
  MaxBatch = 2
  QueueDepth = 2
  EveryRecords = 2
  SeqMax = 4
PROPERTIES ImplementsAuditLog EveryCallerAnswered CloseComplete

SPECIFICATION MCSpec
CONSTANTS
  none = none
  d1 = d1
  d2 = d2
  dbad = dbad
  dwild = dwild
  Docs <- MCDocs
  Compiles <- MCCompiles
  Signed <- MCSigned
  First = d1
  Missing = Missing
  MaxEdits = 2
  MaxInstalls = 1
  MaxRuns = 2
  MaxMoves = 3
  Calls = {q1, q2}
  MaxEgress = 1
  MaxAsks = 1
  MaxSends = 1
  MaxStarts = 2
  Readers = {v1, v2}
  MaxTokens = 3
  MaxRefusals = 2
  Callers = {t1, t2}
  Identities = {"old", "new"}
  Ttls = {0, 3}
  Fallback = 3
  Floor = 1
  Skew = 1
  RefreshTtl = 3
  MaxMinted = 2
  MaxClock = 3
  Sessioners = {c1, c2}
  Aliases = {"qa", "top"}
  NoAlias = "top"
  Nobody = none
  MaxKeys = 2
  ConsoleConfigs <- MCConsoleConfigs
  Sites <- MCSites
  SlotOf <- MCSlotOf
  EntrySites = {"entry"}
  Trim <- MCTrim
  RefTexts = {"vault://x"}
  Fetched <- MCFetched
  Texts = {"keychain", "keychain://", "x", "y", " x", " keychain", " ", "vault://x"}
  Values = {"x", "y"}
  Absent = "-"
  MaxCallFaults = 2
  Capacity = 2
  Batch = 2
  UsageKinds <- MCKinds
  Retention = 1
  PruneEvery = 2
  MaxEvents = 3
  MaxTime = 2
  MaxFailures = 1
INVARIANTS EvidenceKept GovernedByEvidence ForbiddenIsFresh UsageReported BearerUsable RightAccount 
PROPERTIES InstallHolds
CHECK_DEADLOCK FALSE

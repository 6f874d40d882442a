SPECIFICATION MCSpec
CONSTANTS
  f1 = f1
  f2 = f2
  o1 = o1
  o2 = o2
  Files <- MCFiles
  Ops <- MCOps
  Leases <- MCLeases
  Files2Op <- MCFiles2Op
  OpOf <- MCOpOf
  Ask <- MCAsk
  WithManifest <- MCWithManifest
  Limit = 3
  MaxBytes = 2
  MaxPins = 1
  Reclaims = 2
  Calls = {c1, c2, c3}
  Keys = {k1, k2}
  Urls <- MCUrls
  Base = "base"
  OriginOf <- MCOriginOf
  Secure = {"base", "page", "store", "elsewhere", "barred"}
  Denied = {"barred"}
  Allowed = {"cdn"}
  MaxEntries = 1
  MaxAttempts = 2
  MaxHops = 2
  Jobs <- MCJobs
  Stores <- MCStores
  Shapes <- MCShapes
  Second = 2
  Concurrency = 2
  MaxPartitions = 16
  MaxRecords = 6
  NoLimit = 99
  MaxFaults = 1
INVARIANTS NeverPanics
CHECK_DEADLOCK FALSE

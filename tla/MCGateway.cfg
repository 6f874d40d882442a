SPECIFICATION MCSpec
CONSTANTS
  ta = ta
  tb = tb
  xread = xread
  Asks = {x1, x2, xread}
  Permits = 2
  Targets = {"t1"}
  Unheld = Unheld
  MaxRecords = 2
  LabelledVendors = {"bitbucket", "jira", "zoom", "wrds", "mend", "slack"}
  Reqs = {r1, r2}
  Tokens = {ta, tb}
  TokenOf <- MCTokenOf
  Kids = {"k"}
  Docs <- MCDocs
  DocOf <- MCDocOf
  Lists <- MCLists
  Commands <- MCCommands
  Settings <- MCSettings
  Capacity = 1
  Subjects = {s1, s2, s3}
  Cost = 3
  Rate = 2
  Burst = 6
  MaxTracked = 2
  Idle = 2
  SweepGap = 2
  MaxTime = 4
  Vendors = {"bitbucket", "jira"}
  Aliases <- MCAliases
  References = {"ref"}
  Blanks = {""}
  Dropped = {"object"}
  Unset = "unset"
  Launches <- MCLaunches
  GlobalFiles <- MCFiles
  MaxEdits = 1
  NotGiven = NotGiven
  Keys = {"k1", "k2"}
  BadKeys = {"k/.."}
  NoConstraint = NoConstraint
  NoKey = NoKey
SYMMETRY Symmetry
INVARIANTS LiveKeysOnly BudgetKept AdminEvidenced EnterpriseComplete PolicyExact 
CHECK_DEADLOCK FALSE

SPECIFICATION MCSpec
CONSTANTS
  Records = {r1, r2}
  Others = {cp}
  MaxLog = 3
  Batch = 2
  Long = {r1, cp}
  Ids = {i1}
  Users = {u1}
  Requests = {q1, q2}
  Nobody = Nobody
  NoEntry = NoEntry
  MaxChanges = 1
INVARIANTS DeliveredFaithfully
PROPERTIES EverythingForwarded IdleSessionsEnd
CHECK_DEADLOCK FALSE

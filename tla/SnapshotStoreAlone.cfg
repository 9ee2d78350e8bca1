CONSTANTS
  p1 = p1
  p2 = p2
  u1 = u1
  u2 = u2
  u3 = u3
  b1 = b1
  NoRecord = NoRecord
  Process = {p1}
  Update = {u1, u2, u3}
  BackupId = {b1}
  Guarded = {}
  Flushers = {p1}
  MaxPending = 3
  MaxRestarts = 2
SPECIFICATION MCFairSpec
INVARIANT DrainedIsCurrent
PROPERTIES AcceptedReachesDatabase

CONSTANTS
  p1 = p1
  p2 = p2
  u1 = u1
  u2 = u2
  u3 = u3
  b1 = b1
  NoRecord = NoRecord
  Process = {p1, p2}
  Update = {u1, u2}
  BackupId = {}
  Guarded = {}
  Flushers = {}
  MaxPending = 2
  MaxRestarts = 0
SPECIFICATION MCSpec
PROPERTIES DurableIsKept

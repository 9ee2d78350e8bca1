CONSTANTS
  p1 = p1
  p2 = p2
  u1 = u1
  u2 = u2
  u3 = u3
  a1 = a1
  a2 = a2
  e1 = e1
  e2 = e2
  None = None
  NoRecord = NoRecord
  Process = {p1, p2}
  Update = {u1, u2, u3}
  BackupId = {}
  Guarded = {p1, p2}
  Flushers = {}
  MaxPending = 2
  MaxRestarts = 2
  AuditProcess = {a1, a2}
  Event = {e1, e2}
  ExportId = {"export"}
  WindowId = {"window"}
  AuditBackupId = {"backup"}
  MaxTime = 1
  MaxDeliveries = 2
  MaxQueued = 2
  MaxStarts = 1
SPECIFICATION MCSpec
SYMMETRY Symmetric
CONSTRAINTS
  SharedOnlyAppends
  FewRecords
  OrderedPeriods
INVARIANTS
  AuditRowsAreAChain
  ListedBackupIsStored
  VerifiedMeansDelivered
PROPERTIES
  DurableIsKept
CHECK_DEADLOCK FALSE

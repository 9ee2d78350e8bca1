CONSTANTS
  g1 = g1
  g2 = g2
  r1 = r1
  p1 = p1
  None = None
  GraphId = {g1, g2}
  NativeGrant = {g2}
  JobId = {r1, p1}
  RunId = {r1}
  SeedId = {g1, g2}
  Injected <- WithoutLocalFiles
  MaxReceipts = 3
  MaxEvents = 3
  MaxCrashes = 2
  MaxFailures = 2
SPECIFICATION Spec
INVARIANTS
  AuditTrailIsSound
  AcknowledgedEventSurvives
  AcknowledgedRecordSurvives
PROPERTIES
  ImplementsAuditLedger
CHECK_DEADLOCK FALSE

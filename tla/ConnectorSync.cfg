SPECIFICATION FairSpec
CONSTANTS
  u1 = u1
  s1 = s1
  g1 = g1
  None = None
  Caller = {c1}
  Path <- MCPath
  Item <- MCItem
  pathOf <- MCpathOf
  DeltaPath <- MCDelta
  principalOf <- MCprincipalOf
  targetOf <- MCtargetOf
  MaxPages = 1
  MaxRetries = 1
  MaxChanges = 1
  MaxCalls = 2
  MayReject = TRUE
INVARIANTS
  DeltaStateIsSound
  LossIsAnnounced
PROPERTIES
  CallsEnd
CHECK_DEADLOCK FALSE

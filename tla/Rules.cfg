CONSTANTS
  None = None
  Unreadable = Unreadable
  u = u
  g = g
  s = s
  x = x
  t = t
  d = d
  f1 = f1
  f2 = f2
  f3 = f3
  a1 = a1
  q1 = q1
  MaxDriveItemDepth = 2
  Now = 3
  LatencyWindow = 1
  ActivityWindow = 2
  FindingWindow = 1
  Model <- MCModel
  CaveatModel <- Caveats
  Request <- Requests
  Environment <- Environments
  App <- Apps
  Description <- Descriptions
  Pilot <- Pilots
  Tenant <- MCTenant
  Organization <- MCOrganization
  Exporter <- Exporters
  ControlList <- Controls
  Period <- Periods
  ExportedAt = 2
  Signer <- Ed25519Signer
  OwnKeys <- OwnVerifier
  TrustedKeys <- Verifiers
  Presented <- ChangedPackages
  Batches <- MCBatches
SPECIFICATION Spec
INVARIANTS
  ValidModelIsHonoured
  ReadyIsEarned
  BodyReachesHandler
  VerifiesExactlyAsSigned
  SnapshotIsFaithful
CHECK_DEADLOCK FALSE

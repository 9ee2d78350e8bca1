CONSTANTS
  w1 = w1
  w2 = w2
  c1 = c1
  k1 = k1
  k2 = k2
  x1 = x1
  x2 = x2
  b1 = b1
  p1 = p1
  NoWorker = NoWorker
  NoJob = NoJob
  NoBackup = NoBackup
  Worker = {w1, w2}
  WorkerId <- MCWorkerId
  workerIdOf <- OwnNames
  Key = {k1, k2}
  Connector = {c1}
  Payload = {x1, x2}
  Request <- LiveRequests
  ProvisioningJob <- LiveProvisioningJobs
  ProvisioningJobId = {p1}
  LeaseDuration = 2
  InitialDelay = 1
  MaxDelay = 1
  Multiplier = 3
  DefaultMaxAttempts = 2
  AttemptCap = 2
  MaxJobs = 2
  BackupId = {}
  MaxRestores = 0
SPECIFICATION FairSpec
INVARIANT DeadLetterAfterAllAttempts
PROPERTIES OnlyHolderReports ImplementsLedger EmergencyRevocationsSettle JobsSettle

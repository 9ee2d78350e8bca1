CONSTANTS
  w1 = w1
  w2 = w2
  c1 = c1
  k1 = k1
  k2 = k2
  x1 = x1
  x2 = x2
  b1 = b1
  p1 = p1
  NoWorker = NoWorker
  NoJob = NoJob
  NoBackup = NoBackup
  Worker = {w1}
  WorkerId <- MCWorkerId
  workerIdOf <- OwnNames
  Key = {k1, k2}
  Connector = {c1}
  Payload = {x1, x2}
  Request <- RestoreRequests
  ProvisioningJob <- RestoreProvisioningJobs
  ProvisioningJobId = {p1}
  LeaseDuration = 1
  InitialDelay = 1
  MaxDelay = 1
  Multiplier = 3
  DefaultMaxAttempts = 1
  AttemptCap = 2
  MaxJobs = 2
  BackupId = {b1}
  MaxRestores = 1
SPECIFICATION Spec
INVARIANT JobsAreSound
PROPERTY TerminalIsFinal

CONSTANTS
  mock = mock
  sample = sample
  p = p
  q = q
  alice = alice
  ticket = ticket
  c1 = c1
  c2 = c2
  k1 = k1
  k2 = k2
  Caller = {c1}
  Connector = {mock, sample}
  Mock = {mock}
  Provisions = {mock}
  ReadsBack = {mock, sample}
  PlanId = {p, q}
  connectorOf <- OnBoth
  Key = {k1, k2}
  Approver = {alice}
  Ticket = {ticket}
  Approval <- TwoApprovals
  Control <- FitControls
  None = None
  MaxReports = 1
  MaxTime = 0
  d1 = d1
  i1 = i1
  s1 = s1
  s2 = s2
  f1 = f1
  Null = None
  Finding = {f1}
  Task = {c1, c2}
  DriftReport <- Reports
  Policy <- AutoRepairs
  RemediationDays = 1
  ExceptionDays = 1
  MaxDays = 2
  MaxRuns = 2
  Draft = {d1}
  PolicyKey = {k1, k2}
  MaxEvents = 6
  Run = {c1, c2}
  Scenarios <- ThreeScenarios
  MaxPages = 1
  Id = {i1}
  Subject = {s1, s2}
  MaxScopes = 2
  MaxWrites = 2
  MaxNoted = 0
  LastMoment = 1
  Input <- Inputs
  ApiKeys <- TwoKeys
  AppActor = "service:api"
  Window = 2
  MaxRequests = 3
  MaxMinutes = 3
SPECIFICATION MCSpec
INVARIANTS
  KeyNamesOneJob
  AppliedPlanHasCompletedJob
  PublishedIsAccountedFor
  EngineSeesTheStore
  ReconciliationIsSound
  CallersAreAccountedFor
  UndisturbedRunIsWhole
PROPERTY
  ExpiryIsFinal
CHECK_DEADLOCK FALSE

CONSTANTS
  mock = mock
  sample = sample
  p = p
  q = q
  alice = alice
  ticket = ticket
  c1 = c1
  c2 = c2
  k1 = k1
  k2 = k2
  Caller = {c1, c2}
  Connector = {mock}
  Mock = {mock}
  Provisions = {mock}
  ReadsBack = {mock}
  PlanId = {p}
  connectorOf <- OnMock
  Key = {k1}
  Approver = {alice}
  Ticket = {ticket}
  Approval <- TwoApprovals
  Control <- TwoControls
  None = None
  MaxReports = 2
  MaxTime = 1
SYMMETRY Callers
SPECIFICATION Spec
INVARIANTS
  ReportIdsAreFresh
  EnforcementIsAuthorized
  OutcomeIsTrue
CHECK_DEADLOCK FALSE

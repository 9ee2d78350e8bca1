------------------------------- MODULE Drift -------------------------------
(***************************************************************************)
(* Drift findings: reconciliation runs and dry-run remediations, both with *)
(* an await between what they read and what they write                     *)
(* (api/src/runtime-reconciliation.ts, core/src/drift-lifecycle.ts), and   *)
(* the governance records that an evidence export derives from the         *)
(* findings (core/src/governance.ts).                                      *)
(*                                                                         *)
(* Audit events and the copies of the records in the job queue and in the  *)
(* repositories are those of RuntimePersistence; the plans of Provisioning.*)
(***************************************************************************)
EXTENDS Naturals, FiniteSets, FiniteSetsExt

CONSTANTS
  Finding,         \* ids of drift findings
  Call,            \* requests that may be in progress at the same time
  Report,          \* what a connector may report of a finding: [severity, action, hasGrant]
  Policy,          \* auto-repair policies of the requests: [allowed, max, live]
  None,
  RemediationDays, \* days until a remediation is due
  ExceptionDays,   \* days until an exception expires
  MaxTime,         \* bound: the clock
  MaxRuns          \* bound: reconciliations started

VARIABLES
  findings,     \* #driftFindings
  runs,         \* keys of #reconciliationRuns
  sequence,     \* appRecordSequences of the connector
  finished,     \* how many reconciliations have answered
  calls,        \* requests in progress
  governance,   \* #governanceFindings, by drift finding
  exceptions,   \* #exceptionRequests, by drift finding
  campaign,     \* #accessReviewCampaigns: the local one
  today

driftVars == <<findings, runs, sequence, finished, calls, governance, exceptions, campaign, today>>

\* severityRank
Low == 1
High == 3
Critical == 4

---------------------------------------------------------------------------
(* drift-lifecycle.ts *)

resolveDriftLifecycleState(status, exceptionExpiresAt) ==
  IF exceptionExpiresAt # None /\ exceptionExpiresAt <= today THEN "expired_exception" ELSE status

createDefaultDriftAutoRepairPolicy(severity, action) ==
  [allowed |-> {action} \cap {"repair", "revoke"}, max |-> IF severity = Critical THEN High ELSE severity, live |-> FALSE]

driftSeverityAllowed(severity, max) == severity <= max

\* enrichDriftFindingLifecycle of what the connector reports; the grant is the reported or
\* the inferred one (inferNativeGrantIdForFinding).
enrichDriftFindingLifecycle(r) ==
  [severity |-> r.severity, action |-> r.action, hasGrant |-> r.hasGrant, status |-> "open", detected |-> today,
   lifecycle |-> resolveDriftLifecycleState("open", None),
   policy |-> createDefaultDriftAutoRepairPolicy(r.severity, r.action), approved |-> FALSE]

---------------------------------------------------------------------------
(* runReconciliation *)

\* nextAppRecordSequence
nextAppRecordSequence == Max({sequence, Cardinality(runs)}) + 1

\* The number is taken before the connector is asked.
StartReconciliation(c) ==
  /\ calls[c] = None
  /\ sequence < MaxRuns
  /\ sequence' = nextAppRecordSequence
  /\ calls' = [calls EXCEPT ![c] = [kind |-> "reconcile", number |-> nextAppRecordSequence, started |-> today]]
  /\ UNCHANGED <<findings, runs, finished, governance, exceptions, campaign, today>>

\* What the connector reports replaces what was stored under the same ids.
FinishReconciliation(c, f, r) ==
  /\ calls[c] # None /\ calls[c].kind = "reconcile"
  /\ findings' = [findings EXCEPT ![f] = enrichDriftFindingLifecycle(r)]
  /\ runs' = runs \cup {[started |-> calls[c].started, number |-> calls[c].number]}
  /\ finished' = finished + 1
  /\ calls' = [calls EXCEPT ![c] = None]
  /\ UNCHANGED <<sequence, governance, exceptions, campaign, today>>

\* The connector, or the plan of a remediation, fails.
FailCall(c) ==
  /\ calls[c] # None
  /\ calls' = [calls EXCEPT ![c] = None]
  /\ UNCHANGED <<findings, runs, sequence, finished, governance, exceptions, campaign, today>>

---------------------------------------------------------------------------
(* planDriftRemediationDryRun *)

driftRemediationAction(action) == IF action = "exception" THEN "review" ELSE action

assertDriftRemediationControls(finding, policy) ==
  /\ ~ policy.live
  /\ driftSeverityAllowed(finding.severity, policy.max)
  /\ driftRemediationAction(finding.action) \in policy.allowed

\* The request has passed its checks and waits for the plan; the finding is the one it read.
StartRemediation(c, f, policy) ==
  /\ calls[c] = None
  /\ findings[f] # None
  /\ assertDriftRemediationControls(findings[f], policy)
  /\ findings[f].action = "revoke" => findings[f].hasGrant
  /\ calls' = [calls EXCEPT ![c] = [kind |-> "remediate", finding |-> f, read |-> findings[f], policy |-> policy]]
  /\ UNCHANGED <<findings, runs, sequence, finished, governance, exceptions, campaign, today>>

Repairing(finding, policy) ==
  [finding EXCEPT !.status = "repairing", !.lifecycle = "repairing", !.policy = policy, !.approved = TRUE]

\* Wrong: the approval is merged into the finding that is stored now.
MergeRemediation(c) ==
  /\ calls[c] # None /\ calls[c].kind = "remediate"
  /\ findings' = [findings EXCEPT ![calls[c].finding] = Repairing(@, calls[c].policy)]
  /\ calls' = [calls EXCEPT ![c] = None]
  /\ UNCHANGED <<runs, sequence, finished, governance, exceptions, campaign, today>>
\* The finding as it was read is written back.
FinishRemediation(c) ==
  /\ calls[c] # None /\ calls[c].kind = "remediate"
  /\ findings' = [findings EXCEPT ![calls[c].finding] = Repairing(calls[c].read, calls[c].policy)]
  /\ calls' = [calls EXCEPT ![c] = None]
  /\ UNCHANGED <<runs, sequence, finished, governance, exceptions, campaign, today>>

---------------------------------------------------------------------------
(* governance.ts *)

requiresExceptionRequest(d) == d.action = "exception" \/ d.severity >= High

remediationStatus(d, due) ==
  CASE d.status = "resolved" -> "completed"
    [] d.status = "repairing" -> "in_progress"
    [] d.status \notin {"resolved", "repairing"} /\ today > due -> "overdue"
    [] OTHER -> IF d.action = "review" THEN "open" ELSE "planned"

buildRemediationTracking(d, existing) ==
  LET due == IF existing = None THEN d.detected + RemediationDays ELSE existing.due
  IN  [status |-> remediationStatus(d, due), due |-> due]

\* Wrong: the term runs from the latest detection.
TermFromDetection(d, request) == d.detected + ExceptionDays
\* exceptionExpiresAt, and expiresAt of buildExceptionRequest: the term once set is kept.
exceptionExpiresAt(d, request) == IF request = None THEN d.detected + ExceptionDays ELSE request.expires

governanceFindingStatus(d, expires) ==
  CASE d.status = "resolved" -> "remediated"
    [] d.status = "accepted" -> IF today > expires THEN "expired" ELSE "risk_accepted"
    [] d.status = "repairing" -> "remediation_planned"
    [] OTHER -> "open"

buildGovernanceFinding(d, existing, expires) ==
  LET remediation == buildRemediationTracking(d, IF existing = None THEN None ELSE existing.remediation)
  IN  [status |-> governanceFindingStatus(d, expires), remediation |-> remediation,
       requested |-> requiresExceptionRequest(d) \/ (existing # None /\ existing.requested)]

exceptionRequestStatus(d, expires) ==
  CASE d.status = "resolved" -> "remediated"
    [] d.status # "resolved" /\ today > expires -> "expired"
    [] d.status = "accepted" /\ today <= expires -> "risk_accepted"
    [] OTHER -> "requested"

riskAcceptanceStatus(existing, status) ==
  CASE status = "expired" -> "expired"
    [] status = "risk_accepted" \/ (status # "expired" /\ existing # None /\ existing.risk = "accepted") -> "accepted"
    [] OTHER -> "pending"

\* buildExceptionRequest and buildRiskAcceptance
buildExceptionRequest(d, existing) ==
  LET expires == exceptionExpiresAt(d, existing)
      status == exceptionRequestStatus(d, expires)
  IN  [status |-> status, expires |-> expires, risk |-> riskAcceptanceStatus(existing, status),
       approval |-> IF existing # None THEN existing.approval
                    ELSE IF status = "risk_accepted" THEN "approved" ELSE "pending"]

\* buildAccessReviewCampaign; no request of the API approves it.
buildAccessReviewCampaign(existing, g, x) ==
  [started |-> IF existing = None THEN today ELSE existing.started,
   status |-> IF \E f \in Finding : g[f] # None THEN "active" ELSE "planned",
   remediationItems |-> {f \in Finding : g[f] # None /\ g[f].status # "remediated"},
   requests |-> {f \in Finding : x[f] # None}]

\* What is known of a drift finding that is no longer stored stays as it is.
buildAccessReviewGovernance ==
  [findings |-> [f \in Finding |->
     IF findings[f] = None THEN governance[f]
     ELSE buildGovernanceFinding(findings[f], governance[f], exceptionExpiresAt(findings[f], exceptions[f]))],
   requests |-> [f \in Finding |->
     IF findings[f] = None \/ ~ requiresExceptionRequest(findings[f]) THEN exceptions[f]
     ELSE buildExceptionRequest(findings[f], exceptions[f])]]

\* materializeAccessReviewGovernance, for every export of an evidence package.
ExportEvidence ==
  LET records == buildAccessReviewGovernance
  IN  /\ governance' = records.findings
      /\ exceptions' = records.requests
      /\ campaign' = buildAccessReviewCampaign(campaign, records.findings, records.requests)
      /\ UNCHANGED <<findings, runs, sequence, finished, calls, today>>

---------------------------------------------------------------------------

Tick == today < MaxTime /\ today' = today + 1
        /\ UNCHANGED <<findings, runs, sequence, finished, calls, governance, exceptions, campaign>>

\* The seed may hold findings that were accepted or resolved elsewhere.
Settled(finding, status) == [finding EXCEPT !.status = status, !.lifecycle = status]
Seeded == {Settled(enrichDriftFindingLifecycle(r), status) : r \in Report, status \in {"accepted", "resolved"}}

Init ==
  /\ today = 0
  /\ findings \in [Finding -> {None} \cup Seeded]
  /\ runs = {}
  /\ sequence = 0
  /\ finished = 0
  /\ calls = [c \in Call |-> None]
  /\ governance = [f \in Finding |-> None]
  /\ exceptions = [f \in Finding |-> None]
  /\ campaign = None

Next ==
  \/ \E c \in Call :
       \/ StartReconciliation(c)
       \/ \E f \in Finding, r \in Report : FinishReconciliation(c, f, r)
       \/ \E f \in Finding, p \in Policy : StartRemediation(c, f, p)
       \/ FinishRemediation(c)
       \/ FailCall(c)
  \/ ExportEvidence
  \/ Tick

Spec == Init /\ [][Next]_driftVars

---------------------------------------------------------------------------

\* No run replaces the record of another one, however many of them wait for the connector on
\* the same day (runReconciliation, nextAppRecordSequence).
RunsAreDistinct == Cardinality(runs) = finished

\* What is under repair is what the approval covers: the severity and the action of the
\* stored finding are within its policy, also when a reconciliation has replaced the finding
\* while the plan was made (planDriftRemediationDryRun).
RepairIsWithinPolicy ==
  \A f \in Finding : findings[f] # None /\ findings[f].status = "repairing" =>
    assertDriftRemediationControls(findings[f], findings[f].policy)

\* No reconciliation run replaces the record of another one, and what is under repair is
\* what the approval of its remediation covers (runReconciliation, planDriftRemediationDryRun).
ReconciliationIsSound == RunsAreDistinct /\ RepairIsWithinPolicy

\* An exception that has expired stays so until it is remediated: detecting the same drift
\* again gives it no new term (buildExceptionRequest, exceptionExpiresAt).
ExpiryIsFinal ==
  [][\A f \in Finding : exceptions[f] # None =>
       /\ exceptions'[f].expires = exceptions[f].expires
       /\ exceptions[f].status = "expired" => exceptions'[f].status \in {"expired", "remediated"}]_driftVars

\* docs/drift-detection-model.md:23: an open finding is one that no operator has triaged: a
\* finding that an approval moved on is not open again.
OpenMeansUntriaged ==
  [][\A f \in Finding : findings[f] # None /\ findings[f].approved => findings'[f].lifecycle # "open"]_driftVars
=============================================================================

--------------------------- MODULE Provisioning ---------------------------
(***************************************************************************)
(* Readiness reports, provisioning plans and provisioning jobs             *)
(* (packages/api/src/runtime-jobs.ts, runtime-enforcement.ts) of one API   *)
(* process over its in-memory store (packages/core/src/store.ts).          *)
(*                                                                         *)
(* A caller is an HTTP request or a queue loop. Its handler runs without   *)
(* interruption from one await to the next: every action below is such a   *)
(* stretch, and calls[c] holds what the handler carries over the await.    *)
(* The connector on the other side of the await may answer late, answer    *)
(* that the change failed, or reject.                                      *)
(*                                                                         *)
(* The idempotent replay of a plan or of a job and every refusal leave the *)
(* state as it is, so they are not actions of their own.                   *)
(***************************************************************************)
EXTENDS Naturals, FiniteSets

CONSTANTS
  Caller,      \* requests and queue loops in flight at the same time
  Connector,
  Mock,        \* connectors with provider "mock" in boundary "synthetic:local"
  Provisions,  \* connectors that declare supportsProvisioning
  ReadsBack,   \* connectors that declare discovery and reconciliation
  PlanId,
  connectorOf, \* the connector a plan id belongs to
  Key,         \* idempotency keys
  Approver,
  Ticket,      \* change tickets
  Approval,    \* the approvals clients send
  Control,     \* the enforcement controls clients send
  None,        \* undefined
  MaxReports,  \* bound: readiness checks of a connector
  MaxTime      \* bound: the clock

Time == 0 .. MaxTime

ASSUME ConnectorAssumption ==
  /\ Mock \subseteq Connector
  /\ Provisions \subseteq Connector
  /\ ReadsBack \subseteq Connector
  /\ connectorOf \in [PlanId -> Connector]
ASSUME ApprovalAssumption ==
  Approval \subseteq [approved : BOOLEAN, approver : Approver, ticket : Ticket, expiresAt : Nat]
ASSUME ControlAssumption ==
  Control \subseteq [syntheticOnly : BOOLEAN, liveProviderWrites : BOOLEAN,
                     breakGlass : BOOLEAN, incidentMode : BOOLEAN]
ASSUME NoneAssumption == None \notin Approval \cup Control \cup Key
ASSUME BoundAssumption == MaxReports \in Nat /\ MaxTime \in Nat

VARIABLES
  reports,   \* the readiness reports, by id
  sequence,  \* appRecordSequences: the last sequence number of each connector
  plans,     \* the provisioning plans, by id
  jobs,      \* the provisioning jobs, by id: a hash of plan id and key
  audit,     \* the provisioning events of the audit trail
  writes,    \* the executions the connector answered "applied", with what they carried
  calls,     \* the handlers suspended at an await
  clock

vars == <<reports, sequence, plans, jobs, audit, writes, calls, clock>>

-----------------------------------------------------------------------------
(* Records *)

\* readiness:<connector>:<checkedAt>:<sequence>
ReportId == [connector : Connector, checkedAt : Time, sequence : 1 .. MaxReports]

\* tickets: the change tickets the report's pattern matches.
Report == [status : {"ready", "blocked"}, control : Control, tickets : SUBSET Ticket]

DryRunPlan == [mode : {"dry_run"}, status : {"planned"}, key : Key]
EnforcementPlan ==
  [mode : {"enforcement"}, status : {"approved", "applied", "failed"}, key : Key,
   approval : Approval, control : Control, report : ReportId]
Plan == DryRunPlan \cup EnforcementPlan

DryRunJob == [mode : {"dry_run"}, status : {"completed"}, approver : Approver]
EnforcementJob ==
  [mode : {"enforcement"}, status : {"completed", "failed"}, approver : Approver,
   approval : Approval, control : Control, startedAt : Time]
Job == DryRunJob \cup EnforcementJob

JobId == PlanId \X Key

\* What a client asks of a plan: dry_run asks for nothing else.
Options ==
  [mode : {"dry_run"}]
    \cup [mode : {"enforcement"}, approval : Approval \cup {None},
          control : Control \cup {None}, report : ReportId \cup {None}]

Idle == [at |-> "idle"]
Call ==
  {Idle}
    \cup [at : {"probe"}, id : ReportId, control : Control, tickets : SUBSET Ticket]
    \cup [at : {"plan"}, plan : PlanId, key : Key, options : Options]
    \cup [at : {"dry_run"}, plan : PlanId, key : Key, approver : Approver]
    \cup [at : {"apply"}, plan : PlanId, key : Key, copy : EnforcementPlan, approver : Approver,
          approval : Approval, control : Control, startedAt : Time]
    \cup [at : {"verify"}, plan : PlanId, key : Key, copy : EnforcementPlan, approver : Approver,
          approval : Approval, control : Control, startedAt : Time, applied : BOOLEAN]

\* What the connector was asked to apply, and on whose authority.
Execution ==
  [plan : PlanId, key : Key, copy : EnforcementPlan, approver : Approver,
   approval : Approval, control : Control, startedAt : Time]

PlanEvent == {"requested", "planned", "approved", "compensation_planned"}
JobEvent ==
  {"skipped", "permission_changed", "verified", "rollback_planned", "completed", "failed"}

Put(f, x, v) == [y \in DOMAIN f \cup {x} |-> IF y = x THEN v ELSE f[y]]

-----------------------------------------------------------------------------
(* Readiness *)

\* Wrong: the number of stored reports alone, as before the per-app counters.
SequenceFromStore(n) == Cardinality({id \in DOMAIN reports : id.connector = n}) + 1

NextAppRecordSequence(n) ==
  LET stored == {id \in DOMAIN reports : id.connector = n}
  IN  (IF sequence[n] > Cardinality(stored) THEN sequence[n] ELSE Cardinality(stored)) + 1

\* The checks of a report; the probe plan must carry compensation.
ChecksPass(n, control, compensated) ==
  /\ control.syntheticOnly /\ ~control.liveProviderWrites
  /\ ~control.incidentMode /\ ~control.breakGlass
  /\ n \in Mock
  /\ n \in Provisions
  /\ n \in ReadsBack
  /\ compensated

StartReadinessCheck(c, n, control, tickets) ==
  /\ calls[c] = Idle
  /\ NextAppRecordSequence(n) <= MaxReports
  /\ sequence' = [sequence EXCEPT ![n] = NextAppRecordSequence(n)]
  /\ calls' = [calls EXCEPT ![c] =
       [at |-> "probe", control |-> control, tickets |-> tickets,
        id |-> [connector |-> n, checkedAt |-> clock, sequence |-> NextAppRecordSequence(n)]]]
  /\ UNCHANGED <<reports, plans, jobs, audit, writes, clock>>

\* A probe that rejects is a failed check. The audit event of the check
\* carries the report and is recorded with it.
FinishReadinessCheck(c, compensated) ==
  /\ calls[c].at = "probe"
  /\ calls[c].id \notin DOMAIN reports
  /\ reports' = Put(reports, calls[c].id,
       [control |-> calls[c].control, tickets |-> calls[c].tickets,
        status |-> IF ChecksPass(calls[c].id.connector, calls[c].control, compensated)
                   THEN "ready" ELSE "blocked"])
  /\ calls' = [calls EXCEPT ![c] = Idle]
  /\ UNCHANGED <<sequence, plans, jobs, audit, writes, clock>>

-----------------------------------------------------------------------------
(* The guards of controlled enforcement *)

AssertControlledEnforcementAllowed(n, approval, control, approver) ==
  /\ approval # None
  /\ control # None
  /\ approval.approved
  /\ approval.approver = approver
  /\ approval.expiresAt > clock
  /\ control.syntheticOnly /\ ~control.liveProviderWrites /\ ~control.breakGlass
  /\ ~control.incidentMode
  /\ n \in Provisions
  /\ n \in Mock

\* Wrong: a blocked report is as good as a ready one.
ReportExists(n, id, approval, control) ==
  /\ id \in DOMAIN reports
  /\ id.connector = n
  /\ reports[id].control = control
  /\ approval.ticket \in reports[id].tickets

\* Stored reports never allow live writes and their connector's boundary is
\* the one it was registered with.
AssertEnforcementReadiness(n, id, approval, control) ==
  /\ id \in DOMAIN reports
  /\ id.connector = n
  /\ reports[id].status = "ready"
  /\ reports[id].control = control
  /\ approval.ticket \in reports[id].tickets

AssertJobControlsMatchPlan(plan, approval, control) ==
  /\ approval # None => approval = plan.approval
  /\ control # None => control = plan.control

-----------------------------------------------------------------------------
(* Plans *)

\* getProvisioningPlanByIdempotencyKey finds nothing: the plan is prepared by
\* the connector (planProvisioningChange or revokeAccess).
StartPlan(c, id, key, options) ==
  /\ calls[c] = Idle
  /\ \A p \in DOMAIN plans : plans[p].key # key
  /\ calls' = [calls EXCEPT ![c] =
       [at |-> "plan", plan |-> id, key |-> key, options |-> options]]
  /\ UNCHANGED <<reports, sequence, plans, jobs, audit, writes, clock>>

PrepareProvisioningPlanForExecution(key, options) ==
  IF options.mode = "dry_run"
  THEN [mode |-> "dry_run", status |-> "planned", key |-> key]
  ELSE [mode |-> "enforcement", status |-> "approved", key |-> key,
        approval |-> options.approval, control |-> options.control, report |-> options.report]

PlanEvents(plan) ==
  {"requested", "planned", "compensation_planned"}
    \cup (IF plan.mode = "enforcement" THEN {"approved"} ELSE {})

\* A plan with the same id is replaced, whatever became of it.
FinishPlan(c) ==
  LET id == calls[c].plan
      options == calls[c].options
      plan == PrepareProvisioningPlanForExecution(calls[c].key, options)
  IN  /\ calls[c].at = "plan"
      /\ options.mode = "enforcement" =>
           /\ AssertControlledEnforcementAllowed(
                connectorOf[id], options.approval, options.control, options.approval.approver)
           /\ AssertEnforcementReadiness(
                connectorOf[id], options.report, options.approval, options.control)
      /\ plans' = Put(plans, id, plan)
      /\ audit' = audit \cup (PlanEvents(plan) \X {<<id, None>>})
      /\ calls' = [calls EXCEPT ![c] = Idle]
      /\ UNCHANGED <<reports, sequence, jobs, writes, clock>>

-----------------------------------------------------------------------------
(* Jobs *)

\* Wrong: only the job of the same plan is looked for.
IsNewJobOfPlan(id, key) == <<id, key>> \notin DOMAIN jobs /\ id \in DOMAIN plans

\* getProvisioningJobByIdempotencyKey finds nothing and the plan exists.
IsNewJob(id, key) ==
  /\ \A j \in DOMAIN jobs : j[2] # key
  /\ id \in DOMAIN plans

StartDryRunJob(c, id, key, approver) ==
  /\ calls[c] = Idle
  /\ IsNewJob(id, key)
  /\ plans[id].mode = "dry_run"
  /\ calls' = [calls EXCEPT ![c] =
       [at |-> "dry_run", plan |-> id, key |-> key, approver |-> approver]]
  /\ UNCHANGED <<reports, sequence, plans, jobs, audit, writes, clock>>

FinishDryRunJob(c) ==
  LET id == <<calls[c].plan, calls[c].key>>
  IN  /\ calls[c].at = "dry_run"
      /\ jobs' = Put(jobs, id,
           [mode |-> "dry_run", status |-> "completed", approver |-> calls[c].approver])
      /\ audit' = audit \cup ({"skipped", "verified", "completed"} \X {id})
      /\ calls' = [calls EXCEPT ![c] = Idle]
      /\ UNCHANGED <<reports, sequence, plans, writes, clock>>

\* approval and control are those of the request, or None. The handler keeps
\* its copy of the plan.
StartEnforcementJob(c, id, key, approver, approval, control) ==
  LET plan == plans[id]
      usedApproval == IF approval # None THEN approval ELSE plan.approval
      usedControl == IF control # None THEN control ELSE plan.control
  IN  /\ calls[c] = Idle
      /\ IsNewJob(id, key)
      /\ plan.mode = "enforcement"
      /\ AssertJobControlsMatchPlan(plan, approval, control)
      /\ AssertControlledEnforcementAllowed(connectorOf[id], usedApproval, usedControl, approver)
      /\ AssertEnforcementReadiness(connectorOf[id], plan.report, usedApproval, usedControl)
      /\ calls' = [calls EXCEPT ![c] =
           [at |-> "apply", plan |-> id, key |-> key, copy |-> plan, approver |-> approver,
            approval |-> usedApproval, control |-> usedControl, startedAt |-> clock]]
      /\ UNCHANGED <<reports, sequence, plans, jobs, audit, writes, clock>>

ExecutionOf(call) ==
  [plan |-> call.plan, key |-> call.key, copy |-> call.copy, approver |-> call.approver,
   approval |-> call.approval, control |-> call.control, startedAt |-> call.startedAt]

\* applyProvisioningChange answers a plan that is "applied", or is not.
ApplyProvisioningChange(c, applied) ==
  LET call == calls[c]
  IN  /\ call.at = "apply"
      /\ writes' = IF applied THEN writes \cup {ExecutionOf(call)} ELSE writes
      /\ calls' = [calls EXCEPT ![c] =
           [at |-> "verify", plan |-> call.plan, key |-> call.key, copy |-> call.copy,
            approver |-> call.approver, approval |-> call.approval, control |-> call.control,
            startedAt |-> call.startedAt, applied |-> applied]]
      /\ UNCHANGED <<reports, sequence, plans, jobs, audit, clock>>

EnforcementEvents(completed) ==
  {"permission_changed", "verified"}
    \cup (IF completed THEN {"completed"} ELSE {"rollback_planned", "failed"})

\* Wrong: the plan takes the status the connector answered, unverified.
FinishByConnectorStatus(c, verified) ==
  LET call == calls[c]
      id == <<call.plan, call.key>>
      completed == call.applied /\ verified
  IN  /\ call.at = "verify"
      /\ plans' = Put(plans, call.plan,
           [call.copy EXCEPT !.status = IF call.applied THEN "applied" ELSE "failed"])
      /\ jobs' = Put(jobs, id,
           [mode |-> "enforcement", status |-> IF completed THEN "completed" ELSE "failed",
            approver |-> call.approver, approval |-> call.approval, control |-> call.control,
            startedAt |-> call.startedAt])
      /\ audit' = audit \cup (EnforcementEvents(completed) \X {id})
      /\ calls' = [calls EXCEPT ![c] = Idle]
      /\ UNCHANGED <<reports, sequence, writes, clock>>

\* Wrong: the status is written to the plan as it is stored now.
FinishFromStore(c, verified) ==
  LET call == calls[c]
      id == <<call.plan, call.key>>
      completed == call.applied /\ verified
  IN  /\ call.at = "verify"
      /\ plans' = [plans EXCEPT ![call.plan].status = IF completed THEN "applied" ELSE "failed"]
      /\ jobs' = Put(jobs, id,
           [mode |-> "enforcement", status |-> IF completed THEN "completed" ELSE "failed",
            approver |-> call.approver, approval |-> call.approval, control |-> call.control,
            startedAt |-> call.startedAt])
      /\ audit' = audit \cup (EnforcementEvents(completed) \X {id})
      /\ calls' = [calls EXCEPT ![c] = Idle]
      /\ UNCHANGED <<reports, sequence, writes, clock>>

\* Completed when the change was applied and verifyProvisioningChange confirms
\* it. The plan is written back from the handler's copy.
FinishEnforcementJob(c, verified) ==
  LET call == calls[c]
      id == <<call.plan, call.key>>
      completed == call.applied /\ verified
  IN  /\ call.at = "verify"
      /\ plans' = Put(plans, call.plan,
           [call.copy EXCEPT !.status = IF completed THEN "applied" ELSE "failed"])
      /\ jobs' = Put(jobs, id,
           [mode |-> "enforcement", status |-> IF completed THEN "completed" ELSE "failed",
            approver |-> call.approver, approval |-> call.approval, control |-> call.control,
            startedAt |-> call.startedAt])
      /\ audit' = audit \cup (EnforcementEvents(completed) \X {id})
      /\ calls' = [calls EXCEPT ![c] = Idle]
      /\ UNCHANGED <<reports, sequence, writes, clock>>

-----------------------------------------------------------------------------
(* Failures and time *)

\* The connector rejects or a guard after the await throws: nothing between the
\* awaits and the HTTP error handler records anything. A rejected readiness
\* probe is caught (FinishReadinessCheck).
CallThrows(c) ==
  /\ calls[c].at \in {"plan", "dry_run", "apply", "verify"}
  /\ calls' = [calls EXCEPT ![c] = Idle]
  /\ UNCHANGED <<reports, sequence, plans, jobs, audit, writes, clock>>

\* The process restarts from the persisted store; the calls in flight and the
\* counters of appRecordSequences are gone. It takes longer than the
\* millisecond that timestamps tell apart.
Restart ==
  /\ clock < MaxTime
  /\ calls # [c \in Caller |-> Idle] \/ sequence # [n \in Connector |-> 0]
  /\ clock' = clock + 1
  /\ calls' = [c \in Caller |-> Idle]
  /\ sequence' = [n \in Connector |-> 0]
  /\ UNCHANGED <<reports, plans, jobs, audit, writes>>

Tick ==
  /\ clock < MaxTime
  /\ clock' = clock + 1
  /\ UNCHANGED <<reports, sequence, plans, jobs, audit, writes, calls>>

-----------------------------------------------------------------------------

Init ==
  /\ reports = [id \in {} |-> None]
  /\ sequence = [n \in Connector |-> 0]
  /\ plans = [id \in {} |-> None]
  /\ jobs = [id \in {} |-> None]
  /\ audit = {}
  /\ writes = {}
  /\ calls = [c \in Caller |-> Idle]
  /\ clock = 0

\* A client names reports it has been told of.
RequestedOptions ==
  [mode : {"dry_run"}]
    \cup [mode : {"enforcement"}, approval : Approval \cup {None},
          control : Control \cup {None}, report : DOMAIN reports \cup {None}]

CallStep(c) ==
  \/ \E n \in Connector, control \in Control, tickets \in SUBSET Ticket :
       StartReadinessCheck(c, n, control, tickets)
  \/ \E compensated \in BOOLEAN : FinishReadinessCheck(c, compensated)
  \/ \E id \in PlanId, key \in Key, options \in RequestedOptions : StartPlan(c, id, key, options)
  \/ FinishPlan(c)
  \/ \E id \in PlanId, key \in Key, approver \in Approver : StartDryRunJob(c, id, key, approver)
  \/ FinishDryRunJob(c)
  \/ \E id \in PlanId, key \in Key, approver \in Approver,
        approval \in Approval \cup {None}, control \in Control \cup {None} :
       StartEnforcementJob(c, id, key, approver, approval, control)
  \/ \E applied \in BOOLEAN : ApplyProvisioningChange(c, applied)
  \/ \E verified \in BOOLEAN : FinishEnforcementJob(c, verified)
  \/ CallThrows(c)

Next ==
  \/ \E c \in Caller : CallStep(c)
  \/ Restart
  \/ Tick

Spec == Init /\ [][Next]_vars

-----------------------------------------------------------------------------
(* Properties *)

\* The store, the audit trail and the suspended handlers hold well-formed
\* records: in particular every enforcement plan carries an approval, a control
\* and a report id.
TypeOK ==
  /\ DOMAIN reports \subseteq ReportId
  /\ reports \in [DOMAIN reports -> Report]
  /\ sequence \in [Connector -> 0 .. MaxReports]
  /\ DOMAIN plans \subseteq PlanId
  /\ plans \in [DOMAIN plans -> Plan]
  /\ DOMAIN jobs \subseteq JobId
  /\ jobs \in [DOMAIN jobs -> Job]
  /\ audit \subseteq (PlanEvent \X (PlanId \X {None})) \cup (JobEvent \X JobId)
  /\ writes \subseteq Execution
  /\ calls \in [Caller -> Call]
  /\ clock \in Time

\* Readiness checks whose probes overlap get different report ids, none of them
\* taken: recording a report never meets the duplicate-id error of
\* recordEnforcementReadinessReport (store.ts), also after a restart has
\* forgotten the counters.
ReportIdsAreFresh ==
  \A c \in Caller : calls[c].at = "probe" =>
    /\ calls[c].id \notin DOMAIN reports
    /\ \A d \in Caller \ {c} : calls[d].at = "probe" => calls[d].id # calls[c].id

\* A report that authorises enforcement through connector n under this
\* approval and control.
HasReadyReport(n, approval, control) ==
  \E id \in DOMAIN reports :
    /\ id.connector = n
    /\ reports[id].status = "ready"
    /\ reports[id].control = control
    /\ approval.ticket \in reports[id].tickets

\* An execution on connector n has what controlled enforcement asks for.
Authorized(n, job) ==
  /\ n \in Mock
  /\ job.approval.approved
  /\ job.approval.approver = job.approver
  /\ job.approval.expiresAt > job.startedAt
  /\ job.control.syntheticOnly /\ ~job.control.liveProviderWrites
  /\ ~job.control.breakGlass /\ ~job.control.incidentMode
  /\ HasReadyReport(n, job.approval, job.control)

\* Whatever requests overlapped, a stored enforcement job names the approver of
\* its approval, started before the approval expired, ran on a mock connector,
\* under controls that are synthetic-only and out of incident mode, and a ready
\* report of that connector with these controls and this change ticket is on
\* record.
EnforcedJobIsAuthorized ==
  \A j \in DOMAIN jobs :
    jobs[j].mode = "enforcement" => Authorized(connectorOf[j[1]], jobs[j])

\* Every change that the connector has applied was authorised, also when its
\* handler then threw or the process restarted, so that no job tells of it.
AppliedChangeIsAuthorized ==
  \A w \in writes : Authorized(connectorOf[w.plan], w)

\* A plan that reads "applied" is, in its approval, control and report, the plan
\* that the connector has applied, and that execution's events are in the audit
\* trail: a plan prepared under the same id while the handler waited does not
\* become "applied" (executeControlledEnforcementJob writes its own copy back).
AppliedPlanIsExecuted ==
  \A p \in DOMAIN plans : plans[p].status = "applied" =>
    \E w \in writes :
      /\ w.plan = p
      /\ plans[p] = [w.copy EXCEPT !.status = "applied"]
      /\ {"permission_changed", "completed"} \X {<<p, w.key>>} \subseteq audit

\* A stored enforcement job that reads "completed" tells of a change that the
\* connector has applied, with the approver, start, approval and control of that
\* execution, and they are those of the plan that was executed.
CompletedJobIsExecuted ==
  \A j \in DOMAIN jobs : jobs[j].mode = "enforcement" /\ jobs[j].status = "completed" =>
    \E w \in writes :
      /\ <<w.plan, w.key>> = j
      /\ w.approver = jobs[j].approver /\ w.startedAt = jobs[j].startedAt
      /\ jobs[j].approval = w.copy.approval
      /\ jobs[j].control = w.copy.control

\* A plan that reads "applied" has a completed enforcement job in the store. It
\* holds when requests do not overlap; a dry run of an earlier plan with the
\* same id and key that ends late replaces the job.
AppliedPlanHasCompletedJob ==
  \A p \in DOMAIN plans : plans[p].status = "applied" =>
    \E j \in DOMAIN jobs :
      j[1] = p /\ jobs[j].mode = "enforcement" /\ jobs[j].status = "completed"

\* Every permission change in the audit trail concerns a plan whose approval is
\* in the audit trail, and every change that the connector has applied too.
ChangeIsApproved ==
  /\ \A j \in JobId : <<"permission_changed", j>> \in audit =>
       <<"approved", <<j[1], None>>>> \in audit
  /\ \A w \in writes : <<"approved", <<w.plan, None>>>> \in audit

\* However requests overlap, a stored enforcement job, and every change that the connector
\* has applied, has its approval, controls and ready report, and every change is of a plan
\* whose approval is in the audit trail (createProvisioningJob, assertEnforcementReadiness).
EnforcementIsAuthorized ==
  EnforcedJobIsAuthorized /\ AppliedChangeIsAuthorized /\ ChangeIsApproved

\* However requests overlap, what reads "applied" or "completed" was done by the connector
\* as the record says, although plans are replaced while handlers wait and handlers write
\* back copies taken before two awaits (executeControlledEnforcementJob).
OutcomeIsTrue == AppliedPlanIsExecuted /\ CompletedJobIsExecuted

\* An idempotency key names one provisioning job: a repeated submission with
\* the key gets that job back (createProvisioningJob). It holds when requests
\* do not overlap.
KeyNamesOneJob ==
  \A i, j \in DOMAIN jobs : i[2] = j[2] => i = j

\* The record of a job never changes: the evidence a client was given stays
\* what the store holds. It holds when requests do not overlap.
JobIsFinal ==
  [][\A j \in DOMAIN jobs : j \in DOMAIN jobs' /\ jobs'[j] = jobs[j]]_vars

\* A change the connector has applied is on record as a job, and its events
\* with it, unless its handler is still running.
AppliedIsRecorded ==
  \A w \in writes :
    \/ <<w.plan, w.key>> \in DOMAIN jobs
    \/ \E c \in Caller : calls[c].at = "verify" /\ ExecutionOf(calls[c]) = w
=============================================================================

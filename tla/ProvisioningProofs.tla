------------------------- MODULE ProvisioningProofs -------------------------
(***************************************************************************)
(* Proofs of the safety properties of module Provisioning for any number   *)
(* of callers, connectors, plans, keys, approvals and controls.            *)
(***************************************************************************)
EXTENDS Provisioning, FiniteSetTheorems, TLAPS

-----------------------------------------------------------------------------
(* Types *)

\* The number of the next report is above the counter and the stored reports
\* (nextAppRecordSequence).
LEMMA SequenceGrows ==
  ASSUME TypeOK, IsFiniteSet(DOMAIN reports), NEW n \in Connector
  PROVE  NextAppRecordSequence(n) \in Nat \ {0} /\ NextAppRecordSequence(n) > sequence[n]
  <1> DEFINE stored == {id \in DOMAIN reports : id.connector = n}
  <1>1. stored \subseteq DOMAIN reports
    OBVIOUS
  <1>2. IsFiniteSet(stored)
    BY <1>1, FS_Subset
  <1>3. Cardinality(stored) \in Nat
    BY <1>2, FS_CardinalityType
  <1>4. sequence[n] \in Nat
    BY BoundAssumption DEF TypeOK
  <1> HIDE DEF stored
  <1>5. NextAppRecordSequence(n)
          = (IF sequence[n] > Cardinality(stored) THEN sequence[n] ELSE Cardinality(stored)) + 1
    BY DEF NextAppRecordSequence, stored
  <1> QED
    BY <1>3, <1>4, <1>5

\* Every kind of suspended handler is a Call.
LEMMA CallType ==
  /\ Idle \in Call
  /\ \A id \in ReportId, control \in Control, tickets \in SUBSET Ticket :
       [at |-> "probe", control |-> control, tickets |-> tickets, id |-> id] \in Call
  /\ \A id \in PlanId, key \in Key, options \in Options :
       [at |-> "plan", plan |-> id, key |-> key, options |-> options] \in Call
  /\ \A id \in PlanId, key \in Key, approver \in Approver :
       [at |-> "dry_run", plan |-> id, key |-> key, approver |-> approver] \in Call
  BY DEF Call

\* What the fields of a suspended handler are.
LEMMA CallFields ==
  ASSUME NEW call \in Call
  PROVE  /\ call.at \in {"idle", "probe", "plan", "dry_run", "apply", "verify"}
         /\ call.at = "probe" =>
              call.id \in ReportId /\ call.control \in Control /\ call.tickets \in SUBSET Ticket
         /\ call.at = "plan" =>
              call.plan \in PlanId /\ call.key \in Key /\ call.options \in Options
         /\ call.at = "dry_run" =>
              call.plan \in PlanId /\ call.key \in Key /\ call.approver \in Approver
         /\ call.at \in {"apply", "verify"} =>
              /\ call.plan \in PlanId /\ call.key \in Key /\ call.copy \in EnforcementPlan
              /\ call.approver \in Approver /\ call.approval \in Approval
              /\ call.control \in Control /\ call.startedAt \in Time
         /\ call.at = "verify" => call.applied \in BOOLEAN
  BY DEF Call, Idle

\* Every action keeps the records well-formed.
LEMMA TypeStep ==
  ASSUME TypeOK, IsFiniteSet(DOMAIN reports), [Next]_vars
  PROVE  TypeOK'
  <1> USE DEF TypeOK
  <1>1. ASSUME NEW c \in Caller, NEW n \in Connector, NEW control \in Control,
               NEW tickets \in SUBSET Ticket, StartReadinessCheck(c, n, control, tickets)
        PROVE  TypeOK'
    <2>1. NextAppRecordSequence(n) \in 1 .. MaxReports
      BY <1>1, SequenceGrows, BoundAssumption DEF StartReadinessCheck
    <2>2. [connector |-> n, checkedAt |-> clock, sequence |-> NextAppRecordSequence(n)] \in ReportId
      BY <2>1 DEF ReportId
    <2>3. calls' \in [Caller -> Call]
      BY <1>1, <2>2, CallType DEF StartReadinessCheck
    <2>4. sequence' \in [Connector -> 0 .. MaxReports]
      BY <1>1, <2>1, BoundAssumption DEF StartReadinessCheck
    <2> QED
      BY <1>1, <2>3, <2>4 DEF StartReadinessCheck
  <1>2. ASSUME NEW c \in Caller, NEW compensated \in BOOLEAN,
               FinishReadinessCheck(c, compensated)
        PROVE  TypeOK'
    <2>1. calls[c].id \in ReportId /\ calls[c].control \in Control
            /\ calls[c].tickets \in SUBSET Ticket
      BY <1>2, CallFields DEF FinishReadinessCheck
    <2> DEFINE report ==
          [control |-> calls[c].control, tickets |-> calls[c].tickets,
           status |-> IF ChecksPass(calls[c].id.connector, calls[c].control, compensated)
                      THEN "ready" ELSE "blocked"]
    <2>2. report \in Report
      BY <2>1 DEF Report
    <2>3. reports' = Put(reports, calls[c].id, report)
      BY <1>2 DEF FinishReadinessCheck
    <2> HIDE DEF report
    <2>4. DOMAIN reports' \subseteq ReportId /\ reports' \in [DOMAIN reports' -> Report]
      BY <2>1, <2>2, <2>3 DEF Put
    <2>5. calls' \in [Caller -> Call]
      BY <1>2, CallType DEF FinishReadinessCheck
    <2> QED
      BY <1>2, <2>4, <2>5 DEF FinishReadinessCheck
  <1>3. ASSUME NEW c \in Caller, NEW id \in PlanId, NEW key \in Key,
               NEW options \in RequestedOptions, StartPlan(c, id, key, options)
        PROVE  TypeOK'
    <2>1. options \in Options
      BY DEF RequestedOptions, Options
    <2>2. calls' \in [Caller -> Call]
      BY <1>3, <2>1, CallType DEF StartPlan
    <2> QED
      BY <1>3, <2>2 DEF StartPlan
  <1>4. ASSUME NEW c \in Caller, FinishPlan(c)
        PROVE  TypeOK'
    <2> DEFINE plan == PrepareProvisioningPlanForExecution(calls[c].key, calls[c].options)
    <2>1. calls[c].plan \in PlanId /\ calls[c].key \in Key /\ calls[c].options \in Options
      BY <1>4, CallFields DEF FinishPlan
    <2>2. plan \in Plan
      <3>1. CASE calls[c].options.mode = "dry_run"
        BY <2>1, <3>1 DEF PrepareProvisioningPlanForExecution, Plan, DryRunPlan
      <3>2. CASE calls[c].options.mode # "dry_run"
        <4>1. calls[c].options.mode = "enforcement"
          BY <2>1, <3>2 DEF Options
        <4>2. /\ calls[c].options.approval \in Approval \cup {None}
              /\ calls[c].options.control \in Control \cup {None}
              /\ calls[c].options.report \in ReportId \cup {None}
          BY <2>1, <4>1 DEF Options
        <4>3. /\ calls[c].options.approval \in Approval
              /\ calls[c].options.control \in Control
              /\ calls[c].options.report \in ReportId
          BY <1>4, <4>1, <4>2
             DEF FinishPlan, AssertControlledEnforcementAllowed, AssertEnforcementReadiness
        <4> QED
          BY <2>1, <3>2, <4>3 DEF PrepareProvisioningPlanForExecution, Plan, EnforcementPlan
      <3> QED
        BY <3>1, <3>2
    <2>3. /\ plans' = Put(plans, calls[c].plan, plan)
          /\ audit' = audit \cup (PlanEvents(plan) \X {<<calls[c].plan, None>>})
      BY <1>4 DEF FinishPlan
    <2> HIDE DEF plan
    <2>4. DOMAIN plans' \subseteq PlanId /\ plans' \in [DOMAIN plans' -> Plan]
      BY <2>1, <2>2, <2>3 DEF Put
    <2>5. PlanEvents(plan) \subseteq PlanEvent
      BY DEF PlanEvents, PlanEvent
    <2>6. audit' \subseteq (PlanEvent \X (PlanId \X {None})) \cup (JobEvent \X JobId)
      BY <2>1, <2>3, <2>5
    <2>7. calls' \in [Caller -> Call]
      BY <1>4, CallType DEF FinishPlan
    <2> QED
      BY <1>4, <2>4, <2>6, <2>7 DEF FinishPlan
  <1>5. ASSUME NEW c \in Caller, NEW id \in PlanId, NEW key \in Key, NEW approver \in Approver,
               StartDryRunJob(c, id, key, approver)
        PROVE  TypeOK'
    <2>1. calls' \in [Caller -> Call]
      BY <1>5, CallType DEF StartDryRunJob
    <2> QED
      BY <1>5, <2>1 DEF StartDryRunJob
  <1>6. ASSUME NEW c \in Caller, FinishDryRunJob(c)
        PROVE  TypeOK'
    <2> DEFINE id == <<calls[c].plan, calls[c].key>>
               job == [mode |-> "dry_run", status |-> "completed", approver |-> calls[c].approver]
    <2>1. calls[c].plan \in PlanId /\ calls[c].key \in Key /\ calls[c].approver \in Approver
      BY <1>6, CallFields DEF FinishDryRunJob
    <2>2. id \in JobId /\ job \in Job
      BY <2>1 DEF JobId, Job, DryRunJob
    <2>3. jobs' = Put(jobs, id, job) /\ audit' = audit \cup ({"skipped", "verified", "completed"} \X {id})
      BY <1>6 DEF FinishDryRunJob
    <2> HIDE DEF id, job
    <2>4. DOMAIN jobs' \subseteq JobId /\ jobs' \in [DOMAIN jobs' -> Job]
      BY <2>2, <2>3 DEF Put
    <2>5. {"skipped", "verified", "completed"} \subseteq JobEvent
      BY DEF JobEvent
    <2>6. audit' \subseteq (PlanEvent \X (PlanId \X {None})) \cup (JobEvent \X JobId)
      BY <2>2, <2>3, <2>5
    <2>7. calls' \in [Caller -> Call]
      BY <1>6, CallType DEF FinishDryRunJob
    <2> QED
      BY <1>6, <2>4, <2>6, <2>7 DEF FinishDryRunJob
  <1>7. ASSUME NEW c \in Caller, NEW id \in PlanId, NEW key \in Key, NEW approver \in Approver,
               NEW approval \in Approval \cup {None}, NEW control \in Control \cup {None},
               StartEnforcementJob(c, id, key, approver, approval, control)
        PROVE  TypeOK'
    <2> DEFINE plan == plans[id]
               usedApproval == IF approval # None THEN approval ELSE plan.approval
               usedControl == IF control # None THEN control ELSE plan.control
    <2>1. plan \in Plan /\ plan.mode = "enforcement"
      BY <1>7 DEF StartEnforcementJob, IsNewJob
    <2>2. plan \in EnforcementPlan
      BY <2>1 DEF Plan, DryRunPlan
    <2>3. usedApproval \in Approval /\ usedControl \in Control
      BY <2>2 DEF EnforcementPlan
    <2>4. calls' = [calls EXCEPT ![c] =
           [at |-> "apply", plan |-> id, key |-> key, copy |-> plan, approver |-> approver,
            approval |-> usedApproval, control |-> usedControl, startedAt |-> clock]]
      BY <1>7 DEF StartEnforcementJob
    <2> HIDE DEF plan, usedApproval, usedControl
    <2>5. [at |-> "apply", plan |-> id, key |-> key, copy |-> plan, approver |-> approver,
            approval |-> usedApproval, control |-> usedControl, startedAt |-> clock] \in Call
      BY <2>2, <2>3 DEF Call
    <2>6. calls' \in [Caller -> Call]
      BY <2>4, <2>5
    <2> QED
      BY <1>7, <2>6 DEF StartEnforcementJob
  <1>8. ASSUME NEW c \in Caller, NEW applied \in BOOLEAN, ApplyProvisioningChange(c, applied)
        PROVE  TypeOK'
    <2> DEFINE call == calls[c]
               next == [at |-> "verify", plan |-> call.plan, key |-> call.key, copy |-> call.copy,
                        approver |-> call.approver, approval |-> call.approval,
                        control |-> call.control, startedAt |-> call.startedAt,
                        applied |-> applied]
    <2>1. /\ call.plan \in PlanId /\ call.key \in Key /\ call.copy \in EnforcementPlan
          /\ call.approver \in Approver /\ call.approval \in Approval
          /\ call.control \in Control /\ call.startedAt \in Time
      BY <1>8, CallFields DEF ApplyProvisioningChange
    <2>2. next \in Call
      BY <2>1 DEF Call
    <2>3. calls' = [calls EXCEPT ![c] = next]
      BY <1>8 DEF ApplyProvisioningChange
    <2>4. ExecutionOf(call) \in Execution
      BY <2>1 DEF Execution, ExecutionOf
    <2>5. writes' \subseteq Execution
      BY <1>8, <2>4 DEF ApplyProvisioningChange
    <2> HIDE DEF next
    <2>6. calls' \in [Caller -> Call]
      BY <2>2, <2>3
    <2> QED
      BY <1>8, <2>5, <2>6 DEF ApplyProvisioningChange
  <1>9. ASSUME NEW c \in Caller, NEW verified \in BOOLEAN, FinishEnforcementJob(c, verified)
        PROVE  TypeOK'
    <2> DEFINE call == calls[c]
               id == <<call.plan, call.key>>
               completed == call.applied /\ verified
               plan == [call.copy EXCEPT !.status = IF completed THEN "applied" ELSE "failed"]
               job == [mode |-> "enforcement",
                       status |-> IF completed THEN "completed" ELSE "failed",
                       approver |-> call.approver, approval |-> call.approval,
                       control |-> call.control, startedAt |-> call.startedAt]
    <2>1. /\ call.plan \in PlanId /\ call.key \in Key /\ call.copy \in EnforcementPlan
          /\ call.approver \in Approver /\ call.approval \in Approval
          /\ call.control \in Control /\ call.startedAt \in Time
      BY <1>9, CallFields DEF FinishEnforcementJob
    <2>2. plan \in Plan
      BY <2>1 DEF Plan, EnforcementPlan
    <2>3. id \in JobId /\ job \in Job
      BY <2>1 DEF JobId, Job, EnforcementJob
    <2>4. /\ plans' = Put(plans, call.plan, plan)
          /\ jobs' = Put(jobs, id, job)
          /\ audit' = audit \cup (EnforcementEvents(completed) \X {id})
      BY <1>9 DEF FinishEnforcementJob
    <2>5. EnforcementEvents(completed) \subseteq JobEvent
      BY DEF EnforcementEvents, JobEvent
    <2> HIDE DEF id, job, plan, completed
    <2>6. DOMAIN plans' \subseteq PlanId /\ plans' \in [DOMAIN plans' -> Plan]
      BY <2>1, <2>2, <2>4 DEF Put
    <2>7. DOMAIN jobs' \subseteq JobId /\ jobs' \in [DOMAIN jobs' -> Job]
      BY <2>3, <2>4 DEF Put
    <2>8. audit' \subseteq (PlanEvent \X (PlanId \X {None})) \cup (JobEvent \X JobId)
      BY <2>3, <2>4, <2>5
    <2>9. calls' \in [Caller -> Call]
      BY <1>9, CallType DEF FinishEnforcementJob
    <2> QED
      BY <1>9, <2>6, <2>7, <2>8, <2>9 DEF FinishEnforcementJob
  <1>10. ASSUME NEW c \in Caller, CallThrows(c)
         PROVE  TypeOK'
    BY <1>10, CallType DEF CallThrows
  <1>11. CASE Restart
    <2>1. calls' \in [Caller -> Call]
      BY <1>11, CallType DEF Restart
    <2>2. clock' \in Time /\ sequence' \in [Connector -> 0 .. MaxReports]
      BY <1>11, BoundAssumption DEF Restart, Time
    <2> QED
      BY <1>11, <2>1, <2>2 DEF Restart
  <1>12. CASE Tick
    BY <1>12, BoundAssumption DEF Tick, Time
  <1>13. CASE UNCHANGED vars
    BY <1>13 DEF vars
  <1> QED
    BY <1>1, <1>2, <1>3, <1>4, <1>5, <1>6, <1>7, <1>8, <1>9, <1>10, <1>11, <1>12, <1>13
       DEF Next, CallStep

-----------------------------------------------------------------------------
(* Report ids *)

\* The id is of the past, or counted by the counter of its connector.
Numbered(id) ==
  /\ id.checkedAt <= clock
  /\ id.checkedAt = clock => id.sequence <= sequence[id.connector]

NumberInv ==
  /\ IsFiniteSet(DOMAIN reports)
  /\ \A id \in DOMAIN reports : Numbered(id)
  /\ \A c \in Caller : calls[c].at = "probe" => Numbered(calls[c].id)
  /\ ReportIdsAreFresh

\* Every action keeps the ids of reports and probes counted and different.
LEMMA NumberStep ==
  ASSUME TypeOK, NumberInv, [Next]_vars
  PROVE  NumberInv'
  <1> USE DEF NumberInv
  <1> DEFINE After(id) ==
        /\ id.checkedAt <= clock'
        /\ id.checkedAt = clock' => id.sequence <= sequence'[id.connector]
  <1>0. \A id \in ReportId : id.connector \in Connector /\ id.checkedAt \in Nat /\ id.sequence \in Nat
    BY BoundAssumption DEF ReportId, Time
  <1>1. ASSUME NEW c \in Caller, NEW n \in Connector, NEW control \in Control,
               NEW tickets \in SUBSET Ticket, StartReadinessCheck(c, n, control, tickets)
        PROVE  NumberInv'
    <2> DEFINE s == NextAppRecordSequence(n)
               new == [connector |-> n, checkedAt |-> clock, sequence |-> s]
    <2>1. s \in Nat /\ s > sequence[n] /\ sequence[n] \in Nat /\ clock \in Nat
      BY SequenceGrows, BoundAssumption DEF TypeOK, Time
    <2>2. /\ sequence' = [sequence EXCEPT ![n] = s]
          /\ calls' = [calls EXCEPT ![c] =
               [at |-> "probe", control |-> control, tickets |-> tickets, id |-> new]]
          /\ UNCHANGED <<reports, clock>>
      BY <1>1 DEF StartReadinessCheck
    <2>3. new.connector = n /\ new.checkedAt = clock /\ new.sequence = s
      OBVIOUS
    <2> HIDE DEF s, new
    <2>4. \A id \in ReportId : Numbered(id) => After(id) /\ id # new
      BY <1>0, <2>1, <2>2, <2>3 DEF Numbered, TypeOK
    <2>5. After(new)
      BY <2>1, <2>2, <2>3 DEF Numbered, TypeOK
    <2>6. \A id \in DOMAIN reports' : After(id) /\ id # new
      BY <2>2, <2>4 DEF TypeOK
    <2>7. calls'[c].at = "probe" /\ calls'[c].id = new
      BY <2>2 DEF TypeOK
    <2>8. \A d \in Caller \ {c} : calls'[d] = calls[d]
      BY <2>2 DEF TypeOK
    <2>9. \A d \in Caller \ {c} : calls[d].at = "probe" => After(calls[d].id) /\ calls[d].id # new
      BY <2>4, CallFields DEF TypeOK
    <2>10. ReportIdsAreFresh'
      BY <2>2, <2>6, <2>7, <2>8, <2>9 DEF ReportIdsAreFresh
    <2>11. \A d \in Caller : calls'[d].at = "probe" => After(calls'[d].id)
      BY <2>5, <2>7, <2>8, <2>9
    <2> QED
      BY <2>2, <2>6, <2>10, <2>11 DEF Numbered
  <1>2. ASSUME NEW c \in Caller, NEW compensated \in BOOLEAN,
               FinishReadinessCheck(c, compensated)
        PROVE  NumberInv'
    <2>1. /\ DOMAIN reports' = DOMAIN reports \cup {calls[c].id}
          /\ calls' = [calls EXCEPT ![c] = Idle]
          /\ UNCHANGED <<sequence, clock>>
          /\ calls[c].at = "probe"
      BY <1>2 DEF FinishReadinessCheck, Put
    <2>2. IsFiniteSet(DOMAIN reports')
      BY <2>1, FS_AddElement
    <2>3. \A d \in Caller : calls'[d].at = "probe" => d # c /\ calls'[d] = calls[d]
      BY <2>1 DEF TypeOK, Idle
    <2> QED
      BY <2>1, <2>2, <2>3 DEF ReportIdsAreFresh, Numbered
  <1>3. ASSUME NEW c \in Caller, UNCHANGED <<reports, sequence, clock>>, NEW call,
               call.at # "probe", calls' = [calls EXCEPT ![c] = call]
        PROVE  NumberInv'
    <2>1. \A d \in Caller : calls'[d].at = "probe" => calls'[d] = calls[d]
      BY <1>3 DEF TypeOK
    <2> QED
      BY <1>3, <2>1 DEF ReportIdsAreFresh, Numbered
  <1>4. CASE Restart \/ Tick
    <2>1. clock' > clock /\ clock \in Nat /\ clock' \in Nat
      BY <1>4, BoundAssumption DEF Restart, Tick, TypeOK, Time
    <2>2. \A id \in ReportId : Numbered(id) => After(id)
      BY <1>0, <2>1 DEF Numbered
    <2>3. \A d \in Caller : calls'[d].at = "probe" => calls'[d] = calls[d]
      BY <1>4 DEF Restart, Tick, Idle
    <2>4. reports' = reports
      BY <1>4 DEF Restart, Tick
    <2>5. \A d \in Caller : calls'[d].at = "probe" => calls[d].id \in ReportId
      BY <2>3, CallFields DEF TypeOK
    <2>6. \A d \in Caller : calls'[d].at = "probe" => After(calls'[d].id)
      BY <2>2, <2>3, <2>5 DEF Numbered
    <2> QED
      BY <2>2, <2>3, <2>4, <2>6 DEF ReportIdsAreFresh, TypeOK, Numbered
  <1>5. CASE UNCHANGED vars
    BY <1>5 DEF vars, ReportIdsAreFresh, Numbered
  <1>6. ASSUME NEW c \in Caller, NEW id \in PlanId, NEW key \in Key,
               NEW options \in RequestedOptions, StartPlan(c, id, key, options)
        PROVE  NumberInv'
    BY <1>3, <1>6 DEF StartPlan
  <1>7. ASSUME NEW c \in Caller, FinishPlan(c)
        PROVE  NumberInv'
    BY <1>3, <1>7 DEF FinishPlan, Idle
  <1>8. ASSUME NEW c \in Caller, NEW id \in PlanId, NEW key \in Key, NEW approver \in Approver,
               StartDryRunJob(c, id, key, approver)
        PROVE  NumberInv'
    BY <1>3, <1>8 DEF StartDryRunJob
  <1>9. ASSUME NEW c \in Caller, FinishDryRunJob(c)
        PROVE  NumberInv'
    BY <1>3, <1>9 DEF FinishDryRunJob, Idle
  <1>10. ASSUME NEW c \in Caller, NEW id \in PlanId, NEW key \in Key, NEW approver \in Approver,
                NEW approval \in Approval \cup {None}, NEW control \in Control \cup {None},
                StartEnforcementJob(c, id, key, approver, approval, control)
         PROVE  NumberInv'
    BY <1>3, <1>10 DEF StartEnforcementJob
  <1>11. ASSUME NEW c \in Caller, NEW applied \in BOOLEAN, ApplyProvisioningChange(c, applied)
         PROVE  NumberInv'
    BY <1>3, <1>11 DEF ApplyProvisioningChange
  <1>12. ASSUME NEW c \in Caller, NEW verified \in BOOLEAN, FinishEnforcementJob(c, verified)
         PROVE  NumberInv'
    BY <1>3, <1>12 DEF FinishEnforcementJob, Idle
  <1>13. ASSUME NEW c \in Caller, CallThrows(c)
         PROVE  NumberInv'
    BY <1>3, <1>13 DEF CallThrows, Idle
  <1> QED
    BY <1>1, <1>2, <1>4, <1>5, <1>6, <1>7, <1>8, <1>9, <1>10, <1>11, <1>12, <1>13
       DEF Next, CallStep

-----------------------------------------------------------------------------
(* Authorisation *)

\* Reports are only ever added, so what they authorise stays authorised.
LEMMA ReportsGrow ==
  ASSUME [Next]_vars
  PROVE  \A id \in DOMAIN reports : id \in DOMAIN reports' /\ reports'[id] = reports[id]
  <1>1. ASSUME NEW c \in Caller, NEW compensated \in BOOLEAN,
               FinishReadinessCheck(c, compensated)
        PROVE  \A id \in DOMAIN reports : id \in DOMAIN reports' /\ reports'[id] = reports[id]
    BY <1>1 DEF FinishReadinessCheck, Put
  <1>2. CASE reports' = reports
    BY <1>2
  <1>3. ASSUME NEW c \in Caller, CallStep(c),
               ~ \E compensated \in BOOLEAN : FinishReadinessCheck(c, compensated)
        PROVE  reports' = reports
    <2>1. CASE \E n \in Connector, control \in Control, tickets \in SUBSET Ticket :
                 StartReadinessCheck(c, n, control, tickets)
      BY <2>1 DEF StartReadinessCheck
    <2>2. CASE \/ \E id \in PlanId, key \in Key, options \in RequestedOptions :
                    StartPlan(c, id, key, options)
               \/ FinishPlan(c)
      BY <2>2 DEF StartPlan, FinishPlan
    <2>3. CASE \/ \E id \in PlanId, key \in Key, approver \in Approver :
                    StartDryRunJob(c, id, key, approver)
               \/ FinishDryRunJob(c)
               \/ CallThrows(c)
      BY <2>3 DEF StartDryRunJob, FinishDryRunJob, CallThrows
    <2>4. CASE \E id \in PlanId, key \in Key, approver \in Approver,
                  approval \in Approval \cup {None}, control \in Control \cup {None} :
                 StartEnforcementJob(c, id, key, approver, approval, control)
      BY <2>4 DEF StartEnforcementJob
    <2>5. CASE \/ \E applied \in BOOLEAN : ApplyProvisioningChange(c, applied)
               \/ \E verified \in BOOLEAN : FinishEnforcementJob(c, verified)
      BY <2>5 DEF ApplyProvisioningChange, FinishEnforcementJob
    <2> QED
      BY <1>3, <2>1, <2>2, <2>3, <2>4, <2>5 DEF CallStep
  <1>4. CASE Restart \/ Tick \/ UNCHANGED vars
    BY <1>2, <1>4 DEF Restart, Tick, vars
  <1> QED
    BY <1>1, <1>2, <1>3, <1>4 DEF Next

\* The handlers that have passed the guards hold what the guards asked for.
CallsAuthorized ==
  \A c \in Caller :
    calls[c].at \in {"apply", "verify"} => Authorized(connectorOf[calls[c].plan], calls[c])

AuthorizedInv == CallsAuthorized /\ EnforcedJobIsAuthorized /\ AppliedChangeIsAuthorized

\* Every action keeps executions and enforcement jobs authorised.
LEMMA AuthorizedStep ==
  ASSUME TypeOK, AuthorizedInv, [Next]_vars
  PROVE  AuthorizedInv'
  <1> USE DEF AuthorizedInv
  <1> DEFINE After(n, job) ==
        /\ n \in Mock
        /\ job.approval.approved
        /\ job.approval.approver = job.approver
        /\ job.approval.expiresAt > job.startedAt
        /\ job.control.syntheticOnly /\ ~job.control.liveProviderWrites
        /\ ~job.control.breakGlass /\ ~job.control.incidentMode
        /\ \E id \in DOMAIN reports' :
             /\ id.connector = n
             /\ reports'[id].status = "ready"
             /\ reports'[id].control = job.control
             /\ job.approval.ticket \in reports'[id].tickets
  <1>1. ASSUME NEW n, NEW job, Authorized(n, job)
        PROVE  After(n, job)
    BY <1>1, ReportsGrow DEF Authorized, HasReadyReport
  <1>2. ASSUME \A c \in Caller : calls'[c].at \in {"apply", "verify"} =>
                 After(connectorOf[calls'[c].plan], calls'[c]),
               \A j \in DOMAIN jobs' : jobs'[j].mode = "enforcement" =>
                 After(connectorOf[j[1]], jobs'[j]),
               \A w \in writes' : After(connectorOf[w.plan], w)
        PROVE  AuthorizedInv'
    BY <1>2 DEF CallsAuthorized, EnforcedJobIsAuthorized, AppliedChangeIsAuthorized, Authorized,
                HasReadyReport
  <1>3. \A c \in Caller : calls[c].at \in {"apply", "verify"} =>
          After(connectorOf[calls[c].plan], calls[c])
    BY <1>1 DEF CallsAuthorized
  <1>4. /\ \A j \in DOMAIN jobs : jobs[j].mode = "enforcement" => After(connectorOf[j[1]], jobs[j])
        /\ \A w \in writes : After(connectorOf[w.plan], w)
    BY <1>1 DEF EnforcedJobIsAuthorized, AppliedChangeIsAuthorized
  <1>5. ASSUME NEW c \in Caller, NEW id \in PlanId, NEW key \in Key, NEW approver \in Approver,
               NEW approval \in Approval \cup {None}, NEW control \in Control \cup {None},
               StartEnforcementJob(c, id, key, approver, approval, control)
        PROVE  AuthorizedInv'
    <2> DEFINE plan == plans[id]
               usedApproval == IF approval # None THEN approval ELSE plan.approval
               usedControl == IF control # None THEN control ELSE plan.control
               call == [at |-> "apply", plan |-> id, key |-> key, copy |-> plan,
                        approver |-> approver, approval |-> usedApproval,
                        control |-> usedControl, startedAt |-> clock]
    <2>1. /\ AssertControlledEnforcementAllowed(connectorOf[id], usedApproval, usedControl, approver)
          /\ AssertEnforcementReadiness(connectorOf[id], plan.report, usedApproval, usedControl)
          /\ calls' = [calls EXCEPT ![c] = call]
          /\ jobs' = jobs /\ writes' = writes
      BY <1>5 DEF StartEnforcementJob
    <2>2. Authorized(connectorOf[id], call)
      BY <2>1 DEF Authorized, HasReadyReport, AssertControlledEnforcementAllowed,
                  AssertEnforcementReadiness
    <2>3. call.plan = id
      OBVIOUS
    <2> HIDE DEF call
    <2>4. After(connectorOf[call.plan], call)
      BY <1>1, <2>2, <2>3
    <2>5. \A d \in Caller : calls'[d] = IF d = c THEN call ELSE calls[d]
      BY <2>1 DEF TypeOK
    <2> HIDE DEF After
    <2> QED
      BY <1>2, <1>3, <1>4, <2>1, <2>4, <2>5
  <1>6. ASSUME NEW c \in Caller, NEW applied \in BOOLEAN, ApplyProvisioningChange(c, applied)
        PROVE  AuthorizedInv'
    <2> DEFINE call == [at |-> "verify", plan |-> calls[c].plan, key |-> calls[c].key,
                        copy |-> calls[c].copy, approver |-> calls[c].approver,
                        approval |-> calls[c].approval, control |-> calls[c].control,
                        startedAt |-> calls[c].startedAt, applied |-> applied]
    <2>1. /\ calls[c].at = "apply" /\ calls' = [calls EXCEPT ![c] = call] /\ jobs' = jobs
          /\ writes' \subseteq writes \cup {ExecutionOf(calls[c])}
      BY <1>6 DEF ApplyProvisioningChange
    <2>2. After(connectorOf[calls[c].plan], calls[c])
      BY <1>3, <2>1
    <2>3. /\ After(connectorOf[call.plan], call)
          /\ After(connectorOf[ExecutionOf(calls[c]).plan], ExecutionOf(calls[c]))
      BY <2>2 DEF ExecutionOf
    <2> HIDE DEF call, After
    <2>4. \A d \in Caller : calls'[d] = IF d = c THEN call ELSE calls[d]
      BY <2>1 DEF TypeOK
    <2> QED
      BY <1>2, <1>3, <1>4, <2>1, <2>3, <2>4
  <1>7. ASSUME NEW c \in Caller, NEW verified \in BOOLEAN, FinishEnforcementJob(c, verified)
        PROVE  AuthorizedInv'
    <2> DEFINE id == <<calls[c].plan, calls[c].key>>
               job == [mode |-> "enforcement",
                       status |-> IF calls[c].applied /\ verified THEN "completed" ELSE "failed",
                       approver |-> calls[c].approver, approval |-> calls[c].approval,
                       control |-> calls[c].control, startedAt |-> calls[c].startedAt]
    <2>1. /\ calls[c].at = "verify"
          /\ calls' = [calls EXCEPT ![c] = Idle]
          /\ jobs' = Put(jobs, id, job)
          /\ writes' = writes
      BY <1>7 DEF FinishEnforcementJob
    <2>2. After(connectorOf[calls[c].plan], calls[c])
      BY <1>3, <2>1
    <2>3. After(connectorOf[id[1]], job)
      BY <2>2
    <2> HIDE DEF id, job, After
    <2>4. \A d \in Caller : calls'[d] = IF d = c THEN Idle ELSE calls[d]
      BY <2>1 DEF TypeOK
    <2>5. \A j \in DOMAIN jobs' : (j = id /\ jobs'[j] = job) \/ (j \in DOMAIN jobs /\ jobs'[j] = jobs[j])
      BY <2>1 DEF Put
    <2>6. Idle.at \notin {"apply", "verify"}
      BY DEF Idle
    <2> QED
      BY <1>2, <1>3, <1>4, <2>1, <2>3, <2>4, <2>5, <2>6
  <1>8. ASSUME NEW c \in Caller, FinishDryRunJob(c)
        PROVE  AuthorizedInv'
    <2> DEFINE id == <<calls[c].plan, calls[c].key>>
               job == [mode |-> "dry_run", status |-> "completed", approver |-> calls[c].approver]
    <2>1. calls' = [calls EXCEPT ![c] = Idle] /\ jobs' = Put(jobs, id, job) /\ writes' = writes
      BY <1>8 DEF FinishDryRunJob
    <2>2. \A d \in Caller : calls'[d] = IF d = c THEN Idle ELSE calls[d]
      BY <2>1 DEF TypeOK
    <2>3. job.mode = "dry_run"
      OBVIOUS
    <2> HIDE DEF id, job, After
    <2>4. \A j \in DOMAIN jobs' : jobs'[j] = job \/ (j \in DOMAIN jobs /\ jobs'[j] = jobs[j])
      BY <2>1 DEF Put
    <2>5. Idle.at \notin {"apply", "verify"}
      BY DEF Idle
    <2> QED
      BY <1>2, <1>3, <1>4, <2>1, <2>2, <2>3, <2>4, <2>5
  <1>9. ASSUME jobs' = jobs, writes' = writes,
               \A c \in Caller : calls'[c].at \in {"apply", "verify"} => calls'[c] = calls[c]
        PROVE  AuthorizedInv'
    <2> HIDE DEF After
    <2> QED
      BY <1>2, <1>3, <1>4, <1>9
  <1> HIDE DEF After, AuthorizedInv
  <1>10. ASSUME NEW c \in Caller, NEW call, call.at \notin {"apply", "verify"},
                calls' = [calls EXCEPT ![c] = call], jobs' = jobs, writes' = writes
         PROVE  AuthorizedInv'
    BY <1>9, <1>10 DEF TypeOK
  <1>11. ASSUME NEW c \in Caller, NEW n \in Connector, NEW control \in Control,
                NEW tickets \in SUBSET Ticket, StartReadinessCheck(c, n, control, tickets)
         PROVE  AuthorizedInv'
    BY <1>10, <1>11 DEF StartReadinessCheck
  <1>12. ASSUME NEW c \in Caller, NEW compensated \in BOOLEAN,
                FinishReadinessCheck(c, compensated)
         PROVE  AuthorizedInv'
    BY <1>10, <1>12 DEF FinishReadinessCheck, Idle
  <1>13. ASSUME NEW c \in Caller, NEW id \in PlanId, NEW key \in Key,
                NEW options \in RequestedOptions, StartPlan(c, id, key, options)
         PROVE  AuthorizedInv'
    BY <1>10, <1>13 DEF StartPlan
  <1>14. ASSUME NEW c \in Caller, FinishPlan(c) \/ CallThrows(c)
         PROVE  AuthorizedInv'
    BY <1>10, <1>14 DEF FinishPlan, CallThrows, Idle
  <1>15. ASSUME NEW c \in Caller, NEW id \in PlanId, NEW key \in Key, NEW approver \in Approver,
                StartDryRunJob(c, id, key, approver)
         PROVE  AuthorizedInv'
    BY <1>10, <1>15 DEF StartDryRunJob
  <1>16. CASE Restart \/ Tick \/ UNCHANGED vars
    BY <1>9, <1>16 DEF Restart, Tick, vars, Idle
  <1> QED
    BY <1>5, <1>6, <1>7, <1>8, <1>11, <1>12, <1>13, <1>14, <1>15, <1>16 DEF Next, CallStep

-----------------------------------------------------------------------------
(* The audit trail *)

\* Enforcement plans, and the handlers that execute one, have their approval in
\* the audit trail.
ApprovalOnRecord ==
  /\ \A p \in DOMAIN plans :
       plans[p].mode = "enforcement" => <<"approved", <<p, None>>>> \in audit
  /\ \A c \in Caller : calls[c].at \in {"apply", "verify"} =>
       <<"approved", <<calls[c].plan, None>>>> \in audit

AuditInv == ApprovalOnRecord /\ ChangeIsApproved

\* Every action keeps the approvals of plans and changes on record.
LEMMA AuditStep ==
  ASSUME TypeOK, AuditInv, [Next]_vars
  PROVE  AuditInv'
  <1> USE DEF AuditInv
  <1>0. \A id \in JobId : id[1] \in PlanId /\ id[2] \in Key /\ id = <<id[1], id[2]>>
    BY DEF JobId
  <1>1. ASSUME NEW c \in Caller, FinishPlan(c)
        PROVE  AuditInv'
    <2> DEFINE plan == PrepareProvisioningPlanForExecution(calls[c].key, calls[c].options)
               id == calls[c].plan
    <2>1. /\ plans' = Put(plans, id, plan)
          /\ audit' = audit \cup (PlanEvents(plan) \X {<<id, None>>})
          /\ calls' = [calls EXCEPT ![c] = Idle]
          /\ writes' = writes
      BY <1>1 DEF FinishPlan
    <2> HIDE DEF plan
    <2>3. \A p \in DOMAIN plans' :
            (p = id /\ plans'[p] = plan) \/ (p \in DOMAIN plans /\ plans'[p] = plans[p])
      BY <2>1 DEF Put
    <2>4. plan.mode = "enforcement" => "approved" \in PlanEvents(plan)
      BY DEF PlanEvents
    <2>5. PlanEvents(plan) \subseteq PlanEvent
      BY DEF PlanEvents, PlanEvent
    <2>6. \A d \in Caller : calls'[d] = IF d = c THEN Idle ELSE calls[d]
      BY <2>1 DEF TypeOK
    <2>7. ApprovalOnRecord'
      BY <2>1, <2>3, <2>4, <2>6 DEF ApprovalOnRecord, Idle
    <2>8. \A event, j : event \notin PlanEvent /\ <<event, j>> \in audit' => <<event, j>> \in audit
      BY <2>1, <2>5
    <2>9. "permission_changed" \notin PlanEvent /\ audit \subseteq audit'
      BY <2>1 DEF PlanEvent
    <2>10. ChangeIsApproved'
      BY <2>1, <2>8, <2>9 DEF ChangeIsApproved
    <2> QED
      BY <2>7, <2>10
  <1>2. ASSUME NEW c \in Caller, FinishDryRunJob(c)
        PROVE  AuditInv'
    <2> DEFINE id == <<calls[c].plan, calls[c].key>>
    <2>1. /\ audit' = audit \cup ({"skipped", "verified", "completed"} \X {id})
          /\ calls' = [calls EXCEPT ![c] = Idle]
          /\ UNCHANGED <<plans, writes>>
      BY <1>2 DEF FinishDryRunJob
    <2>2. \A d \in Caller : calls'[d] = IF d = c THEN Idle ELSE calls[d]
      BY <2>1 DEF TypeOK
    <2>3. \A j : <<"permission_changed", j>> \in audit' => <<"permission_changed", j>> \in audit
      BY <2>1
    <2>4. audit \subseteq audit'
      BY <2>1
    <2> QED
      BY <2>1, <2>2, <2>3, <2>4 DEF ApprovalOnRecord, ChangeIsApproved, Idle
  <1>3. ASSUME NEW c \in Caller, NEW id \in PlanId, NEW key \in Key, NEW approver \in Approver,
               NEW approval \in Approval \cup {None}, NEW control \in Control \cup {None},
               StartEnforcementJob(c, id, key, approver, approval, control)
        PROVE  AuditInv'
    <2>1. /\ id \in DOMAIN plans /\ plans[id].mode = "enforcement"
          /\ UNCHANGED <<plans, audit, writes>>
          /\ calls'[c].plan = id
          /\ \A d \in Caller \ {c} : calls'[d] = calls[d]
      BY <1>3 DEF StartEnforcementJob, IsNewJob, TypeOK
    <2> QED
      BY <2>1 DEF ApprovalOnRecord, ChangeIsApproved
  <1>4. ASSUME NEW c \in Caller, NEW applied \in BOOLEAN, ApplyProvisioningChange(c, applied)
        PROVE  AuditInv'
    <2>1. /\ calls[c].at = "apply"
          /\ UNCHANGED <<plans, audit>>
          /\ writes' \subseteq writes \cup {ExecutionOf(calls[c])}
          /\ calls'[c].plan = calls[c].plan
          /\ \A d \in Caller \ {c} : calls'[d] = calls[d]
      BY <1>4 DEF ApplyProvisioningChange, TypeOK
    <2>2. \A w \in writes' : w \in writes \/ w.plan = calls[c].plan
      BY <2>1 DEF ExecutionOf
    <2>3. <<"approved", <<calls[c].plan, None>>>> \in audit
      BY <2>1 DEF ApprovalOnRecord
    <2>4. ApprovalOnRecord'
      BY <2>1, <2>3 DEF ApprovalOnRecord
    <2>5. ChangeIsApproved'
      BY <2>1, <2>2, <2>3 DEF ChangeIsApproved
    <2> QED
      BY <2>4, <2>5
  <1>5. ASSUME NEW c \in Caller, NEW verified \in BOOLEAN, FinishEnforcementJob(c, verified)
        PROVE  AuditInv'
    <2> DEFINE call == calls[c]
               id == <<call.plan, call.key>>
               completed == call.applied /\ verified
               plan == [call.copy EXCEPT !.status = IF completed THEN "applied" ELSE "failed"]
    <2>1. /\ call.at = "verify"
          /\ plans' = Put(plans, call.plan, plan)
          /\ audit' = audit \cup (EnforcementEvents(completed) \X {id})
          /\ calls' = [calls EXCEPT ![c] = Idle]
          /\ writes' = writes
      BY <1>5 DEF FinishEnforcementJob
    <2>2. call.plan \in PlanId /\ call.key \in Key
      BY <2>1, CallFields DEF TypeOK
    <2>5. <<"approved", <<call.plan, None>>>> \in audit
      BY <2>1 DEF ApprovalOnRecord
    <2>6. id \in JobId /\ id[1] = call.plan
      BY <2>2 DEF JobId
    <2> HIDE DEF plan, completed
    <2>7. \A p \in DOMAIN plans' :
            (p = call.plan /\ plans'[p] = plan) \/ (p \in DOMAIN plans /\ plans'[p] = plans[p])
      BY <2>1 DEF Put
    <2>8. \A d \in Caller : calls'[d] = IF d = c THEN Idle ELSE calls[d]
      BY <2>1 DEF TypeOK
    <2>9. /\ audit \subseteq audit'
          /\ \A event, j : <<event, j>> \in audit' =>
               <<event, j>> \in audit \/ (event \in EnforcementEvents(completed) /\ j = id)
      BY <2>1
    <2>10. ApprovalOnRecord'
      BY <2>5, <2>7, <2>8, <2>9 DEF ApprovalOnRecord, Idle
    <2>11. ChangeIsApproved'
      BY <2>1, <2>5, <2>6, <2>9 DEF ChangeIsApproved
    <2> QED
      BY <2>10, <2>11
  <1>6. ASSUME UNCHANGED <<plans, audit, writes>>,
               \A c \in Caller : calls'[c].at \in {"apply", "verify"} => calls'[c] = calls[c]
        PROVE  AuditInv'
    BY <1>6 DEF ApprovalOnRecord, ChangeIsApproved
  <1> HIDE DEF AuditInv
  <1>7. ASSUME NEW c \in Caller, NEW call, call.at \notin {"apply", "verify"},
               calls' = [calls EXCEPT ![c] = call], UNCHANGED <<plans, audit, writes>>
        PROVE  AuditInv'
    BY <1>6, <1>7 DEF TypeOK
  <1>8. ASSUME NEW c \in Caller, NEW n \in Connector, NEW control \in Control,
               NEW tickets \in SUBSET Ticket, StartReadinessCheck(c, n, control, tickets)
        PROVE  AuditInv'
    BY <1>7, <1>8 DEF StartReadinessCheck
  <1>9. ASSUME NEW c \in Caller, NEW compensated \in BOOLEAN,
               FinishReadinessCheck(c, compensated)
        PROVE  AuditInv'
    BY <1>7, <1>9 DEF FinishReadinessCheck, Idle
  <1>10. ASSUME NEW c \in Caller, NEW id \in PlanId, NEW key \in Key,
                NEW options \in RequestedOptions, StartPlan(c, id, key, options)
         PROVE  AuditInv'
    BY <1>7, <1>10 DEF StartPlan
  <1>11. ASSUME NEW c \in Caller, CallThrows(c)
         PROVE  AuditInv'
    BY <1>7, <1>11 DEF CallThrows, Idle
  <1>12. ASSUME NEW c \in Caller, NEW id \in PlanId, NEW key \in Key, NEW approver \in Approver,
                StartDryRunJob(c, id, key, approver)
         PROVE  AuditInv'
    BY <1>7, <1>12 DEF StartDryRunJob
  <1>13. CASE Restart \/ Tick \/ UNCHANGED vars
    BY <1>6, <1>13 DEF Restart, Tick, vars, Idle
  <1> QED
    BY <1>1, <1>2, <1>3, <1>4, <1>5, <1>8, <1>9, <1>10, <1>11, <1>12, <1>13 DEF Next, CallStep

-----------------------------------------------------------------------------
(* What was executed *)

\* A handler executes a plan with the plan's own approval and control, and remembers an
\* "applied" answer only of the execution the connector was given.
ExecutionsKept ==
  \A c \in Caller :
    /\ calls[c].at \in {"apply", "verify"} =>
         /\ calls[c].approval = calls[c].copy.approval
         /\ calls[c].control = calls[c].copy.control
    /\ calls[c].at = "verify" /\ calls[c].applied => ExecutionOf(calls[c]) \in writes

OutcomeInv == ExecutionsKept /\ AppliedPlanIsExecuted /\ CompletedJobIsExecuted

\* The executed changes and the audit trail only grow.
LEMMA HistoryGrows ==
  ASSUME [Next]_vars
  PROVE  writes \subseteq writes' /\ audit \subseteq audit'
  <1>1. ASSUME NEW c \in Caller, CallStep(c)
        PROVE  writes \subseteq writes' /\ audit \subseteq audit'
    <2>1. CASE \E n \in Connector, control \in Control, tickets \in SUBSET Ticket :
                 StartReadinessCheck(c, n, control, tickets)
      BY <2>1 DEF StartReadinessCheck
    <2>2. CASE \/ \E id \in PlanId, key \in Key, options \in RequestedOptions :
                    StartPlan(c, id, key, options)
               \/ FinishPlan(c)
      BY <2>2 DEF StartPlan, FinishPlan
    <2>3. CASE \/ \E id \in PlanId, key \in Key, approver \in Approver :
                    StartDryRunJob(c, id, key, approver)
               \/ FinishDryRunJob(c)
               \/ CallThrows(c)
      BY <2>3 DEF StartDryRunJob, FinishDryRunJob, CallThrows
    <2>4. CASE \E id \in PlanId, key \in Key, approver \in Approver,
                  approval \in Approval \cup {None}, control \in Control \cup {None} :
                 StartEnforcementJob(c, id, key, approver, approval, control)
      BY <2>4 DEF StartEnforcementJob
    <2>5. CASE \E applied \in BOOLEAN : ApplyProvisioningChange(c, applied)
      BY <2>5 DEF ApplyProvisioningChange
    <2>6. CASE \E verified \in BOOLEAN : FinishEnforcementJob(c, verified)
      BY <2>6 DEF FinishEnforcementJob
    <2>7. CASE \E compensated \in BOOLEAN : FinishReadinessCheck(c, compensated)
      BY <2>7 DEF FinishReadinessCheck
    <2> QED
      BY <1>1, <2>1, <2>2, <2>3, <2>4, <2>5, <2>6, <2>7 DEF CallStep
  <1>2. CASE Restart \/ Tick \/ UNCHANGED vars
    BY <1>2 DEF Restart, Tick, vars
  <1> QED
    BY <1>1, <1>2 DEF Next

\* Every action keeps "applied" and "completed" true.
LEMMA OutcomeStep ==
  ASSUME TypeOK, OutcomeInv, [Next]_vars
  PROVE  OutcomeInv'
  <1>0. writes \subseteq writes' /\ audit \subseteq audit'
    BY HistoryGrows
  <1>1. ASSUME \A p \in DOMAIN plans' : plans'[p].status = "applied" =>
                 p \in DOMAIN plans /\ plans'[p] = plans[p]
        PROVE  AppliedPlanIsExecuted'
    <2> SUFFICES ASSUME NEW p \in DOMAIN plans', plans'[p].status = "applied"
                 PROVE  \E w \in writes' :
                          /\ w.plan = p
                          /\ plans'[p] = [w.copy EXCEPT !.status = "applied"]
                          /\ {"permission_changed", "completed"} \X {<<p, w.key>>} \subseteq audit'
      BY DEF AppliedPlanIsExecuted
    <2>1. p \in DOMAIN plans /\ plans'[p] = plans[p] /\ plans[p].status = "applied"
      BY <1>1
    <2>2. PICK w \in writes : /\ w.plan = p
                              /\ plans[p] = [w.copy EXCEPT !.status = "applied"]
                              /\ {"permission_changed", "completed"} \X {<<p, w.key>>} \subseteq audit
      BY <2>1 DEF OutcomeInv, AppliedPlanIsExecuted
    <2> QED
      BY <1>0, <2>1, <2>2
  <1>2. ASSUME \A j \in DOMAIN jobs' :
                 jobs'[j].mode = "enforcement" /\ jobs'[j].status = "completed" =>
                   j \in DOMAIN jobs /\ jobs'[j] = jobs[j]
        PROVE  CompletedJobIsExecuted'
    BY <1>0, <1>2 DEF OutcomeInv, CompletedJobIsExecuted
  <1>3. ASSUME \A c \in Caller : calls'[c].at \in {"apply", "verify"} => calls'[c] = calls[c]
        PROVE  ExecutionsKept'
    <2> SUFFICES ASSUME NEW c \in Caller
                 PROVE  /\ calls'[c].at \in {"apply", "verify"} =>
                             /\ calls'[c].approval = calls'[c].copy.approval
                             /\ calls'[c].control = calls'[c].copy.control
                        /\ calls'[c].at = "verify" /\ calls'[c].applied =>
                             ExecutionOf(calls'[c]) \in writes'
      BY DEF ExecutionsKept
    <2>1. CASE calls'[c].at \in {"apply", "verify"}
      <3>1. calls'[c] = calls[c]
        BY <1>3, <2>1
      <3> QED
        BY <1>0, <2>1, <3>1 DEF OutcomeInv, ExecutionsKept
    <2>2. CASE calls'[c].at \notin {"apply", "verify"}
      BY <2>2
    <2> QED
      BY <2>1, <2>2
  <1>4. ASSUME NEW c \in Caller, NEW call, call.at \notin {"apply", "verify"},
               calls' = [calls EXCEPT ![c] = call]
        PROVE  ExecutionsKept'
    BY <1>3, <1>4 DEF TypeOK
  <1>5. ASSUME NEW c \in Caller, NEW call, call.at \notin {"apply", "verify"},
               calls' = [calls EXCEPT ![c] = call], UNCHANGED <<plans, jobs>>
        PROVE  OutcomeInv'
    BY <1>1, <1>2, <1>4, <1>5 DEF OutcomeInv
  <1>6. ASSUME NEW c \in Caller, NEW n \in Connector, NEW control \in Control,
               NEW tickets \in SUBSET Ticket, StartReadinessCheck(c, n, control, tickets)
        PROVE  OutcomeInv'
    BY <1>5, <1>6 DEF StartReadinessCheck
  <1>7. ASSUME NEW c \in Caller, NEW compensated \in BOOLEAN, FinishReadinessCheck(c, compensated)
        PROVE  OutcomeInv'
    BY <1>5, <1>7 DEF FinishReadinessCheck, Idle
  <1>8. ASSUME NEW c \in Caller, NEW id \in PlanId, NEW key \in Key,
               NEW options \in RequestedOptions, StartPlan(c, id, key, options)
        PROVE  OutcomeInv'
    BY <1>5, <1>8 DEF StartPlan
  <1>9. ASSUME NEW c \in Caller, FinishPlan(c)
        PROVE  OutcomeInv'
    <2> DEFINE plan == PrepareProvisioningPlanForExecution(calls[c].key, calls[c].options)
    <2>1. plan.status # "applied"
      BY DEF PrepareProvisioningPlanForExecution
    <2>2. /\ plans' = Put(plans, calls[c].plan, plan) /\ jobs' = jobs
          /\ calls' = [calls EXCEPT ![c] = Idle]
      BY <1>9 DEF FinishPlan
    <2> HIDE DEF plan
    <2>3. \A p \in DOMAIN plans' : plans'[p].status = "applied" =>
            p \in DOMAIN plans /\ plans'[p] = plans[p]
      BY <2>1, <2>2 DEF Put
    <2> QED
      BY <1>1, <1>2, <1>4, <2>2, <2>3 DEF OutcomeInv, Idle
  <1>10. ASSUME NEW c \in Caller, NEW id \in PlanId, NEW key \in Key, NEW approver \in Approver,
                StartDryRunJob(c, id, key, approver)
         PROVE  OutcomeInv'
    BY <1>5, <1>10 DEF StartDryRunJob
  <1>11. ASSUME NEW c \in Caller, FinishDryRunJob(c)
         PROVE  OutcomeInv'
    <2> DEFINE id == <<calls[c].plan, calls[c].key>>
               job == [mode |-> "dry_run", status |-> "completed", approver |-> calls[c].approver]
    <2>1. /\ calls' = [calls EXCEPT ![c] = Idle] /\ jobs' = Put(jobs, id, job)
          /\ plans' = plans
      BY <1>11 DEF FinishDryRunJob
    <2>2. job.mode = "dry_run"
      OBVIOUS
    <2> HIDE DEF id, job
    <2>3. \A j \in DOMAIN jobs' :
            jobs'[j].mode = "enforcement" /\ jobs'[j].status = "completed" =>
              j \in DOMAIN jobs /\ jobs'[j] = jobs[j]
      BY <2>1, <2>2 DEF Put
    <2> QED
      BY <1>1, <1>2, <1>4, <2>1, <2>3 DEF OutcomeInv, Idle
  <1>12. ASSUME NEW c \in Caller, NEW id \in PlanId, NEW key \in Key, NEW approver \in Approver,
                NEW approval \in Approval \cup {None}, NEW control \in Control \cup {None},
                StartEnforcementJob(c, id, key, approver, approval, control)
         PROVE  OutcomeInv'
    <2> DEFINE plan == plans[id]
               usedApproval == IF approval # None THEN approval ELSE plan.approval
               usedControl == IF control # None THEN control ELSE plan.control
               call == [at |-> "apply", plan |-> id, key |-> key, copy |-> plan,
                        approver |-> approver, approval |-> usedApproval,
                        control |-> usedControl, startedAt |-> clock]
    <2>1. /\ AssertJobControlsMatchPlan(plan, approval, control)
          /\ calls' = [calls EXCEPT ![c] = call]
          /\ UNCHANGED <<plans, jobs>>
      BY <1>12 DEF StartEnforcementJob
    <2>2. usedApproval = plan.approval /\ usedControl = plan.control
      BY <2>1 DEF AssertJobControlsMatchPlan
    <2>3. call.at = "apply" /\ call.approval = call.copy.approval /\ call.control = call.copy.control
      BY <2>2
    <2> HIDE DEF call
    <2>4. \A d \in Caller : calls'[d] = IF d = c THEN call ELSE calls[d]
      BY <2>1 DEF TypeOK
    <2>5. ExecutionsKept'
      <3> SUFFICES ASSUME NEW d \in Caller
                   PROVE  /\ calls'[d].at \in {"apply", "verify"} =>
                               /\ calls'[d].approval = calls'[d].copy.approval
                               /\ calls'[d].control = calls'[d].copy.control
                          /\ calls'[d].at = "verify" /\ calls'[d].applied =>
                               ExecutionOf(calls'[d]) \in writes'
        BY DEF ExecutionsKept
      <3>1. CASE d = c
        BY <2>3, <2>4, <3>1
      <3>2. CASE d # c
        <4>1. calls'[d] = calls[d]
          BY <2>4, <3>2
        <4> QED
          BY <1>0, <4>1 DEF OutcomeInv, ExecutionsKept
      <3> QED
        BY <3>1, <3>2
    <2> QED
      BY <1>1, <1>2, <2>1, <2>5 DEF OutcomeInv
  <1>13. ASSUME NEW c \in Caller, NEW applied \in BOOLEAN, ApplyProvisioningChange(c, applied)
         PROVE  OutcomeInv'
    <2> DEFINE call == calls[c]
               next == [at |-> "verify", plan |-> call.plan, key |-> call.key, copy |-> call.copy,
                        approver |-> call.approver, approval |-> call.approval,
                        control |-> call.control, startedAt |-> call.startedAt,
                        applied |-> applied]
    <2>1. /\ call.at = "apply" /\ calls' = [calls EXCEPT ![c] = next]
          /\ applied => ExecutionOf(call) \in writes'
          /\ UNCHANGED <<plans, jobs>>
      BY <1>13 DEF ApplyProvisioningChange
    <2>2. /\ next.approval = next.copy.approval /\ next.control = next.copy.control
      BY <2>1 DEF OutcomeInv, ExecutionsKept
    <2>3. ExecutionOf(next) = ExecutionOf(call) /\ next.applied = applied
      BY DEF ExecutionOf
    <2> HIDE DEF next, call
    <2>4. \A d \in Caller : calls'[d] = IF d = c THEN next ELSE calls[d]
      BY <2>1 DEF TypeOK
    <2>5. ExecutionsKept'
      <3> SUFFICES ASSUME NEW d \in Caller
                   PROVE  /\ calls'[d].at \in {"apply", "verify"} =>
                               /\ calls'[d].approval = calls'[d].copy.approval
                               /\ calls'[d].control = calls'[d].copy.control
                          /\ calls'[d].at = "verify" /\ calls'[d].applied =>
                               ExecutionOf(calls'[d]) \in writes'
        BY DEF ExecutionsKept
      <3>1. CASE d = c
        BY <2>1, <2>2, <2>3, <2>4, <3>1
      <3>2. CASE d # c
        <4>1. calls'[d] = calls[d]
          BY <2>4, <3>2
        <4> QED
          BY <1>0, <4>1 DEF OutcomeInv, ExecutionsKept
      <3> QED
        BY <3>1, <3>2
    <2> QED
      BY <1>1, <1>2, <2>1, <2>5 DEF OutcomeInv
  <1>14. ASSUME NEW c \in Caller, NEW verified \in BOOLEAN, FinishEnforcementJob(c, verified)
         PROVE  OutcomeInv'
    <2> DEFINE call == calls[c]
               id == <<call.plan, call.key>>
               completed == call.applied /\ verified
               plan == [call.copy EXCEPT !.status = IF completed THEN "applied" ELSE "failed"]
               job == [mode |-> "enforcement",
                       status |-> IF completed THEN "completed" ELSE "failed",
                       approver |-> call.approver, approval |-> call.approval,
                       control |-> call.control, startedAt |-> call.startedAt]
               w == ExecutionOf(call)
    <2>1. /\ call.at = "verify"
          /\ plans' = Put(plans, call.plan, plan)
          /\ jobs' = Put(jobs, id, job)
          /\ audit' = audit \cup (EnforcementEvents(completed) \X {id})
          /\ calls' = [calls EXCEPT ![c] = Idle]
          /\ writes' = writes
      BY <1>14 DEF FinishEnforcementJob
    <2>2. call \in Call
      BY DEF TypeOK
    <2>3. call.copy \in EnforcementPlan
      BY <2>1, <2>2, CallFields
    <2>4. plan.status = "applied" => completed
      BY <2>3 DEF EnforcementPlan
    <2>5. completed => plan = [call.copy EXCEPT !.status = "applied"]
      OBVIOUS
    <2>6. job.status = "completed" => completed
      OBVIOUS
    <2>7. completed => w \in writes
      BY <2>1 DEF OutcomeInv, ExecutionsKept
    <2>8. call.approval = call.copy.approval /\ call.control = call.copy.control
      BY <2>1 DEF OutcomeInv, ExecutionsKept
    <2>9. /\ w.plan = call.plan /\ w.key = call.key /\ w.copy = call.copy
          /\ w.approver = job.approver /\ w.startedAt = job.startedAt
          /\ job.approval = w.copy.approval /\ job.control = w.copy.control
      BY <2>8 DEF ExecutionOf
    <2>10. completed =>
             {"permission_changed", "completed"} \X {<<call.plan, w.key>>} \subseteq audit'
      BY <2>1, <2>9 DEF EnforcementEvents
    <2>11. id = <<w.plan, w.key>>
      BY <2>9
    <2> HIDE DEF plan, job, id, completed, w
    <2>12. /\ DOMAIN plans' = DOMAIN plans \cup {call.plan}
           /\ plans'[call.plan] = plan
           /\ \A p \in DOMAIN plans' : p # call.plan => p \in DOMAIN plans /\ plans'[p] = plans[p]
      BY <2>1 DEF Put
    <2>13. /\ DOMAIN jobs' = DOMAIN jobs \cup {id}
           /\ jobs'[id] = job
           /\ \A j \in DOMAIN jobs' : j # id => j \in DOMAIN jobs /\ jobs'[j] = jobs[j]
      BY <2>1 DEF Put
    <2>14. AppliedPlanIsExecuted'
      <3> SUFFICES ASSUME NEW p \in DOMAIN plans', plans'[p].status = "applied"
                   PROVE  \E v \in writes' :
                            /\ v.plan = p
                            /\ plans'[p] = [v.copy EXCEPT !.status = "applied"]
                            /\ {"permission_changed", "completed"} \X {<<p, v.key>>}
                                 \subseteq audit'
        BY DEF AppliedPlanIsExecuted
      <3>1. CASE p = call.plan
        <4>1. completed /\ plans'[p] = plan
          BY <2>4, <2>12, <3>1
        <4> QED
          BY <2>1, <2>5, <2>7, <2>9, <2>10, <3>1, <4>1
      <3>2. CASE p # call.plan
        <4>1. p \in DOMAIN plans /\ plans'[p] = plans[p]
          BY <2>12, <3>2
        <4>2. PICK v \in writes :
                /\ v.plan = p
                /\ plans[p] = [v.copy EXCEPT !.status = "applied"]
                /\ {"permission_changed", "completed"} \X {<<p, v.key>>} \subseteq audit
          BY <4>1 DEF OutcomeInv, AppliedPlanIsExecuted
        <4> QED
          BY <1>0, <4>1, <4>2
      <3> QED
        BY <3>1, <3>2
    <2>15. CompletedJobIsExecuted'
      <3> SUFFICES ASSUME NEW j \in DOMAIN jobs',
                          jobs'[j].mode = "enforcement", jobs'[j].status = "completed"
                   PROVE  \E v \in writes' :
                            /\ <<v.plan, v.key>> = j
                            /\ v.approver = jobs'[j].approver /\ v.startedAt = jobs'[j].startedAt
                            /\ jobs'[j].approval = v.copy.approval
                            /\ jobs'[j].control = v.copy.control
        BY DEF CompletedJobIsExecuted
      <3>1. CASE j = id
        BY <2>1, <2>6, <2>7, <2>9, <2>11, <2>13, <3>1
      <3>2. CASE j # id
        <4>1. j \in DOMAIN jobs /\ jobs'[j] = jobs[j]
          BY <2>13, <3>2
        <4> QED
          BY <2>1, <4>1 DEF OutcomeInv, CompletedJobIsExecuted
      <3> QED
        BY <3>1, <3>2
    <2> QED
      BY <1>4, <2>1, <2>14, <2>15 DEF OutcomeInv, Idle
  <1>15. ASSUME NEW c \in Caller, CallThrows(c)
         PROVE  OutcomeInv'
    BY <1>5, <1>15 DEF CallThrows, Idle
  <1>16. CASE Restart \/ Tick \/ UNCHANGED vars
    <2>1. /\ UNCHANGED <<plans, jobs>>
          /\ \A c \in Caller : calls'[c] = Idle \/ calls'[c] = calls[c]
      BY <1>16 DEF Restart, Tick, vars
    <2> QED
      BY <1>1, <1>2, <1>3, <2>1 DEF OutcomeInv, Idle
  <1> QED
    BY <1>6, <1>7, <1>8, <1>9, <1>10, <1>11, <1>12, <1>13, <1>14, <1>15, <1>16
       DEF Next, CallStep

-----------------------------------------------------------------------------
(* Theorems *)

IInv == TypeOK /\ NumberInv /\ AuthorizedInv /\ AuditInv /\ OutcomeInv

\* The inductive invariant holds in every reachable state.
THEOREM Invariance == Spec => []IInv
  <1>1. Init => IInv
    <2> SUFFICES ASSUME Init PROVE IInv
      OBVIOUS
    <2>1. TypeOK
      <3>1. calls \in [Caller -> Call]
        BY CallType DEF Init
      <3>2. sequence \in [Connector -> 0 .. MaxReports] /\ clock \in Time
        BY BoundAssumption DEF Init, Time
      <3> QED
        BY <3>1, <3>2 DEF Init, TypeOK
    <2>2. NumberInv
      BY FS_EmptySet DEF Init, NumberInv, ReportIdsAreFresh, Idle
    <2>3. AuthorizedInv
      BY DEF Init, AuthorizedInv, CallsAuthorized, EnforcedJobIsAuthorized,
             AppliedChangeIsAuthorized, Idle
    <2>4. AuditInv
      BY DEF Init, AuditInv, ApprovalOnRecord, ChangeIsApproved, Idle
    <2>5. OutcomeInv
      BY DEF Init, OutcomeInv, ExecutionsKept, AppliedPlanIsExecuted, CompletedJobIsExecuted, Idle
    <2> QED
      BY <2>1, <2>2, <2>3, <2>4, <2>5 DEF IInv
  <1>2. IInv /\ [Next]_vars => IInv'
    BY TypeStep, NumberStep, AuthorizedStep, AuditStep, OutcomeStep DEF IInv, NumberInv
  <1> QED
    BY <1>1, <1>2, PTL DEF Spec

\* Records stay well-formed; every enforcement plan has an approval, a control
\* and a report id.
THEOREM TypeCorrect == Spec => []TypeOK
  BY Invariance, PTL DEF IInv

\* Readiness reports never collide, for any number of overlapping checks and
\* restarts (createEnforcementReadinessReportId).
THEOREM ReportIdsAreFreshHolds == Spec => []ReportIdsAreFresh
  BY Invariance, PTL DEF IInv, NumberInv

\* Enforcement jobs were authorised when they started (executeControlledEnforcementJob).
THEOREM EnforcedJobIsAuthorizedHolds == Spec => []EnforcedJobIsAuthorized
  BY Invariance, PTL DEF IInv, AuthorizedInv

\* Permission changes, audited or applied, have an approval in the audit trail.
THEOREM ChangeIsApprovedHolds == Spec => []ChangeIsApproved
  BY Invariance, PTL DEF IInv, AuditInv

\* Every change the connector applied was authorised, whatever became of its handler.
THEOREM AppliedChangeIsAuthorizedHolds == Spec => []AppliedChangeIsAuthorized
  BY Invariance, PTL DEF IInv, AuthorizedInv

\* For any number of overlapping calls an enforcement has its ready report, and its change
\* an approval on record.
THEOREM EnforcementIsAuthorizedHolds == Spec => []EnforcementIsAuthorized
  BY EnforcedJobIsAuthorizedHolds, AppliedChangeIsAuthorizedHolds, ChangeIsApprovedHolds, PTL
     DEF EnforcementIsAuthorized

\* For any number of overlapping calls, replaced plans and restarts, a plan reads "applied"
\* and a job "completed" only for the execution the connector was given
\* (executeControlledEnforcementJob).
THEOREM OutcomeIsTrueHolds == Spec => []OutcomeIsTrue
  <1>1. IInv => OutcomeIsTrue
    BY DEF IInv, OutcomeInv, OutcomeIsTrue
  <1> QED
    BY <1>1, Invariance, PTL

-----------------------------------------------------------------------------
(* Requests that do not overlap *)

\* The key of the job being executed has no job yet.
SerialInv ==
  /\ KeyNamesOneJob
  /\ \A c \in Caller : calls[c].at \in {"dry_run", "apply", "verify"} =>
       \A j \in DOMAIN jobs : j[2] # calls[c].key

\* With one caller, a step keeps the key of the running job unused and changes
\* no stored job.
LEMMA SerialStep ==
  ASSUME NEW only, Caller = {only}, TypeOK, SerialInv, [Next]_vars
  PROVE  SerialInv' /\ \A j \in DOMAIN jobs : j \in DOMAIN jobs' /\ jobs'[j] = jobs[j]
  <1> DEFINE Goal == SerialInv' /\ \A j \in DOMAIN jobs : j \in DOMAIN jobs' /\ jobs'[j] = jobs[j]
  <1>1. ASSUME NEW c \in Caller, NEW job,
               jobs' = Put(jobs, <<calls[c].plan, calls[c].key>>, job),
               calls[c].at \in {"dry_run", "verify"}, calls' = [calls EXCEPT ![c] = Idle]
        PROVE  Goal
    <2> DEFINE id == <<calls[c].plan, calls[c].key>>
    <2>1. id[2] = calls[c].key
      OBVIOUS
    <2>2. \A j \in DOMAIN jobs : j[2] # id[2]
      BY <1>1, <2>1 DEF SerialInv
    <2> HIDE DEF id
    <2>3. /\ DOMAIN jobs' = DOMAIN jobs \cup {id}
          /\ \A j \in DOMAIN jobs : j # id => jobs'[j] = jobs[j]
      BY <1>1 DEF Put, id
    <2>4. \A d \in Caller : calls'[d].at = "idle"
      BY <1>1 DEF TypeOK, Idle
    <2>5. KeyNamesOneJob'
      BY <2>2, <2>3 DEF SerialInv, KeyNamesOneJob
    <2> QED
      BY <2>2, <2>3, <2>4, <2>5 DEF SerialInv
  <1>2. ASSUME NEW c \in Caller, NEW id, NEW key, NEW call, IsNewJob(id, key), call.key = key,
               jobs' = jobs, calls' = [calls EXCEPT ![c] = call]
        PROVE  Goal
    <2>1. \A d \in Caller : calls'[d] = call
      BY <1>2 DEF TypeOK
    <2> QED
      BY <1>2, <2>1 DEF SerialInv, KeyNamesOneJob, IsNewJob
  <1>3. ASSUME jobs' = jobs,
               \A c \in Caller : calls'[c].at \in {"dry_run", "apply", "verify"} =>
                 /\ calls[c].at \in {"dry_run", "apply", "verify"}
                 /\ calls'[c].key = calls[c].key
        PROVE  Goal
    BY <1>3 DEF SerialInv, KeyNamesOneJob
  <1>4. ASSUME NEW c \in Caller, NEW call, call.at \notin {"dry_run", "apply", "verify"},
               jobs' = jobs, calls' = [calls EXCEPT ![c] = call]
        PROVE  Goal
    BY <1>3, <1>4 DEF TypeOK
  <1>5. ASSUME NEW c \in Caller, NEW n \in Connector, NEW control \in Control,
               NEW tickets \in SUBSET Ticket, StartReadinessCheck(c, n, control, tickets)
        PROVE  Goal
    BY <1>4, <1>5 DEF StartReadinessCheck
  <1>6. ASSUME NEW c \in Caller, NEW compensated \in BOOLEAN,
               FinishReadinessCheck(c, compensated)
        PROVE  Goal
    BY <1>4, <1>6 DEF FinishReadinessCheck, Idle
  <1>7. ASSUME NEW c \in Caller, NEW id \in PlanId, NEW key \in Key,
               NEW options \in RequestedOptions, StartPlan(c, id, key, options)
        PROVE  Goal
    BY <1>4, <1>7 DEF StartPlan
  <1>8. ASSUME NEW c \in Caller, FinishPlan(c) \/ CallThrows(c)
        PROVE  Goal
    BY <1>4, <1>8 DEF FinishPlan, CallThrows, Idle
  <1>9. ASSUME NEW c \in Caller, NEW id \in PlanId, NEW key \in Key, NEW approver \in Approver,
               StartDryRunJob(c, id, key, approver)
        PROVE  Goal
    BY <1>2, <1>9 DEF StartDryRunJob
  <1>10. ASSUME NEW c \in Caller, FinishDryRunJob(c)
         PROVE  Goal
    BY <1>1, <1>10 DEF FinishDryRunJob
  <1>11. ASSUME NEW c \in Caller, NEW id \in PlanId, NEW key \in Key, NEW approver \in Approver,
                NEW approval \in Approval \cup {None}, NEW control \in Control \cup {None},
                StartEnforcementJob(c, id, key, approver, approval, control)
         PROVE  Goal
    BY <1>2, <1>11 DEF StartEnforcementJob
  <1>12. ASSUME NEW c \in Caller, NEW applied \in BOOLEAN, ApplyProvisioningChange(c, applied)
         PROVE  Goal
    <2>1. /\ jobs' = jobs /\ calls[c].at = "apply" /\ calls'[c].key = calls[c].key
          /\ \A d \in Caller \ {c} : calls'[d] = calls[d]
      BY <1>12 DEF ApplyProvisioningChange, TypeOK
    <2> QED
      BY <1>3, <2>1
  <1>13. ASSUME NEW c \in Caller, NEW verified \in BOOLEAN, FinishEnforcementJob(c, verified)
         PROVE  Goal
    BY <1>1, <1>13 DEF FinishEnforcementJob
  <1>14. CASE Restart \/ Tick \/ UNCHANGED vars
    <2>1. jobs' = jobs /\ \A c \in Caller : calls'[c].at = "idle" \/ calls'[c] = calls[c]
      BY <1>14 DEF Restart, Tick, vars, Idle
    <2> QED
      BY <1>3, <2>1
  <1> QED
    BY <1>5, <1>6, <1>7, <1>8, <1>9, <1>10, <1>11, <1>12, <1>13, <1>14 DEF Next, CallStep

\* When requests do not overlap, a key names one job (createProvisioningJob).
THEOREM KeyNamesOneJobHolds ==
  ASSUME NEW only, Caller = {only}
  PROVE  Spec => []KeyNamesOneJob
  <1>1. Init => SerialInv
    BY DEF Init, SerialInv, KeyNamesOneJob
  <1>2. IInv /\ SerialInv /\ [Next]_vars => SerialInv'
    BY SerialStep DEF IInv
  <1>3. SerialInv => KeyNamesOneJob
    BY DEF SerialInv
  <1> QED
    BY <1>1, <1>2, <1>3, Invariance, PTL DEF Spec

\* When requests do not overlap, the record of a job never changes.
THEOREM JobIsFinalHolds ==
  ASSUME NEW only, Caller = {only}
  PROVE  Spec => JobIsFinal
  <1>1. Init => SerialInv
    BY DEF Init, SerialInv, KeyNamesOneJob
  <1>2. IInv /\ SerialInv /\ [Next]_vars =>
          SerialInv' /\ [\A j \in DOMAIN jobs : j \in DOMAIN jobs' /\ jobs'[j] = jobs[j]]_vars
    BY SerialStep DEF IInv
  <1> QED
    BY <1>1, <1>2, Invariance, PTL DEF Spec, JobIsFinal

\* A step that keeps every stored job and makes no plan read "applied" keeps the completed
\* jobs of the applied plans.
LEMMA AppliedKept ==
  ASSUME AppliedPlanHasCompletedJob,
         \A j \in DOMAIN jobs : j \in DOMAIN jobs' /\ jobs'[j] = jobs[j],
         \A p \in DOMAIN plans' : plans'[p].status = "applied" =>
           p \in DOMAIN plans /\ plans[p].status = "applied"
  PROVE  AppliedPlanHasCompletedJob'
  BY DEF AppliedPlanHasCompletedJob

\* With one caller, a plan that becomes applied does so with its completed job, and a job
\* that is stored stays (executeControlledEnforcementJob).
LEMMA AppliedStep ==
  ASSUME NEW only, Caller = {only}, TypeOK, SerialInv, AppliedPlanHasCompletedJob, [Next]_vars
  PROVE  AppliedPlanHasCompletedJob'
  <1>1. \A j \in DOMAIN jobs : j \in DOMAIN jobs' /\ jobs'[j] = jobs[j]
    BY SerialStep
  <1>2. ASSUME plans' = plans
        PROVE  AppliedPlanHasCompletedJob'
    BY <1>1, <1>2, AppliedKept
  <1>3. ASSUME NEW c \in Caller, FinishPlan(c)
        PROVE  AppliedPlanHasCompletedJob'
    <2> DEFINE plan == PrepareProvisioningPlanForExecution(calls[c].key, calls[c].options)
    <2>1. plan.status # "applied"
      BY DEF PrepareProvisioningPlanForExecution
    <2>2. plans' = Put(plans, calls[c].plan, plan)
      BY <1>3 DEF FinishPlan
    <2> HIDE DEF plan
    <2>3. \A p \in DOMAIN plans' : plans'[p].status = "applied" =>
            p \in DOMAIN plans /\ plans[p].status = "applied"
      BY <2>1, <2>2 DEF Put
    <2> QED
      BY <1>1, <2>3, AppliedKept
  <1>4. ASSUME NEW c \in Caller, NEW verified \in BOOLEAN, FinishEnforcementJob(c, verified)
        PROVE  AppliedPlanHasCompletedJob'
    <2> DEFINE plan == calls[c].plan
               id == <<calls[c].plan, calls[c].key>>
               completed == calls[c].applied /\ verified
    <2>1. calls[c] \in Call /\ calls[c].at = "verify"
      BY <1>4 DEF TypeOK, FinishEnforcementJob
    <2>2. calls[c].copy \in EnforcementPlan
      BY <2>1, CallFields
    <2>3. [calls[c].copy EXCEPT !.status = IF completed THEN "applied" ELSE "failed"].status
            = IF completed THEN "applied" ELSE "failed"
      BY <2>2 DEF EnforcementPlan
    <2>4. plans' = Put(plans, plan,
            [calls[c].copy EXCEPT !.status = IF completed THEN "applied" ELSE "failed"])
      BY <1>4 DEF FinishEnforcementJob
    <2>5. /\ DOMAIN plans' = DOMAIN plans \cup {plan}
          /\ plans'[plan].status = IF completed THEN "applied" ELSE "failed"
          /\ \A p \in DOMAIN plans \ {plan} : plans'[p] = plans[p]
      BY <2>3, <2>4 DEF Put
    <2>6. completed => /\ id \in DOMAIN jobs' /\ jobs'[id].mode = "enforcement"
                       /\ jobs'[id].status = "completed"
      BY <1>4 DEF FinishEnforcementJob, Put
    <2>7. id[1] = plan
      OBVIOUS
    <2> HIDE DEF plan, id, completed
    <2>8. CASE completed
      BY <1>1, <2>5, <2>6, <2>7, <2>8 DEF AppliedPlanHasCompletedJob
    <2>9. CASE ~completed
      BY <1>1, <2>5, <2>9, AppliedKept
    <2> QED
      BY <2>8, <2>9
  <1>5. ASSUME NEW c \in Caller, CallStep(c)
        PROVE  AppliedPlanHasCompletedJob'
    <2>1. ASSUME NEW n \in Connector, NEW control \in Control, NEW tickets \in SUBSET Ticket,
                 StartReadinessCheck(c, n, control, tickets)
          PROVE  plans' = plans
      BY <2>1 DEF StartReadinessCheck
    <2>2. ASSUME NEW compensated \in BOOLEAN, FinishReadinessCheck(c, compensated)
          PROVE  plans' = plans
      BY <2>2 DEF FinishReadinessCheck
    <2>3. ASSUME NEW id \in PlanId, NEW key \in Key, NEW options \in RequestedOptions,
                 StartPlan(c, id, key, options)
          PROVE  plans' = plans
      BY <2>3 DEF StartPlan
    <2>4. ASSUME NEW id \in PlanId, NEW key \in Key, NEW approver \in Approver,
                 StartDryRunJob(c, id, key, approver)
          PROVE  plans' = plans
      BY <2>4 DEF StartDryRunJob
    <2>5. ASSUME NEW id \in PlanId, NEW key \in Key, NEW approver \in Approver,
                 NEW approval \in Approval \cup {None}, NEW control \in Control \cup {None},
                 StartEnforcementJob(c, id, key, approver, approval, control)
          PROVE  plans' = plans
      BY <2>5 DEF StartEnforcementJob
    <2>6. ASSUME NEW applied \in BOOLEAN, ApplyProvisioningChange(c, applied)
          PROVE  plans' = plans
      BY <2>6 DEF ApplyProvisioningChange
    <2>7. ASSUME FinishDryRunJob(c) \/ CallThrows(c)
          PROVE  plans' = plans
      BY <2>7 DEF FinishDryRunJob, CallThrows
    <2> QED
      BY <1>2, <1>3, <1>4, <1>5, <2>1, <2>2, <2>3, <2>4, <2>5, <2>6, <2>7 DEF CallStep
  <1>6. CASE Restart \/ Tick \/ UNCHANGED vars
    BY <1>2, <1>6 DEF Restart, Tick, vars
  <1> QED
    BY <1>5, <1>6 DEF Next

\* When requests do not overlap, a plan that reads "applied" has a completed enforcement job
\* in the store (executeControlledEnforcementJob writes both from the same outcome).
THEOREM AppliedPlanHasCompletedJobHolds ==
  ASSUME NEW only, Caller = {only}
  PROVE  Spec => []AppliedPlanHasCompletedJob
  <1>1. Init => SerialInv /\ AppliedPlanHasCompletedJob
    BY DEF Init, SerialInv, KeyNamesOneJob, AppliedPlanHasCompletedJob
  <1>2. IInv /\ SerialInv /\ AppliedPlanHasCompletedJob /\ [Next]_vars
          => SerialInv' /\ AppliedPlanHasCompletedJob'
    BY SerialStep, AppliedStep DEF IInv
  <1> QED
    BY <1>1, <1>2, Invariance, PTL DEF Spec
=============================================================================

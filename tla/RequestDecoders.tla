--------------------------- MODULE RequestDecoders ---------------------------
(* The bodies of requests (packages/api/src/request-schemas.ts and            *)
(* request-decoders.ts): every body is checked against a schema first and,    *)
(* for the routes that change access, by checks written out in the decoder.   *)
(*                                                                            *)
(* A JSON value names what it is. A string stands for the class of strings    *)
(* that the checks tell apart: "" is empty, "Text" has a capital letter,      *)
(* "instant" is an ISO date-time, "date" is a date only Date.parse reads,     *)
(* "(group)" is an expression with a group; other strings stand for           *)
(* themselves and are identifiers.                                            *)
EXTENDS Naturals, Sequences, FiniteSets

Absent == [is |-> "undefined", v |-> ""]
Str(text) == [is |-> "string", v |-> text]
Bool(b) == [is |-> "boolean", v |-> IF b THEN "true" ELSE "false"]
Obj(fields) == [is |-> "object", f |-> fields]
List(items) == [is |-> "array", items |-> items]
Other == [is |-> "number", v |-> "-1"]

Field(y, f) == IF y.is = "object" /\ f \in DOMAIN y.f THEN y.f[f] ELSE Absent
Is(y, text) == y.is = "string" /\ y.v = text
IsOneOf(y, texts) == y.is = "string" /\ y.v \in texts
IsGiven(y) == y.is # "undefined"
IsText(y) == y.is = "string" /\ y.v # ""
IsTrue(y) == y = Bool(TRUE)

\* !Number.isNaN(Date.parse(value))
DateParses(y) == IsOneOf(y, {"instant", "date"})

---------------------------------------------------------------------------
(* Schemas. Every object refuses a field that it does not name.            *)

anyString == [kind |-> "string"]
text == [kind |-> "text"]
id == [kind |-> "id"]
dateTime == [kind |-> "dateTime"]
boolean == [kind |-> "boolean"]
natural == [kind |-> "natural"]
jsonObject == [kind |-> "jsonObject"]
one(texts) == [kind |-> "enum", of |-> texts]
\* { const: true }
true == [kind |-> "true"]
list(items, minItems) == [kind |-> "list", items |-> items, minItems |-> minItems, unique |-> FALSE]
set(items) == [list(items, 0) EXCEPT !.unique = TRUE]
\* At least one property, each a string
identifiers == [kind |-> "identifiers"]
object(required, properties) == [kind |-> "object", required |-> required, properties |-> properties]
\* Fields of one kind
each(names, kind) == [n \in names |-> kind]

ValidScalar(schema, y) ==
  CASE schema.kind = "string" -> y.is = "string"
    [] schema.kind = "text" -> IsText(y)
    [] schema.kind = "id" -> IsText(y) /\ y.v \notin {"Text", "instant", "(group)"}
    [] schema.kind = "dateTime" -> Is(y, "instant")
    [] schema.kind = "boolean" -> y.is = "boolean"
    [] schema.kind = "true" -> IsTrue(y)
    [] schema.kind = "natural" -> y.is = "number" /\ y.v # "-1"
    [] schema.kind = "enum" -> IsOneOf(y, schema.of)
    [] schema.kind = "jsonObject" -> y.is = "object"
    [] schema.kind = "identifiers" -> y.is = "object" /\ DOMAIN y.f # {} /\ \A f \in DOMAIN y.f : y.f[f].is = "string"
    [] OTHER -> FALSE

\* A value whose parts are valid
ValidOf(ValidPart(_, _), schema, y) ==
  \/ ValidScalar(schema, y)
  \/ /\ schema.kind = "list" /\ y.is = "array"
     /\ Len(y.items) >= schema.minItems
     /\ schema.unique => \A i, j \in DOMAIN y.items : y.items[i] = y.items[j] => i = j
     /\ \A i \in DOMAIN y.items : ValidPart(schema.items, y.items[i])
  \/ /\ schema.kind = "object" /\ y.is = "object"
     /\ schema.required \subseteq DOMAIN y.f
     /\ DOMAIN y.f \subseteq DOMAIN schema.properties
     /\ \A f \in DOMAIN y.f : ValidPart(schema.properties[f], y.f[f])

\* No schema is more than four deep.
Valid2(schema, y) == ValidOf(ValidScalar, schema, y)
Valid3(schema, y) == ValidOf(Valid2, schema, y)
Valid(schema, y) == ValidOf(Valid3, schema, y)

\* The fields f, of the kinds of g where f names none
Fields(f, g) == [n \in DOMAIN f \cup DOMAIN g |-> IF n \in DOMAIN f THEN f[n] ELSE g[n]]

policyModelSchema ==
  LET required == {"schemaVersion", "id", "version", "resourceTypes", "relations", "actions", "inheritanceRules", "denyRules",
                   "contextConstraints", "classificationConstraints", "tenantBoundary", "migrations"}
  IN object(required,
       Fields([schemaVersion |-> one({"access-kit.policy-model.v1"}), id |-> id, version |-> text],
       Fields(each({"tenantBoundary", "explanation", "metadata"}, jsonObject),
       Fields(each({"contextConstraints", "migrations", "caveats", "conditionalRelationships"}, list(jsonObject, 0)),
              each(required, list(jsonObject, 1))))))

Flags == {"syntheticOnly", "liveProviderWrites", "incidentMode", "breakGlass"}
enforcementControlSchema == object(Flags, each(Flags, boolean))

repairActions == {"revoke", "repair", "review"}
driftSeverities == {"low", "medium", "high", "critical"}
PolicyFlags == {"enabled", "requireApproval", "requireConnectorReadiness", "liveProviderWrites"}
driftAutoRepairPolicySchema ==
  object(PolicyFlags \cup {"allowedActions", "maxSeverity"},
         Fields([allowedActions |-> set(one(repairActions)), maxSeverity |-> one({"low", "medium", "high", "critical"}),
                 reason |-> text], each(PolicyFlags, boolean)))

provisioningApprovalSchema ==
  object({"decision", "approverId", "changeTicket", "approvedAt"},
         Fields([decision |-> one({"approved"})], each({"approverId", "changeTicket", "approvedAt", "expiresAt", "reason"}, text)))

hookEvidenceSchema ==
  object({"system", "referenceId", "status", "recordedAt"},
         [system |-> one({"ticket", "siem"}), referenceId |-> text, status |-> one({"pending", "linked", "notified", "failed"}),
          recordedAt |-> dateTime, url |-> text, evidence |-> jsonObject])

decisionRequestSchema ==
  object({"subjectId", "action", "resourceId"},
         Fields([context |-> jsonObject, asOf |-> dateTime],
                each({"subjectId", "action", "resourceId", "policyVersion", "modelVersion", "relationshipVersion", "tupleVersion",
                      "contextVersion"}, text)))

lifecycleStates == {"active", "inactive", "suspended", "terminated", "deleted"}
subjectSchema ==
  object({"id", "type", "displayName", "sourceSystem", "lifecycleState", "identifiers", "version", "createdAt"},
         Fields([id |-> id, lifecycleState |-> one(lifecycleStates), identifiers |-> identifiers, attributes |-> jsonObject,
                 type |-> one({"user", "group", "service_account", "service_principal", "managed_identity", "device", "workload"})],
         Fields(each({"displayName", "sourceSystem", "version"}, text), each({"createdAt", "updatedAt", "lastSeenAt"}, dateTime))))

resourceSchema ==
  object({"id", "type", "displayName", "sourceSystem", "ownerId", "dataStewardId", "technicalOwnerId", "classification",
          "lifecycleState", "version", "createdAt"},
         Fields([lifecycleState |-> one(lifecycleStates), attributes |-> jsonObject,
                 type |-> one({"organization", "workspace", "application", "sharepoint_site", "team", "folder", "document", "power_app",
                               "flow", "dataverse_environment", "aws_account", "aws_role", "dataset", "api"})],
         Fields(each({"id", "ownerId", "dataStewardId", "technicalOwnerId", "parentId"}, id),
         Fields(each({"displayName", "sourceSystem", "classification", "version"}, text),
                each({"createdAt", "updatedAt", "lastSeenAt"}, dateTime)))))

relationshipSchema ==
  object({"id", "subjectId", "relation", "objectId", "sourceSystem", "assertedAt", "status", "version", "createdAt"},
         Fields([status |-> one({"active", "expired", "deleted"}), attributes |-> jsonObject],
         Fields(each({"id", "subjectId", "objectId", "assertedBy"}, id),
         Fields(each({"relation", "sourceSystem", "version"}, text),
                each({"assertedAt", "expiresAt", "createdAt", "updatedAt"}, dateTime)))))

scheduleSchema ==
  object({}, Fields([cadence |-> one({"manual", "hourly", "daily", "weekly"}), gracePeriodHours |-> natural, overdue |-> boolean],
                    each({"scheduledAt", "windowStart", "windowEnd", "nextRunAt"}, dateTime)))

modes == {"dry_run", "enforcement"}
schemas ==
  [connectorSync |-> object({"mode"}, [mode |-> one({"read_only"})]),
   decisionRequest |-> decisionRequestSchema,
   decisionBatch |-> object({"requests"}, [requests |-> list(decisionRequestSchema, 1)]),
   enforcementReadiness |->
     object({"control"}, [mode |-> one({"enforcement"}), control |-> enforcementControlSchema, requiredApproverRole |-> text,
                          changeTicketPattern |-> text]),
   driftRemediation |->
     object({"approval", "autoRepairPolicy"},
            [approval |-> provisioningApprovalSchema, autoRepairPolicy |-> driftAutoRepairPolicySchema, readinessReportId |-> text,
             hookEvidence |-> list(hookEvidenceSchema, 0)]),
   policyDraft |-> object({"name", "model", "tests"}, [name |-> text, model |-> policyModelSchema, tests |-> list(jsonObject, 0)]),
   policyPublish |-> object({"changeTicket", "approverId"}, each({"changeTicket", "approverId"}, text)),
   policyRollback |->
     object({"targetVersion", "changeTicket", "approverId"}, each({"targetVersion", "changeTicket", "approverId"}, text)),
   provisioningJob |->
     object({"planId", "approverId"},
            [planId |-> text, approverId |-> text, mode |-> one(modes), dryRun |-> boolean, approval |-> provisioningApprovalSchema,
             control |-> enforcementControlSchema]),
   provisioningPlan |->
     object({"dryRun"},
            Fields([context |-> jsonObject, mode |-> one(modes), dryRun |-> boolean, connectorId |-> anyString,
                    approval |-> provisioningApprovalSchema, control |-> enforcementControlSchema],
                   each({"subjectId", "action", "resourceId", "grantId", "readinessReportId"}, text))),
   reconciliationRun |->
     object({"connectorId", "dryRun"},
            [connectorId |-> text, dryRun |-> true, trigger |-> one({"manual", "scheduled"}), schedule |-> scheduleSchema]),
   subject |-> subjectSchema,
   resource |-> resourceSchema,
   relationship |-> relationshipSchema]
Routes == DOMAIN schemas

---------------------------------------------------------------------------
(* Decoders. A decoder is the sequence of its checks; the first that does  *)
(* not hold refuses the body with its code. A Check is one that the schema *)
(* does not make; a Shape looks again at what the schema says.             *)

Check(holds, code) == [holds |-> holds, code |-> code, repeats |-> FALSE]
Shape(holds, code) == [holds |-> holds, code |-> code, repeats |-> TRUE]
\* The throw of the first check that fails
Refusal(checks) ==
  LET failed == {i \in DOMAIN checks : ~checks[i].holds}
  IN IF failed = {} THEN "none" ELSE checks[CHOOSE i \in failed : \A j \in failed : i <= j].code

invalidBody ==
  [connectorSync |-> "UNSUPPORTED_CONNECTOR_MODE", decisionRequest |-> "INVALID_DECISION_REQUEST",
   decisionBatch |-> "INVALID_BATCH_REQUESTS", enforcementReadiness |-> "INVALID_ENFORCEMENT_READINESS_REQUEST",
   driftRemediation |-> "INVALID_DRIFT_REMEDIATION_REQUEST", policyDraft |-> "INVALID_POLICY_DRAFT",
   policyPublish |-> "INVALID_POLICY_PUBLISH_REQUEST", policyRollback |-> "INVALID_POLICY_ROLLBACK_REQUEST",
   provisioningJob |-> "INVALID_PROVISIONING_JOB_REQUEST", provisioningPlan |-> "INVALID_PROVISIONING_REQUEST",
   reconciliationRun |-> "INVALID_RECONCILIATION_REQUEST", subject |-> "INVALID_SUBJECT", resource |-> "INVALID_RESOURCE",
   relationship |-> "INVALID_RELATIONSHIP"]
decodeSchemaBacked(route, body) == <<Shape(Valid(schemas[route], body), invalidBody[route])>>

\* Wrong: dryRun is only compared with a mode that is given.
decodeGivenMode(mode, dryRun) ==
  <<Check(Is(mode, "dry_run") => IsTrue(dryRun), "DRY_RUN_REQUIRED"),
    Check(Is(mode, "enforcement") => dryRun = Bool(FALSE), "ENFORCEMENT_DRY_RUN_FALSE_REQUIRED")>>
decodeProvisioningMode(mode, dryRun) ==
  <<Check(IsGiven(mode) \/ IsTrue(dryRun), "DRY_RUN_REQUIRED"),
    Check(Is(mode, "dry_run") => IsTrue(dryRun), "DRY_RUN_REQUIRED"),
    Check(Is(mode, "enforcement") => dryRun = Bool(FALSE), "ENFORCEMENT_DRY_RUN_FALSE_REQUIRED"),
    Shape(IsGiven(mode) => IsOneOf(mode, modes), "INVALID_PROVISIONING_MODE")>>
decodedMode(body) == IF Is(Field(body, "mode"), "enforcement") THEN "enforcement" ELSE "dry_run"

isProvisioningApproval(approval) ==
  /\ Is(Field(approval, "decision"), "approved")
  /\ \A f \in {"approverId", "changeTicket", "approvedAt"} : Field(approval, f).is = "string"

decodeProvisioningApproval(approval) ==
  LET expiresAt == Field(approval, "expiresAt")
      reason == Field(approval, "reason")
      shape == isProvisioningApproval(approval) /\ \A y \in {expiresAt, reason} : IsGiven(y) => y.is = "string"
      readable == DateParses(Field(approval, "approvedAt")) /\ (IsGiven(expiresAt) => DateParses(expiresAt))
  IN <<Shape(IsGiven(approval) => shape, "INVALID_PROVISIONING_APPROVAL"),
       Check(IsGiven(approval) => readable, "INVALID_PROVISIONING_APPROVAL")>>

isControl(control) == \A f \in Flags : Field(control, f).is = "boolean"
decodeEnforcementControl(control) == <<Shape(IsGiven(control) => isControl(control), "INVALID_ENFORCEMENT_CONTROL")>>
decodeRequiredEnforcementControl(control) ==
  decodeEnforcementControl(control) \o <<Shape(IsGiven(control), "INVALID_ENFORCEMENT_CONTROL")>>

textWhenGiven(y, code) == <<Shape(IsGiven(y) => IsText(y), code)>>
decodeReadinessReportId(y) == textWhenGiven(y, "INVALID_READINESS_REPORT_ID")
\* The schema takes an empty connector, its decoder does not.
decodeConnectorId(y) == <<Check(IsGiven(y) => IsText(y), "INVALID_CONNECTOR_ID")>>

isSafeChangeTicketPattern(y) == ~Is(y, "(group)")

isDriftAutoRepairPolicy(policy) ==
  /\ \A f \in PolicyFlags : Field(policy, f).is = "boolean"
  /\ LET allowed == Field(policy, "allowedActions")
     IN allowed.is = "array" /\ \A i \in DOMAIN allowed.items : IsOneOf(allowed.items[i], repairActions)
  /\ IsOneOf(Field(policy, "maxSeverity"), driftSeverities)

isDriftHookEvidenceArray(hooks) ==
  /\ hooks.is = "array"
  /\ \A i \in DOMAIN hooks.items :
       LET hook == hooks.items[i]
       IN /\ IsOneOf(Field(hook, "system"), {"ticket", "siem"})
          /\ IsOneOf(Field(hook, "status"), {"pending", "linked", "notified", "failed"})
          /\ \A f \in {"referenceId", "recordedAt"} : Field(hook, f).is = "string"

\* A plan is asked for by a decision, or by the grant to revoke.
decodeProvisioningDecisionRequest(body) == \A f \in {"subjectId", "action", "resourceId"} : IsText(Field(body, f))
decodeProvisioningPlanRequest(body) ==
  decodeSchemaBacked("provisioningPlan", body)
  \o decodeProvisioningMode(Field(body, "mode"), Field(body, "dryRun"))
  \o decodeProvisioningApproval(Field(body, "approval"))
  \o decodeEnforcementControl(Field(body, "control"))
  \o decodeReadinessReportId(Field(body, "readinessReportId"))
  \o decodeConnectorId(Field(body, "connectorId"))
  \o <<Check(IsGiven(Field(body, "grantId")) \/ decodeProvisioningDecisionRequest(body), "INVALID_PROVISIONING_REQUEST")>>

\* The two identifiers are looked at before the schema, for codes of their own.
decodeProvisioningJobRequest(body) ==
  <<Shape(body.is = "object" => IsText(Field(body, "planId")), "MISSING_PLAN_ID"),
    Shape(body.is = "object" => IsText(Field(body, "approverId")), "MISSING_APPROVER_ID")>>
  \o decodeSchemaBacked("provisioningJob", body)
  \o decodeProvisioningMode(Field(body, "mode"), Field(body, "dryRun"))
  \o decodeProvisioningApproval(Field(body, "approval"))
  \o decodeEnforcementControl(Field(body, "control"))

decodeDriftRemediationRequest(body) ==
  LET hooks == Field(body, "hookEvidence")
      invalid == invalidBody["driftRemediation"]
  IN decodeSchemaBacked("driftRemediation", body)
     \o <<Shape(isProvisioningApproval(Field(body, "approval")), invalid),
          Shape(isDriftAutoRepairPolicy(Field(body, "autoRepairPolicy")), invalid),
          Shape(IsGiven(hooks) => isDriftHookEvidenceArray(hooks), invalid)>>
     \o decodeReadinessReportId(Field(body, "readinessReportId"))

decodeEnforcementReadinessRequest(body) ==
  LET mode == Field(body, "mode")
      pattern == Field(body, "changeTicketPattern")
  IN decodeSchemaBacked("enforcementReadiness", body)
     \o <<Shape(IsGiven(mode) => Is(mode, "enforcement"), "INVALID_ENFORCEMENT_READINESS_MODE")>>
     \o textWhenGiven(Field(body, "requiredApproverRole"), "INVALID_APPROVER_ROLE")
     \o textWhenGiven(pattern, "INVALID_CHANGE_TICKET_PATTERN")
     \o <<Check(isSafeChangeTicketPattern(pattern), "INVALID_CHANGE_TICKET_PATTERN")>>
     \o decodeRequiredEnforcementControl(Field(body, "control"))

decodeDiscoveryMode(mode) ==
  <<Shape(IsGiven(mode), "MISSING_CONNECTOR_MODE"), Shape(Is(mode, "read_only"), "UNSUPPORTED_CONNECTOR_MODE")>>
decodeConnectorSyncRequest(body) == decodeSchemaBacked("connectorSync", body) \o decodeDiscoveryMode(Field(body, "mode"))

checksOf(route, body) ==
  CASE route = "provisioningPlan" -> decodeProvisioningPlanRequest(body)
    [] route = "provisioningJob" -> decodeProvisioningJobRequest(body)
    [] route = "driftRemediation" -> decodeDriftRemediationRequest(body)
    [] route = "enforcementReadiness" -> decodeEnforcementReadinessRequest(body)
    [] route = "connectorSync" -> decodeConnectorSyncRequest(body)
    [] OTHER -> decodeSchemaBacked(route, body)
decode(route, body) == Refusal(checksOf(route, body))

---------------------------------------------------------------------------
(* Properties                                                              *)

\* The two definitions of a body agree: a body that its schema accepts is refused by its
\* decoder only for what no schema says (modes that contradict dryRun, dates that cannot be
\* read, an empty connector, a plan without a target, an unsafe expression), never for its
\* shape.
SchemaAndDecoderAgree(route, body) ==
  LET checks == checksOf(route, body)
  IN Valid(schemas[route], body) => \A i \in DOMAIN checks : checks[i].repeats => checks[i].holds

\* A body that reaches the handler of a plan, a job or a readiness check cannot ask for
\* enforcement by leaving something out, has an approval that can be compared with the
\* clock, all four switches of the control, and something to plan for.
HandlerGetsWhatItNeeds(route, body) ==
  decode(route, body) = "none" =>
    LET approval == Field(body, "approval")
        control == Field(body, "control")
    IN /\ route \in {"provisioningPlan", "provisioningJob"} =>
            /\ decodedMode(body) = "enforcement" <=> Field(body, "dryRun") # Bool(TRUE)
            /\ IsGiven(approval) => /\ DateParses(Field(approval, "approvedAt"))
                                    /\ Field(approval, "expiresAt").v \in {"", "instant", "date"}
                                    /\ IsText(Field(approval, "approverId")) /\ IsText(Field(approval, "changeTicket"))
       /\ IsGiven(control) \/ route = "enforcementReadiness" => DOMAIN control.f = Flags
       /\ route = "provisioningPlan" => IsText(Field(body, "grantId")) \/ decodeProvisioningDecisionRequest(body)
=============================================================================

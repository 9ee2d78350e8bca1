----------------------------- MODULE Readiness -----------------------------
(***************************************************************************)
(* The configuration of the API process and the verdicts about it:         *)
(* api/src/runtime-config.ts with the parsing of keys in api-auth.ts,      *)
(* core/src/admin-authorization.ts, api/src/api-readiness.ts,              *)
(* core/src/persistence.ts (descriptors and deployment manifest) and       *)
(* core/src/live-enforcement-pilot.ts. No state: operators on one input.   *)
(*                                                                         *)
(* A variable of the environment is None when it is absent or blank. A     *)
(* text that only matters when it is there is a Boolean; a list of         *)
(* references is a set, or a sequence where the code counts duplicates.    *)
(***************************************************************************)
EXTENDS Naturals, Sequences, SequencesExt, FiniteSets

CONSTANTS None, Unreadable    \* Unreadable: a text that is no number, or no Boolean

---------------------------------------------------------------------------
(* Keys. An entry is [before, colon, after, long]: what stands before and  *)
(* after the first colon, "" where nothing does, and whether its token     *)
(* would be too long.                                                      *)

Text(t) == [before |-> t, colon |-> FALSE, after |-> "", long |-> FALSE]
Blank(entry) == entry.before = "" /\ ~ entry.colon

parseApiKeyEntry(entry) ==
  IF ~ entry.colon \/ entry.before = "" \/ entry.after = "" THEN [token |-> entry, label |-> None]
  ELSE [token |-> Text(entry.after), label |-> entry.before]

HasToken(key) == ~ Blank(key.token)

\* readList: the positions of the entries that are not blank
readList(entries) == {n \in DOMAIN entries : ~ Blank(entries[n])}

\* The keys of the kept entries; of several with one token the first.
parseApiKeys(entries, kept) ==
  LET parsed == [n \in kept |-> parseApiKeyEntry(entries[n])]
      First(n) == \A p \in kept : p < n => parsed[p].token # parsed[n].token
  IN  {parsed[n] : n \in {q \in kept : HasToken(parsed[q]) /\ First(q)}}

isLoopbackHost(host) == host \in {"localhost", "127.0.0.1", "::1", "[::1]"}
readHost(host) == IF host = None THEN "127.0.0.1" ELSE host
\* assertSafeAuthenticationConfig
AuthenticationConfigIsSafe(host, kept) == kept # {} \/ isLoopbackHost(host)

\* authenticateRequest for a request without a header
AnonymousIsAuthenticated(keys) == keys = {}

---------------------------------------------------------------------------
(* The descriptor of the admin authorization, from the environment.        *)

readEnum(value, allowed) == value = None \/ value \in allowed
Or(value, fallback) == IF value = None THEN fallback ELSE value
AuthenticationModes == {"local_bearer_token", "idp_gateway", "mtls_gateway"}
IngressModes == {"none", "identity_aware_gateway", "mtls_gateway"}
SecretsManagers == {"local_env", "external_secret_manager"}

createLocalBearerTokenAdminAuthorizationDescriptor(refs) ==
  [authentication |-> [mode |-> "local_bearer_token", provider |-> TRUE, issuer |-> FALSE, subjectClaim |-> TRUE,
                       mfaRequired |-> FALSE, sessionTtlMinutes |-> 0, revocationSlaMinutes |-> 1440],
   ingress |-> [mode |-> "none", mtlsRequired |-> FALSE, headers |-> FALSE, authority |-> FALSE],
   adminRebac |-> [policy |-> FALSE, separate |-> FALSE, roles |-> FALSE, bindings |-> FALSE, revocationSlaMinutes |-> 1440],
   secrets |-> [manager |-> "local_env", secretRefs |-> FALSE, rotationDays |-> 365, noPlaintext |-> FALSE],
   emergency |-> [approvalRequired |-> FALSE, approverRoles |-> {}, elevationMinutes |-> 1440, targets |-> FALSE, review |-> FALSE],
   audit |-> [events |-> {"api.authentication_failed"}, exportRequired |-> FALSE],
   \* With no references of its own the descriptor cites docs/security-model.md.
   evidence |-> TRUE]

\* The value of sessionTtlMinutes and of the other numbers that are absent
NumberDefault(env) == 0

Given(value) == value # None
readAdminAuthorizationDescriptor(env) ==
  LET mode == Or(env.mode, "local_bearer_token")
      num(value) == Or(value, NumberDefault(env))
  IN  IF mode = "local_bearer_token" THEN createLocalBearerTokenAdminAuthorizationDescriptor(env.evidence)
      ELSE [authentication |-> [mode |-> mode, provider |-> Given(env.provider), issuer |-> Given(env.issuer), subjectClaim |-> TRUE,
                                mfaRequired |-> Or(env.mfa, FALSE), sessionTtlMinutes |-> num(env.ttl), revocationSlaMinutes |-> num(env.sla)],
            ingress |-> [mode |-> Or(env.ingress, IF mode = "mtls_gateway" THEN "mtls_gateway" ELSE "identity_aware_gateway"),
                         mtlsRequired |-> Or(env.mtls, mode = "mtls_gateway"), headers |-> Given(env.headers), authority |-> Given(env.authority)],
            adminRebac |-> [policy |-> Given(env.policy), separate |-> Or(env.separate, FALSE), roles |-> Given(env.roles),
                            bindings |-> Given(env.bindings), revocationSlaMinutes |-> num(env.rebacSla)],
            secrets |-> [manager |-> Or(env.manager, "local_env"), secretRefs |-> Given(env.secretRefs), rotationDays |-> num(env.rotation),
                         noPlaintext |-> Or(env.noPlaintext, FALSE)],
            emergency |-> [approvalRequired |-> Or(env.approval, FALSE), approverRoles |-> Or(env.approvers, {}),
                           elevationMinutes |-> num(env.elevation), targets |-> Given(env.targets), review |-> Or(env.review, FALSE)],
            audit |-> [events |-> Or(env.events, {}), exportRequired |-> Or(env.export, FALSE)],
            evidence |-> Given(env.evidence)]

\* What the readers refuse, and then assertSafeAuthenticationConfig and
\* assertAdminAuthorizationDescriptorSafe: no text of the descriptor may look like a secret
\* that is not a reference.
Accepted(env) ==
  /\ readEnum(env.mode, AuthenticationModes)
  /\ Or(env.mode, "local_bearer_token") # "local_bearer_token" =>
       /\ readEnum(env.ingress, IngressModes) /\ readEnum(env.manager, SecretsManagers)
       /\ \A v \in {env.mfa, env.mtls, env.separate, env.noPlaintext, env.approval, env.review, env.export} : readEnum(v, BOOLEAN)
       /\ \A v \in {env.ttl, env.sla, env.rebacSla, env.rotation, env.elevation} : v # Unreadable
       /\ "secret" \notin {env.provider, env.issuer, env.policy, env.secretRefs}
  /\ env.evidence # "secret"
  /\ AuthenticationConfigIsSafe(readHost(env.host), readList(env.keys))
  /\ env.port # Unreadable /\ \A e \in ToSet(env.keys) : ~ e.long

---------------------------------------------------------------------------
(* assessAdminAuthorizationReadiness                                       *)

Within(n, limit) == n > 0 /\ n <= limit

identityProviderCheck(d) ==
  /\ d.authentication.mode # "local_bearer_token"
  /\ d.authentication.provider /\ d.authentication.issuer /\ d.authentication.subjectClaim
  /\ d.authentication.mfaRequired
  /\ Within(d.authentication.sessionTtlMinutes, 480)
  /\ Within(d.authentication.revocationSlaMinutes, 60)
  /\ d.evidence
gatewayOrMtlsCheck(d) ==
  /\ \/ d.ingress.mode = "identity_aware_gateway" /\ d.ingress.headers
     \/ d.ingress.mode = "mtls_gateway" /\ d.ingress.mtlsRequired /\ d.ingress.authority
  /\ d.evidence
adminRebacCheck(d) ==
  /\ d.adminRebac.policy /\ d.adminRebac.separate /\ d.adminRebac.roles /\ d.adminRebac.bindings
  /\ Within(d.adminRebac.revocationSlaMinutes, 60)
  /\ d.evidence
secretsManagerCheck(d) ==
  /\ d.secrets.manager # "local_env" /\ d.secrets.secretRefs /\ d.secrets.noPlaintext
  /\ Within(d.secrets.rotationDays, 90)
  /\ d.evidence
breakGlassApprovalCheck(d) ==
  /\ d.emergency.approvalRequired /\ Cardinality(d.emergency.approverRoles) >= 2
  /\ Within(d.emergency.elevationMinutes, 120)
  /\ d.evidence
incidentNotificationCheck(d) == d.emergency.targets /\ d.evidence
postActionReviewCheck(d) ==
  /\ d.emergency.review /\ d.audit.exportRequired
  /\ {"admin.action", "admin.post_action_review"} \subseteq d.audit.events
  /\ d.evidence

assessAdminAuthorizationReadiness(d) ==
  /\ identityProviderCheck(d) /\ gatewayOrMtlsCheck(d) /\ adminRebacCheck(d) /\ secretsManagerCheck(d)
  /\ breakGlassApprovalCheck(d) /\ incidentNotificationCheck(d) /\ postActionReviewCheck(d)

Repositories == {"state", "graph", "job", "audit", "evidence"}
\* buildRuntimeReadiness and summarizeReadiness for the process that was configured with env
buildRuntimeReadiness(env, app) ==
  LET passes == /\ parseApiKeys(env.keys, readList(env.keys)) # {}
                /\ assessAdminAuthorizationReadiness(readAdminAuthorizationDescriptor(env))
                /\ app.repositories = Repositories
                /\ app.degradations = 0
  IN  IF app.connectors = 0 THEN "not_ready" ELSE IF passes THEN "ready" ELSE "ready_with_warnings"

---------------------------------------------------------------------------
(* assessPersistenceReadiness and assessPersistenceDeploymentReadiness. A  *)
(* report is the set of the checks that failed. The required capabilities  *)
(* of each component are one: the descriptor has them all or not.          *)

Components == {"graph", "audit", "job"}
requiredProductionBackendKinds ==
  [graph |-> "external_graph", audit |-> "external_append_only_audit", job |-> "external_queue"]
requiredProductionDeploymentControls ==
  {"identityProviderBackedAccess", "operatorAuthorization", "secretsExternalized", "backupRestoreTested",
   "changeApprovalRequired", "monitoringConfigured", "migrationPlanReviewed"}

\* The positions of the descriptors of a component
Described(descriptors, component) == {n \in DOMAIN descriptors : descriptors[n].component = component}

\* Wrong: one of several descriptors of a component is as good as the only one.
AnyDescriptor(descriptors, component) == {}
UniqueDescriptor(descriptors, component) ==
  IF Cardinality(Described(descriptors, component)) > 1 THEN {<<component, "unique">>} ELSE {}

\* Only the first descriptor of a component is looked at.
ComponentChecks(descriptors, component) ==
  LET described == Described(descriptors, component)
      first == descriptors[Min(described)]
      Failing(name, passes) == IF passes THEN {} ELSE {<<component, name>>}
  IN  IF described = {} THEN {<<component, "present">>}
      ELSE Failing("durable", first.durable) \cup Failing("capabilities", first.capable)
           \cup (IF component # "audit" THEN {}
                 ELSE Failing("immutable", first.immutable)
                      \cup Failing("retention", first.retentionDays # None /\ first.retentionDays >= 365))

assessPersistenceReadiness(descriptors) ==
  UNION {UniqueDescriptor(descriptors, c) \cup ComponentChecks(descriptors, c) : c \in Components}

BackendKindChecks(descriptors) ==
  {<<c, "backend_kind">> : c \in {k \in Components :
     LET described == Described(descriptors, k)
     IN  Cardinality(described) # 1 \/ descriptors[Min(described)].backend # requiredProductionBackendKinds[k]}}

assessPersistenceDeploymentReadiness(manifest) ==
  assessPersistenceReadiness(manifest.descriptors)
  \cup BackendKindChecks(manifest.descriptors)
  \cup {<<"deployment", c>> : c \in requiredProductionDeploymentControls \ manifest.controls}
  \cup (IF manifest.environment = "production" THEN {} ELSE {<<"deployment", "environment">>})
  \cup (IF manifest.evidence THEN {} ELSE {<<"deployment", "evidence">>})

---------------------------------------------------------------------------
(* assessLiveEnforcementPilotReadiness                                     *)

approvedLiveEnforcementPilotWriteScopes == {"GroupMember.ReadWrite.All"}
Distinct(seq) == Cardinality(ToSet(seq)) = Len(seq)

checkNarrowWritePath(p) ==
  /\ p.mode = "enforcement" /\ p.optIn
  /\ p.scopes # <<>> /\ Distinct(p.scopes)
  /\ ToSet(p.scopes) \subseteq approvedLiveEnforcementPilotWriteScopes
  /\ ToSet(p.scopes) \cap p.forbidden = {}
  /\ p.operation = "revoke_native_grant" /\ p.maxActions = 1 /\ p.risk # "high"
checkReadOnlyConfidence(p) ==
  /\ p.runs >= p.minRuns /\ p.age <= p.maxAge
  /\ p.readback /\ p.reviewed /\ p.evidence
checkApprovalWorkflow(p) ==
  /\ Len(p.roles) >= p.minApprovers /\ Distinct(p.roles) /\ p.minApprovers >= 2
  /\ p.separated /\ Within(p.expires, 60)
  /\ p.noBreakGlass /\ p.incidentsBlock /\ p.evidence
Gates == {"durableQueue", "immutableAudit", "adminAuthorization", "healthSignals", "degradedConnectorBlocks",
          "degradedAuditBlocks", "revocationsPrioritized", "idempotency", "readinessReport"}
checkRuntimeGates(p) == p.connectorHealth = "healthy" /\ p.auditHealth = "healthy" /\ Gates \subseteq p.gates /\ p.evidence
Hooks == {"dryRunFirst", "preWriteReadback", "postWriteReadback", "compensation", "driftReconciliation"}
checkVerificationAndRollback(p) == Hooks \subseteq p.hooks /\ p.rollbackPlan /\ p.auditEvents = "required" /\ p.evidence
checkRunbooks(p) == p.runbooks = "required"
checkReleaseGate(p) == p.release = "ready" /\ p.evidence /\ p.blockers = {}

assessLiveEnforcementPilotReadiness(p) ==
  /\ checkNarrowWritePath(p) /\ checkReadOnlyConfidence(p) /\ checkApprovalWorkflow(p) /\ checkRuntimeGates(p)
  /\ checkVerificationAndRollback(p) /\ checkRunbooks(p) /\ checkReleaseGate(p)

---------------------------------------------------------------------------

\* A configuration that is accepted for a host other than the loopback leaves no route open
\* to a request without a token: what assertSafeAuthenticationConfig counts are the entries,
\* what authenticateRequest compares are the keys parsed from them.
ExposedApiIsGuarded(env) ==
  Accepted(env) /\ ~ isLoopbackHost(readHost(env.host)) => ~ AnonymousIsAuthenticated(parseApiKeys(env.keys, readList(env.keys)))

\* What an operator has to decide; the subject claim, the groups claim and the way in have
\* defaults of their own.
Decided == {"mode", "provider", "issuer", "mfa", "ttl", "sla", "policy", "separate", "roles", "bindings", "rebacSla",
            "manager", "secretRefs", "rotation", "noPlaintext", "approval", "approvers", "elevation", "targets",
            "review", "events", "export", "evidence"}

\* The readiness probe answers ready only when the operator decided everything that the
\* admin authorization rests on: no default of readAdminAuthorizationDescriptor passes the
\* checks of assessAdminAuthorizationReadiness.
ReadyIsNeverByDefault(env, app) ==
  Accepted(env) /\ buildRuntimeReadiness(env, app) = "ready" =>
    /\ \A v \in Decided : env[v] # None
    /\ env.headers # None \/ env.authority # None
    /\ env.keys # <<>>

\* Readiness of the persistence is about every backend that was described and not about the
\* one described first (assessPersistenceReadiness).
VerdictIgnoresOrder(descriptors) ==
  LET ready(ds) == assessPersistenceReadiness(ds) = {}
  IN  /\ ready(descriptors) = ready(Reverse(descriptors))
      /\ ready(descriptors) => \A d \in ToSet(descriptors) : d.component \in Components => d.durable /\ d.capable

\* A pilot that is ready has one write scope, and two different roles approve each change
\* (checkNarrowWritePath, checkApprovalWorkflow).
PilotIsNarrow(p) ==
  assessLiveEnforcementPilotReadiness(p) => Len(p.scopes) = 1 /\ Cardinality(ToSet(p.roles)) >= 2
=============================================================================

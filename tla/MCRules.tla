------------------------------- MODULE MCRules -------------------------------
(* Small inputs for the rules that keep no state.                             *)
EXTENDS Rules

CONSTANTS u, g, s, x, t, d, f1, f2, f3, a1, q1

\* Tenants and organizations
D == INSTANCE MCDiscovery

---------------------------------------------------------------------------
(* Policy models: variants of the parts of one small model.                *)

Relation(name, kind) == [name |-> name, kind |-> kind, subjects |-> {"user"}, objects |-> {"document"}]
Action(name, grants) == [name |-> name, grants |-> grants]
Rule(relation, through, actions) == [relation |-> relation, through |-> through, actions |-> actions]
Deny(relation, actions) == [relation |-> relation, actions |-> actions]
Key(name, type, required, bound) ==
  [name |-> name, type |-> type, required |-> required, auditable |-> required, min |-> bound, max |-> bound,
   maxLength |-> None, allowed |-> None]
Number(n) == [type |-> "number", v |-> n]
Date(n) == [type |-> "datetime", v |-> n]
Text(text) == [type |-> "string", v |-> text]
Condition(source, key, type, operator, value) ==
  [source |-> source, key |-> key, type |-> type, operator |-> operator, value |-> value]
Caveat(name, conditions) == [name |-> name, failClosed |-> TRUE, reason |-> name, conditions |-> conditions]
Conditional(relation, caveats, actions) == [relation |-> relation, caveats |-> caveats, actions |-> actions]

Relations == <<Relation("viewer", "grant"), Relation("member", "membership"), Relation("denied", "deny")>>
Base ==
  [schema |-> "v1", version |-> 1, types |-> <<[name |-> "document", known |-> TRUE, parents |-> {}, classes |-> {"internal"}]>>,
   relations |-> Relations, actions |-> <<Action("read", {"viewer"})>>,
   inheritance |-> {Rule("member", "member", {"read"})}, denies |-> {Deny("denied", None)},
   boundary |-> [key |-> "tenantId", cross |-> FALSE], classifications |-> {[name |-> "internal", actions |-> {"read"}]},
   context |-> <<>>, caveats |-> <<>>, conditionals |-> <<>>, explanation |-> None, migrations |-> <<>>]

\* Relations declared twice or of other kinds, actions of several spellings, rules that name
\* what is there and what is not.
Graphs ==
  {[Base EXCEPT !.relations = r, !.actions = a, !.inheritance = i, !.denies = dn] :
     r \in {Relations, Append(Relations, Relation("quarantined", "deny")), Append(Relations, Relation("viewer", "deny")),
            <<Relation("viewer", "grant"), Relation("member", "grant"), Relation("denied", "grant")>>},
     a \in {<<>>, <<Action("read", {"viewer"})>>, <<Action("read", {"viewer"}), Action("Read", {"viewer"})>>,
            <<Action("read", {"viewer", "denied"}), Action("write", {"viewer"})>>,
            <<Action("read", {"viewer"}), Action("write", {"member"})>>, <<Action("read", {"viewer"}), Action("write", {"viewer"})>>},
     i \in {{}, {Rule("member", "member", {"read"})}, {Rule("member", "viewer", {"read"})},
            {Rule("member", "member", {"read", "write"})}, {Rule("member", "member", {"Read"})}},
     dn \in SUBSET {Deny("denied", None), Deny("quarantined", {"read"}), Deny("viewer", {"read"}), Deny("denied", {"Read"})}}

Conditions ==
  {Condition("context", "risk", "number", o, Number(2)) : o \in {"less_than_or_equal", "greater_than_or_equal", "before"}}
  \cup {Condition("context", "risk", "number", "one_of", [type |-> "list", items |-> {Number(1), y}]) : y \in {Number(3), Text("low")}}
  \cup {Condition("environment", k, "datetime", "before", Date(2)) : k \in {"evaluatedAt", "risk"}}
  \cup {Condition("subject", "risk", "string", "equals", v) : v \in {Text("low"), Number(2)}}
Conditionals == {<<>>} \cup {<<Conditional("viewer", c, a)>> : c \in {{"c"}, {"d"}}, a \in {None, {"read"}, {}}}
  \cup {<<Conditional("viewer", {"c"}, a), Conditional("viewer", {"c"}, b)>> : a, b \in {None, {"read"}, {"Read"}}}
Caveats ==
  {[Base EXCEPT !.actions = <<Action("read", {"viewer"}), Action("Read", {"viewer"})>>, !.context = k, !.caveats = c, !.conditionals = l] :
     k \in {<<>>, <<Key("risk", "number", TRUE, 3)>>, <<Key("risk", "number", FALSE, 3)>>, <<Key("risk", "number", TRUE, None)>>,
            <<Key("risk", "string", TRUE, None)>>},
     c \in {<<>>} \cup {<<Caveat("c", {q})>> : q \in Conditions} \cup {<<Caveat("c", {q}), Caveat("c", {})>> : q \in Conditions},
     l \in Conditionals}

Requests ==
  [relation : {"viewer", "denied"}, action : {"read", "Read"}, at : {Date(1), Date(2)},
   context : [{"risk"} -> {None, Number(2), Text("low")}], attributes : [{"subject"} -> {None, Text("low")}]]

Others ==
  {[Base EXCEPT !.schema = "v2"], [Base EXCEPT !.types = @ \o @], [Base EXCEPT !.boundary.cross = TRUE],
   [Base EXCEPT !.classifications = {}], [Base EXCEPT !.explanation = [keys |-> {"risk"}, caveats |-> {}]]}
  \cup {[Base EXCEPT !.migrations = <<[from |-> 1, to |-> a, operations |-> {"rename"}], [from |-> a, to |-> b, operations |-> {"rename"}]>>] :
          a, b \in 1..3}

---------------------------------------------------------------------------
(* Environments: a complete one with up to two variables changed.          *)

Entry(before, colon, after) == [before |-> before, colon |-> colon, after |-> after, long |-> FALSE]
Complete ==
  [host |-> "0.0.0.0", port |-> 3000, keys |-> <<Entry("ops", TRUE, "k")>>,
   mode |-> "idp_gateway", provider |-> "given", issuer |-> "given", mfa |-> TRUE, ttl |-> 480, sla |-> 60,
   ingress |-> "identity_aware_gateway", mtls |-> FALSE, headers |-> "given", authority |-> "given", policy |-> "given",
   separate |-> TRUE, roles |-> "given", bindings |-> "given", rebacSla |-> 60, manager |-> "external_secret_manager",
   secretRefs |-> "given", rotation |-> 90, noPlaintext |-> TRUE, approval |-> TRUE, approvers |-> {"a", "b"}, elevation |-> 120,
   targets |-> "given", review |-> TRUE, events |-> {"admin.action", "admin.post_action_review"}, export |-> TRUE,
   evidence |-> "given"]
Numbers == {"ttl", "sla", "rebacSla", "rotation", "elevation"}
Switches == {"mfa", "mtls", "separate", "noPlaintext", "approval", "review", "export"}
Texts == {"provider", "issuer", "policy", "secretRefs", "evidence"}
Changed(e) ==
  {[e EXCEPT ![v] = None] : v \in DOMAIN e \ {"keys"}}
  \cup {[e EXCEPT ![v] = n] : v \in Numbers, n \in {0, 1, 481, Unreadable}}
  \cup {[e EXCEPT ![v] = b] : v \in Switches, b \in {FALSE, Unreadable}}
  \cup {[e EXCEPT ![v] = "secret"] : v \in Texts}
  \cup {[e EXCEPT !.mode = v] : v \in {"mtls_gateway", "local_bearer_token"}}
  \cup {[e EXCEPT !.ingress = v] : v \in {"none", "mtls_gateway"}}
  \cup {[e EXCEPT !.approvers = {"a"}], [e EXCEPT !.events = {"admin.action"}], [e EXCEPT !.host = "localhost"]}
  \cup {[e EXCEPT !.keys = k] :
          k \in {<<>>, <<Entry("", FALSE, "")>>, <<Entry("ops", TRUE, "")>>, <<Entry("", TRUE, "")>>,
                 <<Entry("k", FALSE, ""), Entry("ops", TRUE, "")>>, <<[Entry("k", FALSE, "") EXCEPT !.long = TRUE]>>}}
Environments == {Complete} \cup UNION {Changed(e) : e \in Changed(Complete)}
Apps == {[repositories |-> r, degradations |-> 0, connectors |-> 4] : r \in {R!Repositories, {"state", "graph"}}}

Backend(component, durable, capable) ==
  [component |-> component, durable |-> durable, capable |-> capable, immutable |-> TRUE, retentionDays |-> 365,
   backend |-> R!requiredProductionBackendKinds[component]]
Backends == {Backend(c, b[1], b[2]) : c \in R!Components, b \in {<<TRUE, TRUE>>, <<FALSE, TRUE>>, <<TRUE, FALSE>>}}
Descriptions == UNION {[1..n -> Backends] : n \in 2..4}

PilotOf(h) ==
  [mode |-> "enforcement", optIn |-> h.flag, scopes |-> h.scopes, forbidden |-> h.forbidden, operation |-> "revoke_native_grant",
   maxActions |-> h.count, risk |-> "low", runs |-> 1, minRuns |-> h.count, age |-> 1, maxAge |-> 1, readback |-> TRUE,
   reviewed |-> TRUE, evidence |-> TRUE, roles |-> h.roles, minApprovers |-> h.min, separated |-> TRUE, expires |-> 60,
   noBreakGlass |-> TRUE, incidentsBlock |-> TRUE, connectorHealth |-> h.health, auditHealth |-> "healthy", gates |-> R!Gates,
   hooks |-> R!Hooks, rollbackPlan |-> TRUE, auditEvents |-> "required", runbooks |-> "required", release |-> "ready",
   blockers |-> {}]
Scopes == R!approvedLiveEnforcementPilotWriteScopes \cup {"Directory.ReadWrite.All"}
Pilots ==
  {PilotOf(h) : h \in [flag : BOOLEAN, scopes : UNION {[1..n -> Scopes] : n \in 0..2}, forbidden : SUBSET Scopes, count : 0..2,
                      roles : UNION {[1..n -> {"a", "b"}] : n \in 0..2}, min : 0..2, health : {"healthy", "unknown"}]}

---------------------------------------------------------------------------
(* Evidence packages: an export, a change of its content, what is made to    *)
(* fit the change, and the keys of the verifier.                             *)

Ed25519Signer == [keyId |-> "own", algorithm |-> "ed25519", key |-> "k1"]
Stranger == [Ed25519Signer EXCEPT !.key = "k2"]
Trusted(algorithm, key) == [k \in {"own", "fixture"} |-> [algorithm |-> algorithm, key |-> IF k = "own" THEN key ELSE "k0"]]
\* The own keys, those of the process after a restart, of another algorithm, and none.
OwnVerifier == Trusted("ed25519", "k1")
Verifiers == {OwnVerifier, Trusted("ed25519", "k3"), Trusted("rsa", "k1"), <<>>}

Event(id, type, at) == [id |-> id, type |-> type, at |-> at]
EventLogs ==
  {<<>>, <<Event(1, "subject.upserted", 1)>>}
  \cup {<<Event(1, "decision.allowed", i), Event(2, y, j)>> : y \in {"decision.denied", "evidence.generated"}, i, j \in 1..2}
Finding == [id |-> 1, control |-> "AC-2", status |-> "open", remediation |-> "overdue"]
Exporters ==
  {[events |-> l, chainVerified |-> h, findings |-> IF h THEN <<Finding>> ELSE <<>>, components |-> <<"api">>] :
     l \in EventLogs, h \in BOOLEAN}
Controls == {<<>>, <<"AC-3">>, <<"AC-3", "AU-6">>, <<"AC-3", "AC-3">>, <<"ZZ-1">>}
Periods == [start : {None, 2}, end : {None, 1}]

ChangedContent(c) ==
  {c} \cup {[c EXCEPT ![n] = None] : n \in {"others", "systemBoundary", "oscal", "controlTraceViews", "poamExport", "periodEnd"}}
    \cup {[c EXCEPT ![n] = <<>>] : n \in {"controls", "controlMappings", "controlTraceViews", "sourceEventIds", "poamItems"}}
    \cup {[c EXCEPT !.others = @ + 1], [c EXCEPT !.periodEnd = @ + 1]}
Refit(p, level) ==
  LET manifest == IF level = 0 THEN p.integrityManifest ELSE E!integrityManifest(p.content)
      unsigned == E!Unsigned(p.signedPackage)
      adjusted == IF level < 2 THEN unsigned
                  ELSE [unsigned EXCEPT !.packageHash = manifest.packageHash, !.scope = E!buildExpectedDeploymentScope(p.content)]
      signature == IF level < 3 THEN p.signedPackage.signature ELSE E!sign(Stranger, adjusted)
  IN [p EXCEPT !.integrityManifest = manifest,
               !.signedPackage = [f \in DOMAIN @ |-> IF f = "signature" THEN signature ELSE adjusted[f]]]
ChangedPackages(p) ==
  {Refit([p EXCEPT !.content = c], level) : c \in ChangedContent(p.content), level \in 0..3}
  \cup {[p EXCEPT ![n] = None] : n \in {"integrityManifest", "signedPackage"}}
  \cup {[p EXCEPT !.storageReceipt = "receipt"], [p EXCEPT !.verifierChecks = FALSE]}
  \cup {[p EXCEPT !.integrityManifest.sections = [n \in ns |-> @[n]]] : ns \in {{}, {"oscal"}}}
  \cup {[p EXCEPT !.signedPackage[n] = None] : n \in {"keyId", "algorithm", "signedAt", "scope"}}

---------------------------------------------------------------------------
(* Bodies: one that its schema accepts, and what is one or two changes away. *)

Pool ==
  {B!Str(v) : v \in {"", "Text", "instant", "(group)", "date", "enforcement"}}
  \cup {B!Bool(TRUE), B!Bool(FALSE), B!Other, B!Obj([n \in {} |-> B!Other]), B!List(<<>>)}

RECURSIVE Sample(_)
Sample(schema) ==
  CASE schema.kind = "object" -> B!Obj([n \in DOMAIN schema.properties |-> Sample(schema.properties[n])])
    [] schema.kind = "list" -> B!List(<<Sample(schema.items)>>)
    [] schema.kind = "enum" -> B!Str(CHOOSE v \in schema.of : "dry_run" \in schema.of => v = "dry_run")
    [] schema.kind \in {"boolean", "true"} -> B!Bool(TRUE)
    [] schema.kind = "natural" -> [B!Other EXCEPT !.v = "3"]
    [] schema.kind \in {"jsonObject", "identifiers"} -> B!Obj([n |-> B!Str("id")])
    [] schema.kind = "id" -> B!Str("id")
    [] OTHER -> B!Str("instant")
SampleOf(route) == Sample(B!schemas[route])

\* What a field of a schema may hold instead of y
RECURSIVE Near(_, _)
Near(schema, y) ==
  Pool \cup
  CASE schema.kind = "object" /\ y.is = "object" ->
         {B!Obj([n \in DOMAIN y.f \ {m} |-> y.f[n]]) : m \in DOMAIN y.f}
         \cup {B!Obj(B!Fields([extra |-> B!Other], y.f))}
         \cup UNION {{B!Obj([y.f EXCEPT ![n] = z]) : z \in Near(schema.properties[n], y.f[n])} :
                        n \in DOMAIN y.f \cap DOMAIN schema.properties}
    [] schema.kind = "list" /\ y.is = "array" /\ Len(y.items) = 1 ->
         {B!List(<<z>>) : z \in Near(schema.items, y.items[1])} \cup {B!List(y.items \o y.items)}
    [] schema.kind = "enum" -> {B!Str(v) : v \in schema.of}
    [] OTHER -> {}

---------------------------------------------------------------------------

MCModel == Graphs \cup Others
MCTenant == D!Directories \cup D!Sites
MCOrganization == D!Organizations

MCBatches(r) ==
  LET changed == Near(B!schemas[r], SampleOf(r))
  IN {{SampleOf(r)}, changed}
     \cup IF r \in {"provisioningPlan", "provisioningJob"} THEN {Near(B!schemas[r], b) : b \in changed} ELSE {}

\* A request that passes the gates of the playground is evaluated by the model validated there.
PlaygroundUsesItsModel == rule = "caveat" => P!PlaygroundUsesItsModel(Base, input.model, input.request)
=============================================================================

------------------------------ MODULE HttpApi ------------------------------
(***************************************************************************)
(* The HTTP server (api/src/server.ts) and its bearer authentication       *)
(* (api/src/api-auth.ts): requests that are in progress together, each     *)
(* with the name its audit events carry (request-audit-context.ts), the    *)
(* routes, and the sampled audit events of failed authentications.         *)
(*                                                                         *)
(* What a handler does to the records is the business of the other modules;*)
(* here it records an audit event, or none; 200 stands for every success.  *)
(***************************************************************************)
EXTENDS Naturals, Sequences, SequencesExt

CONSTANTS
  Call,          \* connections
  Input,         \* requests that arrive: [method, segments, auth, key, body, query]
  ApiKeys,       \* the parsed keys: a sequence of [token, label]
  AppActor,      \* the configured actor
  None,
  Window,        \* authenticationFailureAuditSampleWindowMs
  MaxTime,       \* bound: the clock
  MaxRequests    \* bound: requests that arrive

VARIABLES
  calls,         \* the requests in progress, or None
  samples,       \* authenticationFailureSamples
  events,        \* audit events, each with the token its request presented
  failed,        \* authentications that have failed, by reason
  clock, arrived

httpVars == <<calls, samples, events, failed, clock, arrived>>

Reason == {"missing", "invalid"}

---------------------------------------------------------------------------
(* api-auth.ts. A header is [bearer, token]: whether it names the scheme,  *)
(* and the token if there is one of an acceptable size.                    *)

authenticateRequest(header) ==
  LET first == SelectInSeq(ApiKeys, LAMBDA k : k.token = header.token)
  IN  IF ApiKeys = <<>> THEN [status |-> "authenticated", label |-> None]
      ELSE IF header.token = None THEN [status |-> IF header.bearer THEN "invalid" ELSE "missing", label |-> None]
      ELSE IF first = 0 THEN [status |-> "invalid", label |-> None]
      ELSE [status |-> "authenticated", label |-> ApiKeys[first].label]

resolveRequestAuditActor(label) == IF label = None THEN AppActor ELSE label

Failure(reason, suppressed) ==
  [type |-> "failed", reason |-> reason, count |-> 1 + suppressed, actor |-> "anonymous", token |-> None]

recordAuthenticationFailure(reason) ==
  IF samples[reason] # None /\ clock - samples[reason].at < Window
  THEN samples' = [samples EXCEPT ![reason].suppressed = @ + 1] /\ UNCHANGED events
  ELSE samples' = [samples EXCEPT ![reason] = [at |-> clock, suppressed |-> 0]]
       /\ events' = Append(events, Failure(reason, IF samples[reason] = None THEN 0 ELSE samples[reason].suppressed))

---------------------------------------------------------------------------
(* The routes. A handler has a name, reads the body or not, checks its     *)
(* query or not, demands an idempotency key before the body, after it or   *)
(* never, waits for a connector or not, and records audit events or none.  *)

Reads(name) == [name |-> name, body |-> FALSE, query |-> FALSE, key |-> "never", waits |-> FALSE, records |-> FALSE]
Filters(name) == [Reads(name) EXCEPT !.query = TRUE]
Writes(name) == [Reads(name) EXCEPT !.body = TRUE, !.records = TRUE]
Keyed(name, key) == [Writes(name) EXCEPT !.key = key]
Waits(handler) == [handler EXCEPT !.waits = TRUE]
NotFound == Reads("not_found")

At(s, n) == IF n <= Len(s) THEN s[n] ELSE None

routeDecision(method, s) ==
  IF method = "POST" /\ At(s, 3) \in {"check", "explain", "batch-check"} THEN Writes(At(s, 3)) ELSE NotFound

routeSubjects(method, s) ==
  CASE Len(s) = 2 /\ method = "GET" -> Reads("list")
    [] Len(s) = 2 /\ method = "POST" -> Writes("createSubject")
    [] Len(s) = 3 /\ method = "GET" -> Reads("get")
    [] Len(s) > 3 /\ method = "GET" /\ At(s, 4) = "access" -> Reads("access")
    [] OTHER -> NotFound

routeResources(method, s) ==
  CASE Len(s) = 2 /\ method = "GET" -> Reads("list")
    [] Len(s) = 2 /\ method = "POST" -> Writes("createResource")
    [] Len(s) = 3 /\ method = "GET" -> Reads("get")
    [] Len(s) > 3 /\ method = "GET" /\ At(s, 4) = "access" -> Reads("access")
    [] Len(s) > 3 /\ method = "GET" /\ At(s, 4) = "native-access" -> Filters("nativeAccess")
    [] OTHER -> NotFound

routeRelationships(method, s) ==
  CASE Len(s) = 2 /\ method = "GET" -> Reads("list")
    [] Len(s) = 2 /\ method = "PUT" -> Writes("putRelationship")
    [] Len(s) = 2 /\ method = "DELETE" -> [Filters("deleteRelationship") EXCEPT !.records = TRUE]
    [] OTHER -> NotFound

\* The body is read before an action that does not exist is refused.
routePolicies(method, s) ==
  CASE Len(s) = 2 /\ method = "GET" -> Reads("list")
    [] Len(s) = 2 /\ method = "POST" -> Keyed("createPolicy", "after")
    [] Len(s) = 4 /\ method = "POST" /\ At(s, 4) = "validate" -> Writes("validatePolicy")
    [] Len(s) = 4 /\ method = "POST" /\ At(s, 4) \in {"publish", "rollback"} -> Keyed("releasePolicy", "after")
    [] Len(s) = 4 /\ method = "POST" -> [NotFound EXCEPT !.body = TRUE]
    [] OTHER -> NotFound

routeProvisioning(method, s) ==
  CASE Len(s) = 3 /\ method = "POST" /\ At(s, 3) = "plans" -> Waits(Keyed("createPlan", "before"))
    [] Len(s) = 3 /\ method = "POST" /\ At(s, 3) = "jobs" -> Waits(Keyed("createJob", "after"))
    [] Len(s) = 4 /\ method = "GET" /\ At(s, 3) = "jobs" -> Reads("get")
    [] OTHER -> NotFound

routeReconciliation(method, s) ==
  CASE At(s, 3) = "run" /\ method = "POST" -> Waits(Writes("runReconciliation"))
    [] At(s, 3) = "findings" /\ Len(s) = 3 /\ method = "GET" -> Filters("list")
    [] At(s, 3) = "findings" /\ At(s, 5) = "remediation" /\ method = "POST" -> Waits(Keyed("remediate", "after"))
    [] OTHER -> NotFound

routeDiscovery(method, s) == IF At(s, 3) = "runs" /\ method = "GET" THEN Filters("list") ELSE NotFound

routeConnectors(method, s) ==
  CASE Len(s) = 2 /\ method = "GET" -> Reads("list")
    [] At(s, 4) = "test" /\ method = "POST" -> Waits(Reads("testConnector"))
    [] At(s, 4) = "enforcement-readiness" /\ method = "GET" -> Filters("list")
    [] At(s, 4) = "enforcement-readiness" /\ method = "POST" -> Waits(Writes("checkReadiness"))
    [] At(s, 4) = "sync" /\ method = "POST" -> Waits(Writes("sync"))
    [] OTHER -> NotFound

\* The audit and evidence branches of routeRequest
routeReports(method, s) ==
  LET branch == <<method, At(s, 2), At(s, 3)>>
  IN  CASE branch = <<"GET", "audit", "events">> -> Filters("list")
        [] branch = <<"GET", "audit", "integrity">> -> [Reads("verifyIntegrity") EXCEPT !.records = TRUE]
        [] branch \in {<<"GET", "audit", "export">>, <<"GET", "evidence", "export">>} ->
             [Filters("export") EXCEPT !.records = TRUE]
        [] branch = <<"POST", "evidence", "verify">> -> Keyed("verifyEvidence", "before")
        [] OTHER -> NotFound

Route(method, s) ==
  CASE At(s, 2) = "decision" -> routeDecision(method, s)
    [] At(s, 2) = "subjects" -> routeSubjects(method, s)
    [] At(s, 2) = "resources" -> routeResources(method, s)
    [] At(s, 2) = "relationships" -> routeRelationships(method, s)
    [] At(s, 2) = "policies" -> routePolicies(method, s)
    [] At(s, 2) = "provisioning" -> routeProvisioning(method, s)
    [] At(s, 2) = "reconciliation" -> routeReconciliation(method, s)
    [] At(s, 2) = "discovery" -> routeDiscovery(method, s)
    [] At(s, 2) = "connectors" -> routeConnectors(method, s)
    [] OTHER -> routeReports(method, s)

---------------------------------------------------------------------------
(* A request in progress.                                                  *)

Progress(q, handler, label, phase, status) ==
  [input |-> q, handler |-> handler, label |-> label, actor |-> resolveRequestAuditActor(label),
   phase |-> phase, status |-> status]
Answer(c, status) == calls' = [calls EXCEPT ![c].phase = "answered", ![c].status = status]

\* Wrong: the name is only known until the handler first waits.
ActorBeforeAwait(c) == IF calls[c].phase = "waiting" THEN AppActor ELSE calls[c].actor
\* getRequestAuditActor in the asynchronous context of the request
getRequestAuditActor(c) == calls[c].actor
RecordAudit(c) ==
  events' = Append(events, [type |-> "handled", actor |-> getRequestAuditActor(c), token |-> calls[c].input.auth.token])

Open(s) == s \in {<<"v1", "health">>, <<"v1", "ready">>}
Undecodable == <<"%">>

\* routeRequest up to the handler. A path that cannot be decoded fails before anything else.
RouteRequest(c, q) ==
  LET who == authenticateRequest(q.auth)
      open == q.method = "GET" /\ Open(q.segments)
      Begin(handler, label, phase, status) ==
        calls' = [calls EXCEPT ![c] = Progress(q, handler, label, phase, status)]
  IN  /\ calls[c] = None /\ arrived < MaxRequests
      /\ arrived' = arrived + 1
      /\ UNCHANGED clock
      /\ \/ /\ q.segments = Undecodable \/ open \/ At(q.segments, 1) # "v1"
            /\ Begin(NotFound, None, "answered", IF q.segments = Undecodable THEN 500 ELSE IF open THEN 200 ELSE 404)
            /\ UNCHANGED <<samples, events, failed>>
         \/ /\ At(q.segments, 1) = "v1" /\ ~ open
            /\ who.status = "authenticated"
            /\ Begin(Route(q.method, q.segments), who.label, "reading", None)
            /\ UNCHANGED <<samples, events, failed>>
         \/ /\ At(q.segments, 1) = "v1" /\ ~ open
            /\ who.status # "authenticated"
            /\ Begin(NotFound, None, "answered", 401)
            /\ failed' = [failed EXCEPT ![who.status] = @ + 1]
            /\ recordAuthenticationFailure(who.status)

\* readIdempotencyKey: a key of fewer than eight characters is None
KeyMissing(c) == calls[c].handler.key # "never" /\ calls[c].input.key = None

\* readJson and the decoder of the handler
readJson(c) ==
  LET body == calls[c].input.body
  IN  IF calls[c].handler.body /\ body # "valid" THEN IF body = "oversized" THEN 413 ELSE 400 ELSE None
\* The readers of the query: an absent parameter is accepted, as is one of the values listed.
QueryInvalid(c) == calls[c].handler.query /\ calls[c].input.query = "invalid"

\* In the order of the handlers
Refusal(c) ==
  IF calls[c].handler.key = "before" /\ KeyMissing(c) THEN 400
  ELSE IF readJson(c) # None THEN readJson(c)
  ELSE IF QueryInvalid(c) \/ KeyMissing(c) THEN 400
  ELSE IF calls[c].handler.name = "not_found" THEN 404 ELSE None

\* The handler has its body, or the request is refused. What the handler itself refuses (an
\* object that does not exist, a policy that forbids it) may have been recorded as well.
Handle(c) ==
  /\ calls[c] # None /\ calls[c].phase = "reading"
  /\ \/ Refusal(c) # None /\ Answer(c, Refusal(c)) /\ UNCHANGED events
     \/ /\ Refusal(c) = None
        /\ \/ calls[c].handler.waits /\ calls' = [calls EXCEPT ![c].phase = "waiting"]
           \/ ~ calls[c].handler.waits /\ Answer(c, 200)
        /\ IF calls[c].handler.records THEN RecordAudit(c) ELSE UNCHANGED events
     \/ /\ Refusal(c) = None
        /\ Answer(c, 404)
        /\ UNCHANGED events \/ (calls[c].handler.records /\ RecordAudit(c))
  /\ UNCHANGED <<samples, failed, clock, arrived>>

\* The connector has answered; the handler records what it did, or it fails.
Resume(c) ==
  /\ calls[c] # None /\ calls[c].phase = "waiting"
  /\ \/ Answer(c, 200) /\ IF calls[c].handler.records THEN RecordAudit(c) ELSE UNCHANGED events
     \/ Answer(c, 500) /\ UNCHANGED events
  /\ UNCHANGED <<samples, failed, clock, arrived>>

Close(c) ==
  /\ calls[c] # None /\ calls[c].phase = "answered"
  /\ calls' = [calls EXCEPT ![c] = None]
  /\ UNCHANGED <<samples, events, failed, clock, arrived>>

Tick == clock < MaxTime /\ clock' = clock + 1 /\ UNCHANGED <<calls, samples, events, failed, arrived>>

Init ==
  /\ calls = [c \in Call |-> None]
  /\ samples = [r \in Reason |-> None]
  /\ events = <<>>
  /\ failed = [r \in Reason |-> 0]
  /\ clock = 0
  /\ arrived = 0

Next ==
  \/ \E c \in Call : (\E q \in Input : RouteRequest(c, q)) \/ Handle(c) \/ Resume(c) \/ Close(c)
  \/ Tick

Spec == Init /\ [][Next]_httpVars

---------------------------------------------------------------------------

\* With keys configured, whatever a request did is recorded under the name of the key it
\* presented, also when other requests came and went while it waited (authenticateRequest,
\* withRequestAuditActor, recordAudit).
EventNamesItsCaller ==
  \A e \in ToSet(events) : e.type = "handled" =>
    \/ ApiKeys = <<>> /\ e.actor = AppActor
    \/ \E k \in ToSet(ApiKeys) : k.token = e.token /\ e.actor = resolveRequestAuditActor(k.label)

\* The failed authentications for a reason that each event reports, and their running totals.
Reports(r) ==
  [n \in DOMAIN events |-> IF events[n].type = "failed" /\ events[n].reason = r THEN events[n].count ELSE 0]
Totals(numbers) ==
  LET total[n \in 0..Len(numbers)] == IF n = 0 THEN 0 ELSE total[n - 1] + numbers[n]
  IN  total

\* Sampling loses no failed authentication: those reported and those counted since the last
\* report are all there were (recordAuthenticationFailure).
FailuresAreAccountedFor ==
  \A r \in Reason :
    Totals(Reports(r))[Len(events)] + (IF samples[r] = None THEN 0 ELSE samples[r].suppressed) = failed[r]

\* Operations that docs/api-reference.md marks "Idempotency-Key: required".
KeyRequired ==
  {"createSubject", "createResource", "putRelationship", "deleteRelationship", "createPolicy", "releasePolicy",
   "createPlan", "createJob", "runReconciliation", "remediate", "verifyEvidence", "sync"}

\* docs/api-reference.md:16: "Operations marked with `Idempotency-Key: required` fail closed
\* when the header is missing" (readIdempotencyKey).
KeyedOperationFailsClosed ==
  \A c \in Call : calls[c] # None /\ calls[c].status = 200 /\ calls[c].handler.name \in KeyRequired =>
    calls[c].input.key # None
=============================================================================

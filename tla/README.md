# A TLA+ development for access-kit

access-kit is a relationship-based access control plane: it keeps a graph of
subjects, resources and relationships, decides requests on it, plans and
executes permission changes through connectors, runs that work from a durable
job queue, and leaves audit evidence of everything. This directory holds TLA+
models of its core, the TLC configurations that check them on small instances,
and TLAPS proofs of the properties that matter most, for every instance.

Paths below are relative to `src/packages/`. `PROJECT.json` maps every
definition to the lines it models, and lists runs, hazards and theorems.

## 1. The system

| Component | State it keeps | Operations | Here |
|---|---|---|---|
| Job queue, `core/src/reference-job-queue.ts`, and drain loops, `api/src/job-queue-runner.ts` | queued jobs, idempotency records, connector health, provisioning jobs, backups: one snapshot | enqueue, enqueue a provisioning job, reserve, complete, fail with backoff, dead-letter, replay, health, backup, restore | `JobQueue`, `JobLedger` |
| PostgreSQL snapshot store, `persistence-postgres/src/snapshot-store.ts`, under the adapters of `core/src/reference-repositories.ts` | a mirror of one row per process, a chain of pending writes, the rows | write, compare-exchange, flush, backup, restore, hydrate | `SnapshotStore` |
| PostgreSQL audit store, `persistence-postgres/src/audit-store.ts`, under `core/src/reference-audit*.ts` | audit records, evidence, signed windows, SIEM deliveries, backups; rows | append, export, sign, deliver, replay, back up, restore, verify, hydrate | `AuditStore` |
| Controlled provisioning, `api/src/runtime-jobs.ts`, `runtime-enforcement.ts` | readiness reports, plans, jobs, audit events | readiness check, plan, dry-run job, enforcement job | `Provisioning` |
| Decision engine, `core/src/engine.ts`, `decision-runtime.ts` | one evaluation: queue, guard counters; cached lists of active relationships | evaluate, explain | `DecisionEngine`, `RelationshipStore` |
| Graph records, `core/src/store.ts`, `api/src/runtime-graph.ts` | relationships, their index by subject and revision | upsert, delete | `RelationshipStore`, `RuntimePersistence` |
| Runtime state, `api/src/runtime-state.ts`, `runtime-seed.ts`, `local-app.ts`, and the local files, `core/src/repositories.ts`, `audit.ts` | store, audit recorder, receipts; snapshot, graph, job and audit files | record, append, persist, seed, restart | `RuntimePersistence`, `AuditLedger` |
| Policies, `api/src/runtime-policies.ts` | summaries, idempotency records, events | draft, validate, publish, roll back | `Policies` |
| Policy models, `core/src/policy-model.ts`, `policy-playground.ts` | none | validate, compile, decide a caveat, play | `PolicyModel` |
| Reconciliation, drift, governance: `api/src/runtime-reconciliation.ts`, `core/src/drift-lifecycle.ts`, `governance.ts` | findings, runs, governance findings, exceptions, campaign | reconcile, remediate, export | `Drift` |
| Discovery, `api/src/runtime-discovery.ts`, with the Graph, AWS and sample connectors | delta tokens, cached collections, the connector's snapshot, warnings, native grants | read a collection, load, synchronise, read current access | `CollectionReader`, `ConnectorSync`, `GraphDiscovery`, `AwsDiscovery`, `SampleConnector` |
| HTTP server, `api/src/server.ts`, `api-auth.ts`, `request-audit-context.ts`, `request-decoders.ts`, `request-schemas.ts` | requests in progress, sampled failures | authenticate, route, decode, handle | `HttpApi`, `RequestDecoders` |
| Configuration and readiness, `api/src/runtime-config.ts`, `api-readiness.ts`, `core/src/admin-authorization.ts`, `persistence.ts`, `live-enforcement-pilot.ts` | none | read the environment, give verdicts | `Readiness` |
| Evidence, `api/src/runtime-evidence-export.ts`, `core/src/evidence-*.ts` | none | assemble, sign, verify | `EvidencePackage` |
| CLI, client, contracts, scripts, examples | none of their own | | not modelled, see section 9 |

How they interact. An HTTP handler or a drain loop calls the runtime flows. A
flow reads the in-memory store, awaits a connector, writes the store, records
audit events and persists the state, file by file or through a repository. The
queue hands jobs to drain loops by leases and is itself one snapshot in a snapshot
store. The decision engine reads the store synchronously, so nothing interleaves
with an evaluation; what interleaves is everything with an `await` in it.

What is hard here:

- handlers carry copies of records over an await and write them back;
- leases expire while the work goes on, and reports arrive late;
- writes are accepted from a mirror before the database has seen them, and one
  rejected write silently disables the rest of the chain;
- several processes share one row, or one log of audit records;
- a handler makes up to five writes to different files, each of which may fail or
  be the last one before a crash, and the next start has to choose among files;
- a restore takes keys, jobs and stored provisioning jobs back in time together;
- a connector's collections are cut, throttled, refused and rejected, and what was
  read so far is used all the same;
- one connector object, its snapshot and its warnings are shared by all requests;
- the two searches of a decision prune nodes and share one set of limits.

The hazards, each at its line, are in `PROJECT.json`, with the property that
would catch it. The two without one have a note.

## 2. Modules

### Job queue, stores, provisioning, decisions

`JobQueue` (extended by `MCJobQueue`). One action per operation of
`ReferenceJobQueueAdapter`, and per step of `drainNextQueuedJob`:
`ReserveNextJob`/`ReserveNothing`, then `CompleteJob`, `CompleteJobThrows`
(the report is refused after the body ran), `ExecutionFails` (the body threw),
`RecordJobFailure`, and `AbandonJob` for a loop that stops while it holds a job.
Every operation computes a new snapshot and exchanges it for the one it read, so
it is one step. The model thereby assumes a store whose exchange is
linearizable; `SnapshotStore` says how far the PostgreSQL store is one. Time is
what is left of a lease or a backoff; `Tick` lets one unit pass. A request is
known up to what its hash covers. `owner` (of a job) and `ran` are history.

`JobLedger`. What a client may rely on: a key is submitted once, a submission is
settled once. `JobQueue!Ledger` maps idempotency records to submissions and
terminal jobs to outcomes.

`SnapshotStore` (`MCSnapshotStore`, `MCPostgres`). Processes, each with mirror,
chain of writes, failed flag and hydration in two queries; the database row and
the backup rows. `Guarded` processes write through `compareExchangeCurrent` (the
job queue's `#commitSnapshot`), the others through `writeCurrent` (the graph and
connector-state adapters). A snapshot is the set of updates it contains.
`Persist`, `PersistFails` and `Skip` are the database's side, marked by the code
that issues the query.

`AuditStore` (`MCPostgres`). The production audit adapter over its append-only
store: `AppendAuditEvent`, `WriteEvidenceExport`, `SignAuditWindow`,
`RecordSiemDelivery`, `ReplaySiemDelivery`, `CreateAuditBackup`,
`RestoreAuditBackup` answer from the process's memory and queue their rows;
`PersistAudit` and `PersistAuditFails` let the database take one, refuse a
conflicting one or fail; `Start` and `Hydrate` are the two queries of hydration with
its validation. A hash is the event and its predecessor, so equal hashes are equal
records.

`Provisioning` (`MCProvisioning`). Callers are requests or drain loops. An
action is the stretch of a handler between two awaits, `calls[c]` what it
carries across: `Start...` up to the await of the connector, `Finish...` after
it, `ApplyProvisioningChange` between the two awaits of an enforcement job,
`CallThrows` for a rejection, `Restart` for the process (it lets the clock
advance: a process does not come back within the same millisecond, on which
`ReportIdsAreFresh` depends). The guards of controlled enforcement are the
predicates named after the functions. Refusals and idempotent replays change
nothing and are no actions. The clock and the connector are the environment.

`DecisionEngine` (`MCDecisionEngine`). One evaluation: `RejectRequest(k)` for
the nine checks in order, `AcceptRequest`, then one action per relationship that
a search looks at. The queue keeps handled entries, so the `visited` set and
`bestGrantByNode` are read off it. The graph of an evaluation is what
`activeRelationshipsForSubject` lists, per node, in order; each relationship
knows which caveats it passes. Reachability, which the properties compare with,
is stated separately: a node is reached if every closed set of nodes contains
it. An entry of `Conditional` applies to the action as the request writes it.

### The runtime across restarts

`RuntimePersistence` (`MCRuntimePersistence`). `Handle(h)` is the part of a
handler that changes the store; it leaves in `todo` the writes that the handler
makes, in the handler's order, and `appendAuditEvent`, `persistStoreSnapshot` and
`persistRecord` make them one by one, each of them successfully, or with a
failure and a receipt. `Answer` returns to the client. `Crash` may come between
any two writes and inside an append, which leaves part of a line. `Start` loads
what there is, `StartDegraded` and `CrashWhileSeeding` are its failures. The
repositories are given by `config`: every set of the local ones, and those an
application may inject. `StartSync` and `FinishSync` are a connector sync before and
after it awaits the connector, with other handlers in between: the first keeps copies
of the subjects, resources and relationships it puts into the store, the second
withdraws native grants from the store (`replaceNativeGrantsForConnector`), writes
those copies to the graph file and removes nothing from it
(`persistConnectorDiscoveryGraph`). It writes the copies in any order of the
identifiers, of which the code's order is one. `undone` is history: when a sync last
withdrew a record or wrote an older copy of it. Files other than the audit file are written to a
temporary name and renamed, so they are whole.

`AuditLedger` is the append-only log that `AuditEventRepository` promises; the
audit file implements it (`ImplementsAuditLedger`).

### Records in memory

`Policies`, `RelationshipStore`, `Drift`, `HttpApi` and `SampleConnector` are
composed in `Records`, which `RecordsProofs` extends and which `MCRecords` joins with
`Provisioning`. They share no variable, so a
behaviour of the composition is one of one of them (`part`); the composition
gives them one configuration, nothing else.

- `Policies`: handlers without an await. A new release may reject a model that an
  earlier one passed (`Upgrade`).
- `RelationshipStore`: upserts, deletions, the engine's lists cached per revision,
  asOf and pinned version, first in first out; `Check` is a decision that uses or
  makes such a list.
- `Drift`: a reconciliation or a remediation is two actions around its await;
  `ExportEvidence` derives the governance records.
- `HttpApi`: `RouteRequest` authenticates and routes, `Handle` reads and decodes
  the body and begins the handler, `Resume` continues it, `Close` ends it. What the
  handler does is in the other modules. The routes of the server that differ
  neither in their guards nor in their awaits are taken together.
- `SampleConnector`: the calls of a discovery run, each awaited.

### Connectors

`CollectionReader` reads one collection: pages, page limit, retries after
throttling, delta tokens with their caches and the restart after a token expired.
The provider is external: it answers, throttles, refuses, cuts, forgets tokens,
and its items come and go. `ConnectorSync` extends it with the snapshot that a
Graph or an AWS connector keeps between calls, a load of users, applications and
grants, and the synchronisation by the API. `GraphDiscovery` and `AwsDiscovery`
are the operators that make subjects, resources, relationships, grants and
warnings of what was read; a warning of the Graph connector has its code, its scope
and the resource it is about, where the code names one; `MCDiscovery` gives them small tenants and
organizations.

### Rules without state

`PolicyModel`, `Readiness`, `EvidencePackage`, `RequestDecoders` and the two
discovery modules translate functions of one input. `Rules` makes a system of
them: a state is one input, from sets and operators that are constants, and the
invariants compare what the operators make of it with what it is for. The
assumptions say what an input is: the configuration's keys are a list, items of a
tenant are read by their parents, and so on (section 8). `MCRules` enumerates
inputs. A JSON value of `RequestDecoders` names its type, and a string the class
of strings the checks tell apart; Ajv is `Valid`, unrolled to the depth of the
schemas. A decoder is the sequence of its checks, so that the first that fails
gives the code.

Proofs are in `JobQueueProofs`, `PostgresProofs` (both stores),
`ProvisioningProofs`, `DecisionEngineProofs`, `RuntimePersistenceProofs`,
`ConnectorSyncProofs`, `RecordsProofs` and `RulesProofs`, each of which extends the
module it is about: a property that a theorem names is the one that a run checks.
Some modules hold a definition that is a plausible slip in the definition it
precedes, and says so; replacing the one by the other must break the property it
is listed with in `PROJECT.json`, which shows that the property sees that code.

## 3. What the runs check

`JobQueueLiveness`: two loops with names of their own, one connector whose health
changes at will, a discovery job, an enforcement submitted with and without
evidence under one key, and an emergency revocation; leases of two ticks, so a
late report meets a lease of its own, of another loop and an expired one.
`DeadLetterAfterAllAttempts`, `OnlyHolderReports`, the
refinement `ImplementsLedger`, and the liveness properties
`EmergencyRevocationsSettle` and `JobsSettle`.

`JobQueueRestore`: one loop, one backup, a restore between any two steps.
`JobsAreSound` (one job per key, whose provisioning job is stored with it,
completion only after an execution, enforcement only with evidence),
`TerminalIsFinal`.

`SnapshotStoreAlone`: one process, under the adapters that write unconditionally or
under the one that exchanges, three updates, one backup, errors and two restarts. `DrainedIsCurrent`: once `waitForPendingWrites` resolves, the row is
the mirror. `AcceptedReachesDatabase` is its liveness side.

`Postgres`: two processes that write a snapshot by compare-exchange
(`DurableIsKept`: what is in the row is never lost), and the audit store of one
process that signs, delivers, backs up, restores, crashes and loses writes, or of
two that append together. Windows are signed for any period, over or not, and
events may be appended into a signed one. `AuditRowsAreAChain`: the rows are one
linked log, and a start refuses them only because of such an event
(`OnlyLateEventsRefuse`), never because of what a crash or a failed write left. `ListedBackupIsStored`: what is listed can be restored.
`VerifiedMeansDelivered`: a clean integrity report is not the work of a replay that
failed as well.

`ProvisioningOverlapping`: two handlers at the same time on one plan and one key
with fit and unfit approvals and controls, an approval that expires, restarts.
One plan and one key are what makes two handlers collide. `ReportIdsAreFresh`,
`EnforcementIsAuthorized`: jobs were, and so was what the connector has applied in
the handler that then threw or went down with the process (`writes` is the
history of what was applied). `OutcomeIsTrue`: a plan that reads applied and a job
that reads completed tell of what the connector executed, on that evidence,
though another handler has replaced the plan meanwhile.

`Records`: the records in memory. Provisioning by one handler at a time on two
connectors, one of which is no mock, with a fit and an unfit approval and a clock that
stands still (expiry, restarts and unfit controls are in `ProvisioningOverlapping`),
where a key names one job and an applied plan has a completed job
(`KeyNamesOneJob`, `AppliedPlanHasCompletedJob`); policies
(`PublishedIsAccountedFor`: what is published was validated, and the trail says
so); the engine's lists (`EngineSeesTheStore`); two overlapping reconciliations
or remediations (`ReconciliationIsSound`, `ExpiryIsFinal`); three requests on two
connections with several keys (`CallersAreAccountedFor`: events name the key of
their request, and samples account for every failed authentication); two runs of
the sample connector (`UndisturbedRunIsWhole`).

`DecisionEngine`: all graphs with up to two relationships from the subject, two
from the group and one from the workspace, drawn from fourteen, cyclic ones and
every order of listing included; two chains in every mix of one differing
standing, one differing tenant and asOf; the same chains against tight limits.
The roomy limits are exactly those `SmallGraphIsDecided` allows, for five
relationships. `AllowIsJustified`, `RefusalIsTrue`, `Answers`.

`RuntimePersistence`: handlers of every kind and connector syncs between them, two
failures of writes, two crashes, three events, every configuration.
`AcknowledgedEventSurvives`: an event that was answered without a receipt is there
after any restart. `AcknowledgedRecordSurvives`: so is a record, unless a sync has
withdrawn it or written an older copy of it since, and a withdrawn native grant comes
back only out of the graph file (`RecordSurvives`, `WithdrawnStaysAway`). `AuditTrailIsSound`: the file never forks from the events in memory
without a receipt that says so, and the events are a chain. `ImplementsAuditLedger`.

`ConnectorSync`: two calls, one after the other, of one connector over one user,
one application and one grant, with one change at the provider.
`DeltaStateIsSound`: what a delta read does not report is right in the cache.
`LossIsAnnounced`: a run that misses a grant, or keeps one that is gone, says that
its coverage is limited. `CallsEnd`.

`Rules`: `ValidModelIsHonoured` (a valid model loses nothing when it is compiled,
its caveats are decided), `ReadyIsEarned` (accepted configurations, verdicts,
pilots), `BodyReachesHandler` (the schema and the decoder of a body agree on its
shape, and no body asks for enforcement by leaving something out),
`VerifiesExactlyAsSigned` (packages with every part changed and made to fit again,
by verifiers with their own, new, other and no keys), `SnapshotIsFaithful` (nothing
dangles; what the provider lists is in the snapshot or has a warning of its own kind,
with the exceptions that `NothingIsLostSilently` names, see section 7; high confidence
is earned). Bodies are one
change away from a valid one, those of plans and jobs up to two.

`SnapshotStoreShared`, `HttpApiKeyed` (violations are expected): see section 6.

Deadlock is checked for the job queue and the snapshot store alone. The other
systems stop when their counters reach their bounds, or have nothing left to do.

## 4. Bounds

`MaxJobs`, `AttemptCap`, `MaxRestores` (queue), `MaxPending`, `MaxQueued`, `MaxRestarts`,
`MaxStarts` (stores), `MaxDeliveries`, `MaxTime`, `MaxDays`, `MaxMinutes`, `LastMoment`, `MaxReports`, `MaxEvents`, `MaxCrashes`,
`MaxFailures`, `MaxRuns`, `MaxRequests`, `MaxWrites`, `MaxChanges`, `MaxCalls` cut
counters that the code leaves unbounded. Two loops, processes or handlers suffice
for every race listed: each is between one that read and one that wrote since.
Two jobs suffice for precedence and competition, two ticks of lease for a report
before and after expiry, two attempts for one that is retried and one that is the
last. Two crashes and two failures meet in one handler, in the start after it and
in the start after that. `MaxEvents` of `RuntimePersistence`
bounds the versions of records, which syncs add too. Limits of the code that are compared with counters
(`MaxReceipts`, `MaxScopes`, `MaxPages`, `MaxRetries`) are small here so that they
are reached. The synchronisations of `ConnectorSync` do not overlap in its run:
what they then do to each other is known (section 7) and the property excludes it.
Processes that share the audit tables only append (`SharedOnlyAppends`), since a
restore rewrites the tables and is made with one process running; a process goes on
from at most four audit records of all kinds (`FewRecords`), which is what a window,
a delivery, its replay and a backup or a late event need. The proofs
remove the bounds on sets; the counters' bounds remain as constants of arbitrary
value. Symmetry is used where processes, events or callers are interchangeable and
no liveness property is checked.

## 5. Fairness

`JobQueue`: time passes; a loop is called again and again; a body that was
started ends; its failure is recorded. The runner is called in a loop by its
host and awaits the body. That reservations eventually stop getting lost is a
premise of the two liveness properties, not fairness, because nothing in the code
renews a lease: a body that always outlives its lease would be executed for ever.
Non-emergency jobs moreover need a connector that stays healthy.

`SnapshotStore`: the database answers, with success or an error.

`DecisionEngine`: an evaluation is synchronous and runs to its end.

`ConnectorSync`: every request to the provider is answered or rejected, and every
settled promise is continued. Nothing is assumed of what the answers are: that a
call ends is the work of the page and retry limits.

No fairness is assumed for clients, failures, restarts, restores or connectors.

## 6. Findings

- `SnapshotStoreShared`: graph and connector state are written with
  `writeCurrent`; `docs/persistence.md` describes compare-exchange writes. With
  two processes, an update can be overwritten.
- `HttpApiKeyed`: `docs/api-reference.md` says that operations marked as requiring
  an `Idempotency-Key` fail closed without one; the server asks for it only for
  plans, jobs, policies, remediation and the verification of evidence.

## 7. Other disagreements

Met while modelling, and stated by a definition that a run could check, or avoided
by a premise of a property that is checked:

- All loops of `drainNextQueuedJob` have one default name
  (`api/src/job-queue-runner.ts:40`), so `assertWorkerMatches` accepts the late
  report of a loop whose reservation has passed to another. `OnlyHolderReports` is
  checked and proved for distinct names.
- The idempotency key of a provisioning job is looked up before the connector is
  awaited and stored after (`runtime-jobs.ts:156`): two overlapping submissions give
  two jobs, where ADR 0007 says the same job is returned. `KeyNamesOneJob` is
  checked and proved for one handler at a time.
- When the verification rejects after a change was applied, or the process stops
  there (`runtime-enforcement.ts:194`), neither job nor rollback is recorded; ADR
  0007 asks for compensation records (`AppliedIsRecorded`).
- Only the latest version of a relationship is kept (`store.ts:204`), so a decision
  repeated for an earlier asOf may differ, which `docs/decisions.md:16` excludes
  (`DecisionIsReproducible`).
- A finding that is detected again after its triage is open again;
  `docs/drift-detection-model.md:23` says that open means not triaged
  (`OpenMeansUntriaged`).
- The playground validates the given model and lets the engine decide with the
  default one; `docs/quickstart.md:107` (`PlaygroundUsesItsModel`).
- A read that Graph throttles until the connector gives up pushes a warning that
  `#pushWarning` drops, because an informational one with the same code, scope and
  message is already there (`connectors-microsoft-graph/src/connector.ts:1318`,
  `collection-reader.ts:111`). The run is still announced as limited, but
  `detectDrift` leaves informational warnings out and finds nothing, where
  `docs/security-model.md:23` says that throttling is recorded as warnings and drift
  findings (`CutIsFound`).
- A load of the Graph connector that was rejected half-way is not announced by the
  next run that uses what was cached (`connectors-microsoft-graph/src/connector.ts`,
  `provider-utils.ts:131`), a page limit of zero reads nothing and warns of
  nothing, an unparsable answer with status 200 is an empty last page
  (`client.ts:129`), and the snapshot of the AWS connector is never reset
  (`connectors-aws/src/index.ts:326`).
- Overlapping runs of the sample connector mix scenarios and lose warnings; the
  comment at `connectors-sample-readonly/src/index.ts:135` says they reuse one.
- A native grant that a sync has withdrawn from the store stays in the graph file,
  which is only added to (`runtime-discovery.ts:49-51`, `runtime-state.ts:179-193`).
  The next start prefers that file to the snapshot as long as it has all that the
  snapshot has (`runtime-seed.ts:54-60`), and the grant is back, without a receipt
  (`WithdrawalSurvives` of `RuntimePersistence`).
- A sync writes the subjects, resources and relationships to the graph file as it read
  them before it awaited the connector (`runtime-discovery.ts`, `runtime-state.ts:179`);
  what another handler changed and answered meanwhile is newer in the store and in the
  snapshot, and older again after a restart (`NewestRecordSurvives`).
- The discovery of the connectors drops some of what it reads without a warning: the
  owners of groups that are no Microsoft 365 groups
  (`connectors-microsoft-graph/src/connector.ts:673`), the drives of deleted users
  (`connector.ts:851`), principals of a permission that are no user, group, application
  or site user, beside one that is (`provider-utils.ts:161`), Access Analyzer findings
  without an id (`connectors-aws/src/drift-findings.ts:26`), and that a role lies in an
  account that is missing or unknown (`connectors-aws/src/discovery.ts:197`).
  `NothingIsLostSilently` of `GraphDiscovery` and `AwsDiscovery` states these
  exceptions, `EverythingIsTold` leaves them out and does not hold.
- The actions of a conditional relationship are compared with that of the request as
  both are written (`core/src/engine.ts:437`), those of grants and denials in lower
  case (`engine.ts:677`): a caveat bound to `read` is not asked of a request for
  `Read`, which `read` grants. `ValidModelIsHonoured` says nothing of it;
  `DecisionEngine` takes the conditions that apply to the action as given.
- Evidence packages cannot be verified after a restart, because their key is made
  at start (`core/src/evidence-integrity.ts:61`).
- A crash between the write of the current row and the backup's row leaves a listed
  snapshot backup that cannot be restored (`reference-repositories.ts:316`).
- A window may be signed before its period is over, and an event appended into it
  afterwards, as `tests/core/reference-audit.test.ts:56-73` does. From then on
  `createBackup` and the deliveries are refused, and the adapter cannot be
  constructed over its own rows at the next start
  (`reference-audit-integrity.ts:143`): that every start accepts what was written
  (`phase[p] # "refused"`) does not hold. `OnlyLateEventsRefuse` states what does.
- The approval of a drift remediation is not asked for readable dates, that of a
  plan or a job is (`request-decoders.ts:283`, `:443`).

## 8. What is proved

All theorems hold for every value of the constants under the named assumptions
of the modules, and no obligation is left open.

`JobQueueProofs`. The inductive invariant is `IInv`: types; the current snapshot
and every backup satisfy one predicate `SnapshotOK` (a restore makes the backup
current, so the backups must satisfy all that the queue does); and each loop's
reservation matches the job it holds. From it: `OneJobPerKey`,
`CompletedAfterExecution`, `EnforcementHasEvidence` and `QueuedJobIsStored`, which
make `JobsAreSound`; `DeadLetterAfterAllAttempts`, `TerminalIsFinal`;
`OnlyHolderReports` if loops have distinct names; and that the queue implements
`JobLedger` if there are no restores (a restore unsubmits jobs, which a ledger
cannot do).

`PostgresProofs`, the snapshot store. `DrainedIsCurrent` for one process: the
invariant `Leads` says that the last pending write of the current record, or the row if there is
none, is the mirror, unless the chain has failed. `DurableIsKept` and `DrainedIsDurable` for processes that all
write by exchange and take no backups (a restored backup may lack updates):
`Chained` says that each pending exchange contains the updates of the record it
expects, so one that the database accepts adds to the row, and that the last one
is the mirror; after one that the database refuses the chain has failed.

The audit store. A pending chain of writes is replayed: `Queued(p, M)` says that
there is a sequence of states, from the rows to the memory of the process, each
the one before with one row more, and each sound: every window names what its period
held at some length of the log (`NamesItsPeriod`, which appending keeps) and every
delivery what a window names. Any prefix of it that the database has taken is then
sound too, so a crash between two writes leaves a store that the next start accepts,
but for a window with a later event in its period (`RefusedForLateEvents`,
`AuditRowsAreAChain`). That deliveries are traced in every copy gives
`VerifiedMeansDelivered`; `ListedInv` (what is listed is stored or queued
before the write that lists it) gives `ListedBackupIsStored`. The last two assume
that `None` is no identifier and no state of a store.

`ProvisioningProofs`. `IInv` has types, the numbering of reports (`NumberInv`:
an id is of an earlier moment, or its number is at most the counter),
authorisation carried by suspended handlers (`AuthorizedInv`), the audit
events that precede each phase of a handler (`AuditInv`), and for each applied
plan and completed job the execution it stands for (`OutcomeInv`). From it the
properties of `ProvisioningOverlapping`, for any number of overlapping handlers;
`KeyNamesOneJob`, `JobIsFinal` and `AppliedPlanHasCompletedJob` for a single one
(`SerialInv`).

`DecisionEngineProofs`. `IInv` says of the running search that every queued node
is reached, its path is real, every node behind a handled relationship is in the
queue with at least that grant or leads nowhere, and a deny has not been found.
When the queue is exhausted its nodes form a closed set, so they contain all that
is reachable: that gives `RefusalIsTrue`, and the absence of a deny in
`AllowIsJustified`. `PathIsReal` follows from the path carried by entries.
`SmallGraphIsDecided` needs a count: no two entries of the queue have the same node
and the same grant (`Distinct`), so a relationship is looked at once in the search
for a deny and at most twice in the other, and `CountInv` bounds the scans so far
by the relationships looked at; an entry is longer than its path, which bounds the
depth. It assumes that there are finitely many nodes (`NodeAssumption`).

`RuntimePersistenceProofs`. `TrailInvariant` has types, what a handler in progress
is about (its event is the last of the recorder and of the store, and its audit
write comes first), and `TrailInv`: of the file and the snapshot one continues the
other, what is in memory continues both, and the file is behind the store only
while the audit write is pending or the receipts tell of it. That gives `AuditTrailIsSound`, and with it
every step of the audit file is an append to the ledger or a stutter
(`ImplementsAuditLedger`). `AckInv` and `RecordInv` say for each phase of a handler
and of a start where a restart would find what was answered without a receipt. A
version is as new as what was acknowledged, or a sync has undone it since (`NotOlder`);
the copies that a waiting sync will write to the graph file are so, or the store has a
newer version by then, which makes the write count as undone (`CopiesCover`); and a
withdrawn grant is missing, read again or still in the graph file (`WithdrawnInv`).
From them `AcknowledgedEventSurvives` and `AcknowledgedRecordSurvives`. What a sync
undoes is excepted because the code does undo it (section 7).

`RecordsProofs`. Of `Drift`: the numbers of waiting and recorded runs are distinct
and behind the sequence (`NumbersInv`), and what a remediation read passed its
controls (`RepairInv`), which make `ReconciliationIsSound`; `TermInv` gives
`ExpiryIsFinal`. Of `Policies`: a validated policy has a validation that nothing has
voided since (`PolicyInv`), hence `PublishedIsAccountedFor`. Of `SampleConnector`:
what an undisturbed run has read so far is of one scenario and is told
(`SampleInv`), if there is a scenario, which the constructor demands. Of
`RelationshipStore`: the index lists every relationship once, under its subject
(`IndexInv`), and a list cached for the present revision is what the filter gives
now (`CacheInv`); hence `EngineSeesTheStore`. Of `HttpApi`: a request has the name
of its key until it is answered (`NamesInv`), hence `EventNamesItsCaller`; and
what the events count for a reason, with what is suppressed since the last of them,
is the number of failures (`CountsInv`), hence `CallersAreAccountedFor`. The sum over
the events is a recursive function, which appending an event extends by one value,
so that no induction is needed. Assumed are that the keys are a list and that an
absent sample is none.

`ConnectorSyncProofs`. `IInv` has three parts. `TypeInv` holds always. `DeltaInv`
holds while calls do not overlap: a kept token comes with a cache that is right
about all that did not change since its position, and a read under way is right
about all it does not wait for any more, which is stronger than
`DeltaStateIsSound` and is what makes a restart as a full read and an early end
harmless. `LossInv` holds while in addition no call was rejected: as long as there
is no warning, what a load has read so far knows every user and application that
was there all the time, the grants it keeps are right, the readback counts as
complete, and a request has collected all grants of the applications behind it;
hence `LossIsAnnounced`. A read is reduced to four effects (`ReaderCases`: it goes
on, starts again, ends early, ends well), so the page, throttling and refusal are
each looked at once. The assumptions are that the three collections exist, that a
grant names a user and an application, that the provider has no delta query for
grants, and that `None` is none of the records. Without the two premises the
properties do not hold (section 7).

`RulesProofs`. The rules without state, for all inputs; an input never changes
(`InputInv`), so each theorem is a lemma about the operators.

- `ValidModelIsHonoured`: what each check of the validation says of names and
  caveats is what the compilation and the evaluation of a caveat look up.
- `ReadyIsEarned`: an environment that is ready passed checks that no default
  passes. A table of keys is empty only if no entry has a token, and the verdict on
  backends compares two of the same component wherever they stand.
- `SnapshotIsFaithful`: for each kind of fact, one that is listed either satisfies the
  condition under which it is imported, or that under which its warning is pushed
  (`SkipIsWarned` and the lemmas that end in Kept). Items of a tenant are imported level by level, and whatever
  is below an imported container, or left out below the depth limit, is followed
  from its parent (assumed: an item is read by its parent, which is a drive or a
  folder, and has an identifier of its own; permissions are those of sites, drives and
  items). A warning that names no object in the code says that some of its kind were
  skipped, and no more is claimed.
- `VerifiesExactlyAsSigned`: `VerifiedIsAsSigned` from the hash that the signature
  covers, `AsSignedVerifies` by going through every check of the verification with
  the content that an export makes: its traces and its statement are complete for
  the controls and events that it names. Assumed is that nobody else signs with a
  key that the verifier trusts (`PresentedAssumption`); this, and that a hash
  determines what it was made of, is all that is said of cryptography.
- `BodyReachesHandler`: what a decoder repeats of a schema follows from it field by
  field (`PlanFields` and its like), and the decoder of a body is made of those of
  its parts (`BothAreMade`); a body that no check refuses satisfies them all
  (`NothingIsRefused`). Nothing is assumed of the bodies.

The assumptions of `Rules` are evaluated by TLC on the inputs of its run. Where a
first or last position in a list matters, the least (or greatest) of a set of
numbers takes the place of an induction over the list.

Only model-checked are the liveness properties (`JobsSettle`,
`EmergencyRevocationsSettle`, `AcceptedReachesDatabase`, `Answers`, `CallsEnd`):
fairness is outside the prover's reach. Every invariant and every other action or
refinement property that a passing run checks is a theorem.

## 9. Not modelled

The command line, the TypeScript client and the generated contracts format
requests and keep no state. Scripts, manifests and examples are not part of the
running system. Of the connectors, token acquisition, redaction and the texts of
evidence are left out; of the HTTP server the texts and headers of answers; of the
exports the texts and metrics. The five attempts of `#commitSnapshot` are one
atomic exchange. Logging, messages and formats are left out throughout. Data is
abstracted: payloads and hashes to what equality tells apart, timestamps to a small
clock (also in `AwsDiscovery`, where the code compares them as texts), a caveat to whether it is met where an evaluation uses it.

## 10. Plan

To prove: what can be said of processes of `SnapshotStore` that write without an
exchange.

To model: the five attempts of `#commitSnapshot` over the mirror, which would join
`JobQueue`'s atomic commit with `SnapshotStore`; overlapping synchronisations.

------------------------- MODULE RuntimePersistence -------------------------
(***************************************************************************)
(* What the API runtime keeps across restarts: the in-memory store, the    *)
(* audit recorder, the append-only audit file, the runtime snapshot and    *)
(* the graph and job files (packages/api/src/runtime-state.ts,             *)
(* runtime-seed.ts, local-app.ts, runtime-graph.ts, runtime-discovery.ts,  *)
(* runtime-policies.ts; packages/core/src/repositories.ts, store.ts,       *)
(* repository-envelopes.ts, audit.ts).                                     *)
(*                                                                         *)
(* A handler changes the store in memory and then writes to one file after *)
(* the other. Every write may fail, which leaves a degradation receipt and *)
(* does not stop the handler, and the process may end between two writes.  *)
(* A connector sync changes memory, awaits the connector and writes then   *)
(* what it had read before; other handlers run in between.                 *)
(***************************************************************************)
EXTENDS Naturals, Sequences, FiniteSets

CONSTANTS
  GraphId,      \* subjects, resources, relationships and native grants
  NativeGrant,  \* the native grants, which only a sync writes and removes
  JobId,        \* plans, jobs, findings, runs, reports and decisions
  RunId,        \* the job records that may be recorded only once
  SeedId,       \* the records of the fallback seed
  Injected,     \* the sets of repositories an app may be given by its options
  None,
  MaxReceipts,  \* MAX_PERSISTENCE_DEGRADATIONS
  MaxEvents,    \* bound: audit events and versions
  MaxCrashes,   \* bound: crashes
  MaxFailures   \* bound: failing writes

ASSUME IdAssumption ==
  /\ RunId \subseteq JobId
  /\ GraphId \cap JobId = {}
  /\ SeedId \subseteq GraphId \cup JobId
  /\ NativeGrant \subseteq GraphId /\ IsFiniteSet(GraphId)
  /\ "audit" \notin GraphId \cup JobId /\ "state" \notin GraphId \cup JobId
ASSUME ReceiptAssumption == MaxReceipts \in Nat /\ MaxReceipts >= 3
ASSUME BoundAssumption == MaxEvents \in Nat

VARIABLES
  config,    \* the repositories of this app
  up,        \* the app has been created
  todo,      \* the writes the current handler has still to make
  cur,       \* the records the current handler writes, those it withdrew, its event
  syncs,     \* what the syncs that await the connector have read: records by version
  store,     \* InMemoryRebacStore: events, records and its copy of the receipts
  recorder,  \* #events of the AuditRecorder
  receipts,  \* persistenceDegradations of the app
  repo,      \* the records the graph and the job repository hold in memory
  disk,      \* the files
  clock,     \* numbers events and versions of records
  crashes, failures,
  acked,     \* history: what was answered without any receipt
  undone,    \* history: when a sync last withdrew a record or wrote an older copy of it
  halfSeeded \* history: the repositories whose seeding was cut short

vars == <<config, up, todo, cur, syncs, store, recorder, receipts, repo, disk, clock,
          crashes, failures, acked, undone, halfSeeded>>

\* createLocalRuntimePersistence: the snapshot path brings the graph and the job file
\* with it, the evidence root the audit file.
createLocalRuntimePersistence(statePath, evidenceRoot) ==
  (IF statePath THEN {"state", "graph", "job"} ELSE {})
    \cup (IF evidenceRoot THEN {"audit"} ELSE {})

\* normalizeRuntimePersistence: what the options inject, or the local files.
Configs == Injected \cup {createLocalRuntimePersistence(s, e) : s, e \in BOOLEAN}

\* RebacGraphSnapshot and RebacJobSnapshot: the records by identity, each with the version
\* that was written last, and 0 for no record. A deleted relationship is a version like
\* any other (its status says so); a native grant is removed.
Id == GraphId \cup JobId
Part(r) == IF r = "graph" THEN GraphId ELSE JobId
Absent == [i \in Id |-> 0]

\* An event is named by its hash, which covers its content and previousEventHash.
Event == [id : 1..MaxEvents + 1, prev : 0..MaxEvents + 1]
auditEventHash(e) == e.id
TailHash(events) == IF events = <<>> THEN 0 ELSE auditEventHash(events[Len(events)])

\* verifyAuditChain: each event names its predecessor.
verifyAuditChain(events) ==
  \A k \in 1..Len(events) : events[k].prev = TailHash(SubSeq(events, 1, k - 1))

\* None is neither a record nor a store nor a handler's progress.
ASSUME NoneAssumption ==
  /\ None \notin Id
  /\ None \notin [events : Seq(Event), rec : [Id -> Nat],
                  receipts : Seq({"audit", "state", "graph", "job"})]
  /\ None \notin [kind : {"graph", "decision", "plan", "run", "policy", "sync"},
                  rec : [Id -> Nat], withdrawn : SUBSET Id, version : Nat, degraded : BOOLEAN]

StartsWith(events, prefix) ==
  /\ Len(prefix) <= Len(events)
  /\ SubSeq(events, 1, Len(prefix)) = prefix

Front(events) == SubSeq(events, 1, Len(events) - 1)

-----------------------------------------------------------------------------
(* Receipts *)

\* recordPersistenceDegradation: the oldest receipt leaves a full list.
recordPersistenceDegradation(list, component) ==
  Append(IF Len(list) >= MaxReceipts THEN Tail(list) ELSE list, component)

\* A write that fails although nothing is wrong with it.
IoFailure == failures < MaxFailures /\ failures' = failures + 1
Works == failures' = failures

Degraded(component) == receipts' = recordPersistenceDegradation(receipts, component)

-----------------------------------------------------------------------------
(* Handlers *)

\* The order in which a handler writes once the store has changed: runtime-graph.ts,
\* checkDecision, runtime-policies.ts, createProvisioningPlan, and the handlers that
\* record a job and then the snapshot. A record stands for the write of its repository.
Writes(kind, i) ==
  CASE kind \in {"graph", "decision"} -> <<"audit", "state", i>>
    [] kind = "policy"               -> <<"audit", "state">>
    [] OTHER                         -> <<"audit", i, "state">>

Handler == [kind : {"graph"}, id : GraphId \ NativeGrant]
             \cup [kind : {"decision", "plan"}, id : JobId \ RunId]
             \cup [kind : {"run"}, id : JobId]
             \cup [kind : {"policy"}, id : {None}]

\* AuditRecorder.record
Recorded(events) == [id |-> clock + 1, prev |-> TailHash(events)]

\* recordAudit, in memory: the recorder's event is the store's too, next to the records
\* the handler leaves there. Its repositories have still to get what is `written`.
RecordAudit(kind, records, written, withdrawn, writes) ==
  LET e == Recorded(recorder)
  IN  /\ up /\ cur = None /\ clock < MaxEvents + 1
      /\ clock' = clock + 1
      /\ recorder' = Append(recorder, e)
      /\ store' = [store EXCEPT !.events = Append(@, e), !.rec = records]
      /\ cur' = [kind |-> kind, rec |-> written, withdrawn |-> withdrawn,
                 version |-> clock + 1, degraded |-> FALSE]
      /\ todo' = writes
      /\ UNCHANGED <<config, up, receipts, repo, disk, crashes, failures, acked, halfSeeded>>

\* Records, with those of a set in the version that the clock gives them next.
Updated(records, ids) == [i \in Id |-> IF i \in ids THEN clock + 1 ELSE records[i]]

\* The memory part of a handler of one record. A run already recorded is refused before
\* anything changes.
Handle(h) ==
  LET ids == {h.id} \cap Id
  IN  /\ h.id \in RunId => store.rec[h.id] = 0
      /\ RecordAudit(h.kind, Updated(store.rec, ids), Updated(Absent, ids), {}, Writes(h.kind, h.id))
      /\ UNCHANGED <<syncs, undone>>

\* syncConnector up to its readback: the subjects, resources and relationships that the
\* connector has told are put into the store's memory, and their copies kept for later.
StartSync(ids) ==
  /\ up /\ cur = None /\ clock < MaxEvents + 1
  /\ clock' = clock + 1
  /\ store' = [store EXCEPT !.rec = Updated(@, ids)]
  /\ syncs' = syncs \cup {Updated(Absent, ids)}
  /\ UNCHANGED <<config, up, todo, cur, recorder, receipts, repo, disk, crashes, failures,
                 acked, undone, halfSeeded>>

\* The records of a set one after the other.
Orders(S) == {s \in [1..Cardinality(S) -> S] : \A i \in S : \E k \in 1..Cardinality(S) : s[k] = i}
Copied(copy) == {i \in Id : copy[i] # 0}

\* Whether the graph repository survives the process.
KeepsGraph == "graph" \in config /\ "memory" \notin config

\* replaceNativeGrantsForConnector: the connector's grants that were not read are removed.
replaceNativeGrantsForConnector(records, grants, withdrawn) ==
  [i \in Id |-> IF i \in withdrawn THEN 0 ELSE Updated(records, grants)[i]]

\* syncConnector after the readback. Only if that was complete are the store's grants
\* replaced; persistConnectorDiscoveryGraph writes all that was read all the same, the
\* copies first, and removes nothing from the graph file.
FinishSync(copy, run, grants, withdrawn, complete) ==
  LET kept == IF complete THEN replaceNativeGrantsForConnector(store.rec, grants, withdrawn)
              ELSE store.rec
      gone == IF complete THEN withdrawn ELSE {}
      older == {i \in Copied(copy) : KeepsGraph /\ copy[i] < store.rec[i]}
  IN  /\ copy \in syncs
      /\ store.rec[run] = 0
      /\ \A i \in withdrawn : store.rec[i] # 0 /\ i \notin grants
      /\ \E entities \in Orders(Copied(copy)), filed \in Orders(grants) :
            RecordAudit("sync", Updated(kept, {run}), Updated(copy, grants \cup {run}), gone,
                        <<"audit">> \o entities \o filed \o <<run, "state">>)
      /\ syncs' = syncs \ {copy}
      /\ undone' = Updated(undone, gone \cup older)

Ready(write) == up /\ todo # <<>> /\ Head(todo) = write
WriteDone ==
  /\ todo' = Tail(todo)
  /\ UNCHANGED <<config, up, syncs, recorder, clock, crashes, acked, undone, halfSeeded>>

\* auditRepositoryMatches, asked only when a snapshot is kept too.
auditRepositoryMatches == "state" \in config => disk.audit = Front(store.events)

\* #readRecords, assertStoredAuditRecords: every line of the file parses and carries its
\* number and its hash. Files written by a rename always do; an appended line may be cut.
AuditFileReadable == ~disk.torn

\* Wrong: the tail is not compared with the event's previousEventHash.
AppendsUnchecked(e) == auditRepositoryMatches /\ AuditFileReadable
\* LocalAppendOnlyAuditRepository.appendAuditEvent: refused if a line cannot be read, if
\* the event is there already or if it does not follow the last one.
AppendAccepted(e) ==
  /\ auditRepositoryMatches
  /\ AuditFileReadable
  /\ \A k \in 1..Len(disk.audit) : disk.audit[k].id # e.id
  /\ e.prev = TailHash(disk.audit)

\* Wrong: a skipped append leaves no receipt.
SilentSkip == Works /\ UNCHANGED <<receipts, disk, cur>>
SkipAppend ==
  Works /\ Degraded("audit") /\ cur' = [cur EXCEPT !.degraded = TRUE] /\ UNCHANGED disk

\* appendAuditEvent of runtime-state.ts with the copy of the receipts commitRuntimePersistence
\* (or onAuditEvent) makes after it. A write that fails may leave part of a line behind.
appendAuditEvent ==
  LET e == store.events[Len(store.events)]
  IN  /\ Ready("audit")
      /\ \/ "audit" \notin config /\ Works /\ UNCHANGED <<receipts, disk, cur>>
         \/ "audit" \in config /\ ~AppendAccepted(e) /\ SkipAppend
         \/ "audit" \in config /\ AppendAccepted(e) /\ Works
            /\ disk' = [disk EXCEPT !.audit = Append(@, e)]
            /\ UNCHANGED <<receipts, cur>>
         \/ "audit" \in config /\ AppendAccepted(e) /\ IoFailure /\ Degraded("audit")
            /\ \E t \in BOOLEAN : disk' = [disk EXCEPT !.torn = t]
            /\ cur' = [cur EXCEPT !.degraded = TRUE]
      /\ store' = [store EXCEPT !.receipts = receipts']
      /\ UNCHANGED repo
      /\ WriteDone

\* persistStoreSnapshot: the whole store replaces the file, by a rename.
persistStoreSnapshot ==
  /\ Ready("state")
  /\ \/ "state" \notin config /\ Works /\ UNCHANGED <<receipts, disk, cur, store>>
     \/ "state" \in config /\ Works
        /\ disk' = [disk EXCEPT !.state = store]
        /\ UNCHANGED <<receipts, cur, store>>
     \/ "state" \in config /\ IoFailure /\ Degraded("state")
        /\ store' = [store EXCEPT !.receipts = receipts']
        /\ cur' = [cur EXCEPT !.degraded = TRUE]
        /\ UNCHANGED disk
  /\ UNCHANGED repo
  /\ WriteDone

upsertById(records, i, version) == [records EXCEPT ![i] = version]

\* appendUniqueById: runs and reports are recorded once.
appendUniqueRefuses(i) == i \in RunId /\ repo[i] # 0

\* The operations of LocalJsonFileGraphRepository and of LocalJsonFileJobRepository that
\* change its records; both change them before the file is written.
GraphRecords(i) == upsertById(repo, i, cur.rec[i])
JobRecords(i) == IF appendUniqueRefuses(i) THEN repo ELSE upsertById(repo, i, cur.rec[i])

\* #persist: the records of one repository replace its file, by a rename.
Persisted(r, records) == [i \in Id |-> IF i \in Part(r) THEN records[i] ELSE disk.rec[i]]

\* persistGraphX and persistJobX: the repository changes its records in memory, then
\* writes the file; a run it has already is refused. Only the commit of a plan copies
\* the receipts into the store afterwards.
persistRecord(r) ==
  LET i == Head(todo)
      refused == appendUniqueRefuses(i)
      changed == IF r = "graph" THEN GraphRecords(i) ELSE JobRecords(i)
  IN  /\ up /\ todo # <<>> /\ i \in Part(r)
      /\ \/ r \notin config /\ Works /\ UNCHANGED <<receipts, repo, disk, cur>>
         \/ r \in config /\ refused /\ Works /\ Degraded(r)
            /\ cur' = [cur EXCEPT !.degraded = TRUE]
            /\ UNCHANGED <<repo, disk>>
         \/ r \in config /\ ~refused /\ Works
            /\ repo' = changed
            /\ disk' = [disk EXCEPT !.rec = Persisted(r, changed)]
            /\ UNCHANGED <<receipts, cur>>
         \/ r \in config /\ ~refused /\ IoFailure /\ Degraded(r)
            /\ repo' = changed
            /\ cur' = [cur EXCEPT !.degraded = TRUE]
            /\ UNCHANGED disk
      /\ store' = IF cur.kind = "plan" THEN [store EXCEPT !.receipts = receipts'] ELSE store
      /\ WriteDone

\* The handler returns; the history keeps what was answered without a receipt: the event,
\* the records that are in the store, in their newest version, and what was withdrawn.
Answer ==
  /\ up /\ cur # None /\ todo = <<>>
  /\ acked' = IF cur.degraded THEN acked
              ELSE [events |-> acked.events \cup {cur.version},
                    rec |-> [i \in Id |-> IF acked.rec[i] < cur.rec[i] /\ cur.rec[i] <= store.rec[i]
                                          THEN cur.rec[i] ELSE acked.rec[i]],
                    gone |-> [i \in Id |-> IF i \in cur.withdrawn THEN cur.version ELSE acked.gone[i]]]
  /\ cur' = None
  /\ UNCHANGED <<config, up, todo, syncs, store, recorder, receipts, repo, disk, clock, crashes,
                 failures, undone, halfSeeded>>

-----------------------------------------------------------------------------
(* Crash and start *)

EmptyStore == [events |-> <<>>, rec |-> Absent, receipts |-> <<>>]

\* The process ends: memory is gone, a line that was being appended may be left in part.
Crash ==
  /\ up /\ crashes < MaxCrashes
  /\ crashes' = crashes + 1
  /\ \E t \in BOOLEAN :
        /\ t => Ready("audit") /\ "audit" \in config /\ AppendAccepted(store.events[Len(store.events)])
        /\ disk' = [disk EXCEPT !.torn = @ \/ t]
  /\ up' = FALSE /\ todo' = <<>> /\ cur' = None /\ syncs' = {}
  /\ store' = EmptyStore /\ recorder' = <<>> /\ receipts' = <<>> /\ repo' = Absent
  /\ UNCHANGED <<config, clock, failures, acked, undone, halfSeeded>>

\* InMemoryRebacPersistenceRepository behind both interfaces.
InMemory == "memory" \in config

\* What a repository finds when it is opened; one in memory finds nothing.
Opened == [i \in Id |-> IF ~InMemory /\ (i \in GraphId => "graph" \in config)
                                      /\ (i \in JobId => "job" \in config)
                        THEN disk.rec[i] ELSE 0]

FallbackSeed == [i \in Id |-> IF i \in SeedId THEN 1 ELSE 0]

\* readState: the snapshot, or the seed the app was given.
BaseSeed ==
  IF "state" \in config /\ disk.state # None THEN disk.state
  ELSE [events |-> <<>>, rec |-> FallbackSeed, receipts |-> <<>>]

\* The file's events are taken if they extend the snapshot's and verify.
recoverAppendOnlyAuditEvents(base) ==
  IF /\ {"state", "audit"} \subseteq config
     /\ Len(disk.audit) > Len(base.events)
     /\ StartsWith(disk.audit, base.events)
     /\ verifyAuditChain(disk.audit)
  THEN disk.audit ELSE base.events

HasRecords(r, records) == \E i \in Part(r) : records[i] # 0

\* Wrong: a file that holds something is always taken.
useAnyPersisted(r, base) == r \in config /\ HasRecords(r, Opened)
\* shouldUsePersistedGraph, shouldUsePersistedJobs: the file holds something and lacks
\* no record of the seed. Only the identities are compared, not the versions.
shouldUsePersisted(r, base) ==
  /\ r \in config
  /\ HasRecords(r, Opened)
  /\ \A i \in Part(r) : base.rec[i] # 0 => Opened[i] # 0

\* Wrong: a restart forgets the receipts.
ForgottenReceipts(base) == <<>>
\* The app's list starts with the receipts the snapshot kept.
RestoredReceipts(base) == base.receipts

\* initialRuntimeSeed
initialRuntimeSeed ==
  LET base == BaseSeed
  IN  [events |-> recoverAppendOnlyAuditEvents(base),
       rec |-> [i \in Id |->
                  IF shouldUsePersisted(IF i \in GraphId THEN "graph" ELSE "job", base)
                  THEN Opened[i] ELSE base.rec[i]],
       receipts |-> RestoredReceipts(base)]

\* seedEmptyRuntimeRepositories writes the seed to a repository that was empty.
ToSeed(r, seed) ==
  IF r \in config /\ ~HasRecords(r, Opened) THEN {i \in Part(r) : seed.rec[i] # 0} ELSE {}

Seeded(records, written, seed) == [i \in Id |-> IF i \in written THEN seed.rec[i] ELSE records[i]]

Startable == ~up /\ ("audit" \in config => AuditFileReadable)

\* initialAuditEvents: the recorder follows the snapshot if there is one, else the file.
initialAuditEvents(seed) ==
  IF "state" \in config THEN seed.events
  ELSE IF "audit" \in config THEN disk.audit ELSE seed.events

\* createRebacLocalApp, with the seeds all written. A file with an unreadable line
\* makes listAuditEvents throw: the app cannot be created.
Start ==
  LET seed == initialRuntimeSeed
      written == ToSeed("graph", seed) \cup ToSeed("job", seed)
  IN  /\ Startable
      /\ up' = TRUE
      /\ store' = seed
      /\ recorder' = initialAuditEvents(seed)
      /\ receipts' = seed.receipts
      /\ repo' = Seeded(Opened, written, seed)
      /\ disk' = [disk EXCEPT !.rec = Seeded(@, written, seed)]
      /\ UNCHANGED <<config, todo, cur, syncs, clock, crashes, failures, acked, undone, halfSeeded>>

\* One write of a seed fails: the rest of that repository is not seeded. The record
\* that failed stays in the repository's memory.
StartDegraded(r) ==
  LET seed == initialRuntimeSeed
      other == ToSeed(IF r = "graph" THEN "job" ELSE "graph", seed)
  IN  /\ Startable
      /\ IoFailure
      /\ \E failing \in ToSeed(r, seed) : \E done \in SUBSET (ToSeed(r, seed) \ {failing}) :
            /\ repo' = Seeded(Opened, other \cup done \cup {failing}, seed)
            /\ disk' = [disk EXCEPT !.rec = Seeded(@, other \cup done, seed)]
      /\ up' = TRUE
      /\ halfSeeded' = halfSeeded \cup {r}
      /\ receipts' = recordPersistenceDegradation(seed.receipts, r)
      /\ store' = [seed EXCEPT !.receipts = receipts']
      /\ recorder' = initialAuditEvents(seed)
      /\ UNCHANGED <<config, todo, cur, syncs, clock, crashes, acked, undone>>

\* The process ends while it seeds the repositories, the graph before the jobs.
CrashWhileSeeding ==
  LET seed == initialRuntimeSeed
      graph == ToSeed("graph", seed)
      all == graph \cup ToSeed("job", seed)
  IN  /\ Startable
      /\ crashes < MaxCrashes
      /\ crashes' = crashes + 1
      /\ \E done \in SUBSET all :
            /\ done # {} /\ done # all
            /\ done \cap JobId # {} => graph \subseteq done
            /\ disk' = [disk EXCEPT !.rec = Seeded(@, done, seed)]
            /\ halfSeeded' = halfSeeded \cup (IF graph \subseteq done THEN {"job"} ELSE {"graph"})
      /\ UNCHANGED <<config, up, todo, cur, syncs, store, recorder, receipts, repo, clock, failures,
                     acked, undone>>

-----------------------------------------------------------------------------
Init ==
  /\ config \in Configs
  /\ up = FALSE /\ todo = <<>> /\ cur = None /\ syncs = {}
  /\ store = EmptyStore /\ recorder = <<>> /\ receipts = <<>> /\ repo = Absent
  /\ disk = [audit |-> <<>>, torn |-> FALSE, state |-> None, rec |-> Absent]
  /\ clock = 1 /\ crashes = 0 /\ failures = 0
  /\ acked = [events |-> {}, rec |-> FallbackSeed, gone |-> Absent]
  /\ undone = Absent /\ halfSeeded = {}

Next ==
  \/ \E h \in Handler : Handle(h)
  \/ \E ids \in SUBSET (GraphId \ NativeGrant) : StartSync(ids)
  \/ \E copy \in syncs, run \in RunId, grants, withdrawn \in SUBSET NativeGrant, complete \in BOOLEAN :
        FinishSync(copy, run, grants, withdrawn, complete)
  \/ appendAuditEvent
  \/ persistStoreSnapshot
  \/ \E r \in {"graph", "job"} : persistRecord(r) \/ StartDegraded(r)
  \/ Answer
  \/ Crash
  \/ Start
  \/ CrashWhileSeeding

Spec == Init /\ [][Next]_vars

-----------------------------------------------------------------------------
(* Properties *)

Receipts == UNION {[1..n -> {"audit", "state", "graph", "job"}] : n \in 0..MaxReceipts}
Events == UNION {[1..n -> Event] : n \in 0..MaxEvents}
Versions == [Id -> 0..MaxEvents + 1]
Store == [events : Events, rec : Versions, receipts : Receipts]

\* The state of the store, the recorder, the repositories and the files is well formed,
\* and no list of receipts is longer than MAX_PERSISTENCE_DEGRADATIONS.
TypeOK ==
  /\ config \in Configs /\ up \in BOOLEAN
  /\ todo \in UNION {[1..n -> {"audit", "state"} \cup Id] : n \in 0..Cardinality(GraphId) + 3}
  /\ syncs \subseteq Versions /\ undone \in Versions
  /\ store \in Store
  /\ recorder \in Events
  /\ receipts \in Receipts
  /\ repo \in Versions
  /\ disk.audit \in Events /\ disk.torn \in BOOLEAN /\ disk.rec \in Versions
  /\ disk.state \in Store \cup {None}
  /\ clock \in 1..MaxEvents + 1

\* With a snapshot and an audit file (recordAudit, recoverAppendOnlyAuditEvents) the file
\* never holds an event the runtime does not know: it is a prefix of the store's events,
\* whatever writes failed and wherever the process ended.
AuditFileNeverForks ==
  up /\ {"state", "audit"} \subseteq config => StartsWith(store.events, disk.audit)

\* Between handlers a difference between the audit file and the store's events is
\* announced: an audit receipt is in the list, or the list is full
\* (appendAuditEvent, recordPersistenceDegradation).
DivergenceIsReported ==
  up /\ cur = None /\ {"state", "audit"} \subseteq config /\ disk.audit # store.events =>
    \/ \E k \in 1..Len(receipts) : receipts[k] = "audit"
    \/ Len(receipts) = MaxReceipts

\* The events in memory verify as a hash chain (verifyAuditChain) after any failures and
\* restarts, and with a snapshot they are the recorder's.
RuntimeChainVerifies ==
  up => /\ verifyAuditChain(recorder)
        /\ "state" \in config => recorder = store.events

\* The audit file and the events in memory stay one history, or their difference is told.
AuditTrailIsSound == AuditFileNeverForks /\ DivergenceIsReported /\ RuntimeChainVerifies

\* An event whose handler was answered without a receipt is known after every restart, if
\* the app has a snapshot or an audit file.
AcknowledgedEventSurvives ==
  up /\ config \cap {"state", "audit"} # {} =>
    \A v \in acked.events : \E k \in 1..Len(recorder) : recorder[k].id = v

\* A record whose handler was answered without a receipt is never found in an older
\* version after a restart (initialRuntimeSeed chooses between the snapshot and the
\* files), and no record of the seed is missing, if there is a snapshot, or a file whose
\* first seeding was not cut short; unless a sync has since then withdrawn it from the
\* store or written an older copy of it, read before it awaited the connector, to the
\* graph file (persistConnectorDiscoveryGraph).
RecordSurvives ==
  up => \A r \in {"graph", "job"} :
    "state" \in config \/ (r \in config \ halfSeeded /\ ~InMemory) =>
      \A i \in Part(r) : store.rec[i] >= acked.rec[i] \/ undone[i] > acked.rec[i]

\* With a snapshot, a native grant whose withdrawal was answered without a receipt comes
\* back after a restart only out of the graph file, from which no sync removes anything
\* (replaceNativeGrantsForConnector, persistConnectorDiscoveryGraph, shouldUsePersistedGraph),
\* unless it was read again.
WithdrawnStaysAway ==
  up /\ "state" \in config =>
    \A i \in Id : acked.gone[i] # 0 =>
      store.rec[i] = 0 \/ store.rec[i] > acked.gone[i] \/ Opened[i] # 0

\* Where a restart finds what was answered without a receipt, and what it brings back.
AcknowledgedRecordSurvives == RecordSurvives /\ WithdrawnStaysAway

\* The same without the two exceptions. Neither holds: the graph file takes the older
\* copies that a sync has kept, and keeps the grants that a sync has withdrawn.
NewestRecordSurvives ==
  up /\ "state" \in config =>
    \A i \in GraphId \ NativeGrant : store.rec[i] >= acked.rec[i]
WithdrawalSurvives ==
  up /\ "state" \in config =>
    \A i \in Id : acked.gone[i] # 0 => store.rec[i] = 0 \/ store.rec[i] > acked.gone[i]

\* The audit file is an append-only chain of events (LocalAppendOnlyAuditRepository).
Ledger == INSTANCE AuditLedger WITH log <- disk.audit
ImplementsAuditLedger == Ledger!Spec
=============================================================================

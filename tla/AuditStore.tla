----------------------------- MODULE AuditStore -----------------------------
(***************************************************************************)
(* The production audit and evidence adapter (core/src/reference-audit*.ts) *)
(* over the append-only PostgreSQL store (persistence-postgres/src/        *)
(* audit-store.ts): audit records, evidence packages, signed windows, SIEM *)
(* deliveries and backups.                                                 *)
(*                                                                         *)
(* As in the snapshot store a process answers from its own copy and sends  *)
(* its writes to the database one after the other; the first that fails    *)
(* ends the chain. The hash of an event is the event and its predecessor,  *)
(* so records that are equal here have equal hashes and no others.         *)
(***************************************************************************)
EXTENDS Naturals, Sequences, FiniteSets, SequencesExt

CONSTANTS
  AuditProcess,  \* API processes on one tenant
  Event,         \* audit events, by identifier
  ExportId, WindowId, AuditBackupId,
  None,
  MaxTime,       \* bound: the clock
  MaxDeliveries, \* bound: SIEM deliveries
  MaxQueued,     \* bound: writes waiting in one process
  MaxStarts      \* bound: restarts

VARIABLES
  mem,       \* mem[p]: #auditRecords, #evidenceRecords, #signedWindows, #siemDeliveries, #backupMetadata
  kept,      \* kept[p]: #backups
  chain,     \* chain[p]: the writes of #writeQueue
  rejected,  \* rejected[p]: #writeQueue is rejected
  phase,     \* phase[p]: "down", "hydrating" between the queries of #hydrate, "up"
  dbLog,     \* the rows of the audit records
  db,        \* the rows of the other tables
  dbKept,    \* the rows of the backups
  clock, starts,
  alone      \* only one process is run

auditVars == <<mem, kept, chain, rejected, phase, dbLog, db, dbKept, clock, starts, alone>>

Rest(m) == [evidence |-> m.evidence, windows |-> m.windows, siem |-> m.siem, listed |-> m.listed]
NoRest == [evidence |-> {}, windows |-> {}, siem |-> {}, listed |-> {}]
WithLog(log, rest) ==
  [log |-> log, evidence |-> rest.evidence, windows |-> rest.windows, siem |-> rest.siem, listed |-> rest.listed]

---------------------------------------------------------------------------
(* reference-audit-integrity.ts *)

\* The event at the end of the log.
LastEvent(log) == IF log = <<>> THEN None ELSE Last(log).event

\* The identifiers of these positions of the log, in their order: the pairs of one and one
\* that is not before it stand for the list.
EventIds(log, selected) == {<<log[x[1]].event, log[x[2]].event>> : x \in {y \in selected \X selected : y[1] <= y[2]}}

\* The events of a period as signedWindowFindings selects them.
RetainedEvents(log, w) == {n \in DOMAIN log : log[n].at >= w.start /\ log[n].at <= w.end}

\* auditRecordFindings: identifiers are not repeated, sequences are those of the order.
auditRecordFindings(log) ==
  {r \in ToSet(log) : \E n \in DOMAIN log : log[n] = r /\
     (r.sequence # n \/ \E k \in 1..n - 1 : log[k].event = r.event)}
\* signedWindowFindings: the window still names the events of its period.
signedWindowFindings(windows, log) == {w \in windows : w.events # EventIds(log, RetainedEvents(log, w))}
\* siemDeliveryFindings: the delivery names the events of a signed window. Operational
\* failures are findings of verifyIntegrity only.
siemDeliveryFindings(siem, windows) ==
  {d \in siem : ~\E w \in windows : w.id = d.window /\ w.events = d.events}
\* Wrong: a replay settles the failure, whatever becomes of it.
failuresNotReplayed(siem) ==
  {d \in siem : d.status = "failed" /\ d.replayOf = None /\ ~\E e \in siem : e.replayOf = d.id}
operationalFailures(siem) ==
  {d \in siem : d.status = "failed" /\ ~\E e \in siem : e.replayOf = d.id /\ e.status = "delivered"}

\* validateStoreState and validateBackup
Valid(m) ==
  /\ auditRecordFindings(m.log) = {}
  /\ signedWindowFindings(m.windows, m.log) = {}
  /\ siemDeliveryFindings(m.siem, m.windows) = {}

\* verifyAuditChain
Linked(log) == \A n \in DOMAIN log : log[n].prev = IF n = 1 THEN None ELSE log[n - 1].event

\* verifyIntegrity
verifyIntegrity(m) == Valid(m) /\ operationalFailures(m.siem) = {} /\ Linked(m.log)

---------------------------------------------------------------------------
(* The operations: a change of the copy and a write in the chain.          *)

Up(p, n) == phase[p] = "up" /\ Len(chain[p]) + n <= MaxQueued

Apply(p, m, writes) ==
  /\ mem' = [mem EXCEPT ![p] = m]
  /\ chain' = [chain EXCEPT ![p] = @ \o writes]
  /\ UNCHANGED <<rejected, phase, dbLog, db, dbKept, clock, starts, alone>>

EnqueueWrite(table, row) == [table |-> table, row |-> row]

\* appendAuditEvent and appendAuditRecord: numbered and linked after the process's own copy.
\* An event tells itself when it occurred, which is not after it is appended.
AppendAuditEvent(p, e) ==
  \E occurredAt \in 0..clock :
    LET log == mem[p].log
        record == [sequence |-> Len(log) + 1, event |-> e, prev |-> LastEvent(log), at |-> occurredAt]
    IN  /\ Up(p, 1)
        /\ auditRecordFindings(log) = {}
        /\ e \notin {r.event : r \in ToSet(log)}
        /\ Apply(p, [mem[p] EXCEPT !.log = Append(@, record)], <<EnqueueWrite("log", record)>>)
        /\ UNCHANGED kept

\* writeEvidenceExport and appendEvidenceRecord
WriteEvidenceExport(p, x) ==
  /\ Up(p, 1)
  /\ x \notin mem[p].evidence
  /\ Apply(p, [mem[p] EXCEPT !.evidence = @ \cup {x}], <<EnqueueWrite("evidence", x)>>)
  /\ UNCHANGED kept

\* The events that signAuditWindow selects.
WindowEvents(log, start, end) == {n \in DOMAIN log : log[n].at >= start /\ log[n].at <= end}

\* signAuditWindow, of any period: also of one that is not over.
SignAuditWindow(p, id) ==
  /\ Up(p, 1)
  /\ auditRecordFindings(mem[p].log) = {}
  /\ id \notin {w.id : w \in mem[p].windows}
  /\ \E start, end \in 0..MaxTime :
       LET w == [id |-> id, start |-> start, end |-> end,
                 events |-> EventIds(mem[p].log, WindowEvents(mem[p].log, start, end))]
       IN  Apply(p, [mem[p] EXCEPT !.windows = @ \cup {w}], <<EnqueueWrite("windows", w)>>)
  /\ UNCHANGED kept

Deliver(p, d) ==
  /\ Up(p, 1)
  /\ Cardinality(mem[p].siem) < MaxDeliveries
  /\ d.id \notin {e.id : e \in mem[p].siem}
  /\ Apply(p, [mem[p] EXCEPT !.siem = @ \cup {d}], <<EnqueueWrite("siem", d)>>)
  /\ UNCHANGED kept

\* recordSiemDeliveryLogEntry: the identifier is that of the window and the time.
RecordSiemDelivery(p) ==
  /\ signedWindowFindings(mem[p].windows, mem[p].log) = {}
  /\ \E w \in mem[p].windows, outcome \in {"failed", "delivered"} :
       Deliver(p, [id |-> <<"delivery", w.id, clock>>, window |-> w.id, status |-> outcome,
                   events |-> w.events, replayOf |-> None])

\* replaySiemDeliveryLogEntry: a failed delivery again, with what it was to deliver.
Replayed(d, outcome) == [d EXCEPT !.id = <<"replay", d.id, clock>>, !.status = outcome, !.replayOf = d.id]
ReplaySiemDelivery(p) ==
  \E d \in mem[p].siem, outcome \in {"failed", "delivered"} :
    /\ d.status = "failed"
    /\ Deliver(p, Replayed(d, outcome))

\* Wrong: the metadata is written before the backup it lists.
MetadataFirst(p, b) ==
  LET m == [mem[p] EXCEPT !.listed = @ \cup {b}]
  IN  /\ Up(p, 2)
      /\ Valid(mem[p])
      /\ Apply(p, m, <<EnqueueWrite("listed", m.listed), EnqueueWrite("backup", [id |-> b, content |-> m])>>)
      /\ kept' = [kept EXCEPT ![p][b] = m]
\* createBackup: the backup, then the metadata that lists it.
CreateAuditBackup(p, b) ==
  LET m == [mem[p] EXCEPT !.listed = @ \cup {b}]
  IN  /\ Up(p, 2)
      /\ Valid(mem[p])
      /\ Apply(p, m, <<EnqueueWrite("backup", [id |-> b, content |-> m]), EnqueueWrite("listed", m.listed)>>)
      /\ kept' = [kept EXCEPT ![p][b] = m]

\* restoreBackup and restoreSnapshot; with one process running.
RestoreAuditBackup(p, b) ==
  /\ alone
  /\ Up(p, 1)
  /\ kept[p][b] # None
  /\ Valid(kept[p][b])
  /\ Apply(p, kept[p][b], <<EnqueueWrite("restore", kept[p][b])>>)
  /\ UNCHANGED kept

---------------------------------------------------------------------------
(* The database *)

\* The primary key and the unique event of access_kit_audit_records, and the primary keys
\* of the other append-only tables.
Conflicts(w) ==
  CASE w.table = "log" -> \E r \in dbLog : r.sequence = w.row.sequence \/ r.event = w.row.event
    [] w.table = "evidence" -> w.row \in db.evidence
    [] w.table \in {"windows", "siem"} -> w.row.id \in {r.id : r \in db[w.table]}
    [] OTHER -> FALSE

\* The next write of the chain is applied. A restore is one transaction.
PersistAudit(p) ==
  /\ phase[p] = "up" /\ chain[p] # <<>> /\ ~rejected[p]
  /\ LET w == Head(chain[p])
     IN  /\ ~Conflicts(w)
         /\ dbLog' = CASE w.table = "log" -> dbLog \cup {w.row}
                       [] w.table = "restore" -> ToSet(w.row.log)
                       [] OTHER -> dbLog
         /\ db' = CASE w.table \in {"evidence", "windows", "siem"} -> [db EXCEPT ![w.table] = @ \cup {w.row}]
                    [] w.table = "listed" -> [db EXCEPT !.listed = w.row]
                    [] w.table = "restore" -> Rest(w.row)
                    [] OTHER -> db
         /\ dbKept' = IF w.table = "backup" THEN [dbKept EXCEPT ![w.row.id] = w.row.content] ELSE dbKept
  /\ chain' = [chain EXCEPT ![p] = Tail(@)]
  /\ UNCHANGED <<mem, kept, rejected, phase, clock, starts, alone>>

\* Wrong: the chain goes on after a write that failed.
ChainGoesOn(p) ==
  /\ phase[p] = "up" /\ chain[p] # <<>>
  /\ chain' = [chain EXCEPT ![p] = Tail(@)]
  /\ UNCHANGED <<mem, kept, rejected, phase, dbLog, db, dbKept, clock, starts, alone>>
\* A write is refused or cannot be sent: nothing that is queued is sent any more.
PersistAuditFails(p) ==
  /\ phase[p] = "up" /\ chain[p] # <<>>
  /\ rejected' = [rejected EXCEPT ![p] = TRUE]
  /\ chain' = [chain EXCEPT ![p] = <<>>]
  /\ UNCHANGED <<mem, kept, phase, dbLog, db, dbKept, clock, starts, alone>>

\* assertSequenceContinuity on the rows in the order of their sequences.
Continuous(rows) == {r.sequence : r \in rows} = 1..Cardinality(rows)
InOrder(rows) == [n \in 1..Cardinality(rows) |-> CHOOSE r \in rows : r.sequence = n]

\* A process ends, if it runs, and starts: #hydrate reads the audit records first.
Start(p) ==
  /\ phase[p] = "down" \/ starts < MaxStarts
  /\ alone => \A q \in AuditProcess \ {p} : phase[q] = "down"
  /\ starts' = IF phase[p] = "down" THEN starts ELSE starts + 1
  /\ chain' = [chain EXCEPT ![p] = <<>>]
  /\ rejected' = [rejected EXCEPT ![p] = FALSE]
  /\ IF Continuous(dbLog)
     THEN /\ phase' = [phase EXCEPT ![p] = "hydrating"]
          /\ mem' = [mem EXCEPT ![p] = WithLog(InOrder(dbLog), NoRest)]
     ELSE /\ phase' = [phase EXCEPT ![p] = "refused"]
          /\ UNCHANGED mem
  /\ UNCHANGED <<kept, dbLog, db, dbKept, clock, alone>>

\* The other tables are read, and the adapter's constructor validates what was read.
Hydrate(p) ==
  LET m == WithLog(mem[p].log, db)
  IN  /\ phase[p] = "hydrating"
      /\ mem' = [mem EXCEPT ![p] = m]
      /\ kept' = [kept EXCEPT ![p] = dbKept]
      /\ phase' = [phase EXCEPT ![p] = IF Valid(m) THEN "up" ELSE "refused"]
      /\ UNCHANGED <<chain, rejected, dbLog, db, dbKept, clock, starts, alone>>

Tick ==
  /\ clock < MaxTime
  /\ clock' = clock + 1
  /\ UNCHANGED <<mem, kept, chain, rejected, phase, dbLog, db, dbKept, starts, alone>>

AuditInit ==
  /\ mem = [p \in AuditProcess |-> WithLog(<<>>, NoRest)]
  /\ kept = [p \in AuditProcess |-> [b \in AuditBackupId |-> None]]
  /\ chain = [p \in AuditProcess |-> <<>>]
  /\ rejected = [p \in AuditProcess |-> FALSE]
  /\ phase = [p \in AuditProcess |-> "down"]
  /\ dbLog = {}
  /\ db = NoRest
  /\ dbKept = [b \in AuditBackupId |-> None]
  /\ clock = 0
  /\ starts = 0
  /\ alone \in BOOLEAN

AuditNext ==
  \/ \E p \in AuditProcess :
       \/ \E e \in Event : AppendAuditEvent(p, e)
       \/ \E x \in ExportId : WriteEvidenceExport(p, x)
       \/ \E id \in WindowId : SignAuditWindow(p, id)
       \/ RecordSiemDelivery(p) \/ ReplaySiemDelivery(p)
       \/ \E b \in AuditBackupId : CreateAuditBackup(p, b) \/ RestoreAuditBackup(p, b)
       \/ PersistAudit(p) \/ PersistAuditFails(p) \/ Start(p) \/ Hydrate(p)
  \/ Tick

AuditSpec == AuditInit /\ [][AuditNext]_auditVars

---------------------------------------------------------------------------

\* Whatever two processes append, however their writes interleave, conflict and get lost, the
\* rows of the audit log are numbered without a gap and each names the event of the row
\* before it (appendAuditRecord, #enqueue, assertSequenceContinuity).
DatabaseLogIsAChain == Continuous(dbLog) /\ Linked(InOrder(dbLog))

\* A window names the events of its period that were in the log when it was signed.
NamesItsPeriod(w, log) ==
  \E length \in 0..Len(log) : w.events = EventIds(log, {n \in RetainedEvents(log, w) : n <= length})
\* The events of its period that were appended since.
LateEvents(w, log) == {n \in RetainedEvents(log, w) : <<log[n].event, log[n].event>> \notin w.events}
Consistent(m) ==
  /\ auditRecordFindings(m.log) = {}
  /\ \A w \in m.windows : NamesItsPeriod(w, m.log)
  /\ siemDeliveryFindings(m.siem, m.windows) = {}

\* One process, stopped at any moment and restored from any backup, leaves rows that speak of
\* each other: a window names what its period held when it was signed, a delivery what a window
\* names. Its next start refuses them in one case only, which the code allows: an event was
\* appended into the period of a signed window (validateStoreState, #persistRestoreSnapshot).
OnlyLateEventsRefuse ==
  alone => /\ Consistent(WithLog(InOrder(dbLog), db))
           /\ \A p \in AuditProcess :
                /\ Consistent(mem[p])
                /\ phase[p] = "refused" => \E w \in mem[p].windows : LateEvents(w, mem[p].log) # {}

\* The rows of the audit records are one hash chain, whoever wrote them, and what one process
\* leaves in the other tables agrees with it: a start refuses nothing but a signed window
\* whose period got another event.
AuditRowsAreAChain == DatabaseLogIsAChain /\ OnlyLateEventsRefuse

\* A backup that the metadata row lists has a row of its own (createBackup: the backup is
\* written first), even after a crash or a failed write between the two.
ListedBackupIsStored == \A b \in db.listed : dbKept[b] # None

\* If the integrity report of a process is clean, a window that was delivered at all was
\* delivered once with success, and with the events it signs (siemDeliveryFindings).
VerifiedMeansDelivered ==
  \A p \in AuditProcess : phase[p] = "up" /\ verifyIntegrity(mem[p]) =>
    \A d \in mem[p].siem : \E e \in mem[p].siem, w \in mem[p].windows :
      e.window = d.window /\ e.status = "delivered" /\ w.id = d.window /\ e.events = w.events
=============================================================================

--------------------------- MODULE SnapshotStore ---------------------------
(***************************************************************************)
(* The PostgreSQL snapshot store                                           *)
(* (packages/persistence-postgres/src/snapshot-store.ts) under the         *)
(* adapters that keep a whole snapshot in it                               *)
(* (packages/core/src/reference-repositories.ts, reference-job-queue.ts).  *)
(*                                                                         *)
(* Every process has a mirror of the stored record. A write changes the    *)
(* mirror at once and is sent to the database later, one write after the   *)
(* other; after the first write that fails the rest of the promise chain   *)
(* is skipped. Reads are answered from the mirror, so the snapshot an      *)
(* adapter works on is its mirror.                                         *)
(***************************************************************************)
EXTENDS Naturals, Sequences

CONSTANTS
  Process,     \* API processes sharing one row of the snapshot table
  Update,      \* changes of entities: upserts, deletions, appended runs
  BackupId,
  NoRecord,    \* undefined: no row
  Guarded,     \* processes whose adapter writes by compare-exchange
  Flushers,    \* processes whose adapter is flushed
  MaxPending,  \* bound: writes waiting in one process
  MaxRestarts  \* bound: restarts of all processes

ASSUME SubsetAssumption == Guarded \subseteq Process /\ Flushers \subseteq Process
ASSUME BoundAssumption == MaxPending \in Nat /\ MaxRestarts \in Nat

VARIABLES
  current,     \* #current of each process
  backups,     \* #backups of each process
  writeQueue,  \* the writes not yet answered by the database
  failed,      \* #writeQueue is rejected
  status,      \* "hydrating" between the two queries of #hydrate
  dbCurrent,   \* the row of the current snapshot
  dbBackups,   \* the rows of the backups
  restarts

vars == <<current, backups, writeQueue, failed, status, dbCurrent, dbBackups, restarts>>

\* The snapshot, and the backups its metadata lists. storedAt is left out, so
\* two records may be equal here that the hash tells apart: the database may
\* then accept an exchange or refuse it.
Record == [updates : SUBSET Update, listed : SUBSET BackupId]
Stored == Record \cup {NoRecord}

ASSUME NoRecordAssumption == NoRecord \notin Record

\* A write in the promise chain. Only "exchange" uses expected, only "backup" id.
Write ==
  [kind : {"write"}, record : Record]
    \cup [kind : {"exchange"}, expected : Stored, record : Record]
    \cup [kind : {"backup"}, id : BackupId, record : Record]

Contents(stored) ==
  IF stored = NoRecord THEN [updates |-> {}, listed |-> {}] ELSE stored

-----------------------------------------------------------------------------
(* The store's interface *)

CanWrite(p, n) == status[p] = "open" /\ Len(writeQueue[p]) + n <= MaxPending

WriteCurrent(p, record) ==
  /\ current' = [current EXCEPT ![p] = record]
  /\ writeQueue' = [writeQueue EXCEPT ![p] = Append(@, [kind |-> "write", record |-> record])]

\* The exchange is decided on the mirror and accepted before the database sees it.
CompareExchangeCurrent(p, expected, record) ==
  /\ current[p] = expected
  /\ current' = [current EXCEPT ![p] = record]
  /\ writeQueue' = [writeQueue EXCEPT ![p] =
        Append(@, [kind |-> "exchange", expected |-> expected, record |-> record])]

-----------------------------------------------------------------------------
(* The adapters *)

With(stored, u) == [Contents(stored) EXCEPT !.updates = @ \cup {u}]

\* upsertX, recordX and deleteRelationship of the graph and connector-state
\* adapters: the cached snapshot with the change is written unconditionally.
UpsertEntity(p, u) ==
  /\ p \notin Guarded
  /\ CanWrite(p, 1)
  /\ WriteCurrent(p, With(current[p], u))
  /\ UNCHANGED <<backups, failed, status, dbCurrent, dbBackups, restarts>>

\* #commitSnapshot of the job queue: reads the mirror and exchanges it.
CommitSnapshot(p, u) ==
  /\ p \in Guarded
  /\ CanWrite(p, 1)
  /\ CompareExchangeCurrent(p, current[p], With(current[p], u))
  /\ UNCHANGED <<backups, failed, status, dbCurrent, dbBackups, restarts>>

Flush(p) ==
  /\ p \in Flushers
  /\ CanWrite(p, 1)
  /\ WriteCurrent(p, Contents(current[p]))
  /\ UNCHANGED <<backups, failed, status, dbCurrent, dbBackups, restarts>>

\* Two writes: the current record with the new metadata, then the backup.
CreateBackup(p, b) ==
  /\ CanWrite(p, 2)
  /\ LET record == [Contents(current[p]) EXCEPT !.listed = @ \cup {b}]
     IN  /\ current' = [current EXCEPT ![p] = record]
         /\ backups' = [backups EXCEPT ![p][b] = record]
         /\ writeQueue' = [writeQueue EXCEPT ![p] =
              @ \o <<[kind |-> "write", record |-> record],
                     [kind |-> "backup", id |-> b, record |-> record]>>]
  /\ UNCHANGED <<failed, status, dbCurrent, dbBackups, restarts>>

RestoreBackup(p, b) ==
  /\ CanWrite(p, 1)
  /\ backups[p][b] # NoRecord
  /\ WriteCurrent(p, backups[p][b])
  /\ UNCHANGED <<backups, failed, status, dbCurrent, dbBackups, restarts>>

-----------------------------------------------------------------------------
(* The database *)

\* Wrong: the write is sent without its condition.
AcceptsAnything(write) == TRUE

\* #persistCurrentConditional finds the row it expects. Other writes always apply.
Accepts(write) == write.kind = "exchange" => dbCurrent = write.expected

\* Wrong: writes are not chained, the database may run them in any order.
PersistInAnyOrder(p) ==
  /\ ~failed[p]
  /\ \E i \in DOMAIN writeQueue[p] :
       LET write == writeQueue[p][i]
       IN  /\ Accepts(write)
           /\ dbCurrent' = IF write.kind = "backup" THEN dbCurrent ELSE write.record
           /\ dbBackups' = IF write.kind = "backup"
                             THEN [dbBackups EXCEPT ![write.id] = write.record] ELSE dbBackups
           /\ writeQueue' = [writeQueue EXCEPT ![p] =
                [j \in 1..(Len(@) - 1) |-> IF j < i THEN @[j] ELSE @[j + 1]]]
  /\ UNCHANGED <<current, backups, failed, status, restarts>>

\* The next write of the chain is applied.
Persist(p) ==
  /\ ~failed[p]
  /\ writeQueue[p] # <<>>
  /\ LET write == Head(writeQueue[p])
     IN  /\ Accepts(write)
         /\ dbCurrent' = IF write.kind = "backup" THEN dbCurrent ELSE write.record
         /\ dbBackups' = IF write.kind = "backup"
                           THEN [dbBackups EXCEPT ![write.id] = write.record] ELSE dbBackups
  /\ writeQueue' = [writeQueue EXCEPT ![p] = Tail(@)]
  /\ UNCHANGED <<current, backups, failed, status, restarts>>

\* Wrong: the chain goes on after an error.
PersistFailsUnnoticed(p) ==
  /\ ~failed[p]
  /\ writeQueue[p] # <<>>
  /\ writeQueue' = [writeQueue EXCEPT ![p] = Tail(@)]
  /\ UNCHANGED <<current, backups, failed, status, dbCurrent, dbBackups, restarts>>

\* The next write throws: the row is not the expected one, or the query fails.
\* Nothing that is queued now or later is sent any more.
PersistFails(p) ==
  /\ ~failed[p]
  /\ writeQueue[p] # <<>>
  /\ failed' = [failed EXCEPT ![p] = TRUE]
  /\ writeQueue' = [writeQueue EXCEPT ![p] = <<>>]
  /\ UNCHANGED <<current, backups, status, dbCurrent, dbBackups, restarts>>

\* A write of a rejected chain is skipped.
Skip(p) ==
  /\ failed[p]
  /\ writeQueue[p] # <<>>
  /\ writeQueue' = [writeQueue EXCEPT ![p] = Tail(@)]
  /\ UNCHANGED <<current, backups, failed, status, dbCurrent, dbBackups, restarts>>

\* The process ends, with or without its pending writes, and starts again: the
\* new store reads the current row first and the backups after that.
Restart(p) ==
  /\ restarts < MaxRestarts
  /\ restarts' = restarts + 1
  /\ current' = [current EXCEPT ![p] = dbCurrent]
  /\ backups' = [backups EXCEPT ![p] = [b \in BackupId |-> NoRecord]]
  /\ writeQueue' = [writeQueue EXCEPT ![p] = <<>>]
  /\ failed' = [failed EXCEPT ![p] = FALSE]
  /\ status' = [status EXCEPT ![p] = "hydrating"]
  /\ UNCHANGED <<dbCurrent, dbBackups>>

HydrateBackups(p) ==
  /\ status[p] = "hydrating"
  /\ backups' = [backups EXCEPT ![p] = dbBackups]
  /\ status' = [status EXCEPT ![p] = "open"]
  /\ UNCHANGED <<current, writeQueue, failed, dbCurrent, dbBackups, restarts>>

-----------------------------------------------------------------------------
Init ==
  /\ current = [p \in Process |-> NoRecord]
  /\ backups = [p \in Process |-> [b \in BackupId |-> NoRecord]]
  /\ writeQueue = [p \in Process |-> <<>>]
  /\ failed = [p \in Process |-> FALSE]
  /\ status = [p \in Process |-> "hydrating"]
  /\ dbCurrent = NoRecord
  /\ dbBackups = [b \in BackupId |-> NoRecord]
  /\ restarts = 0

Next ==
  \E p \in Process :
    \/ \E u \in Update : UpsertEntity(p, u) \/ CommitSnapshot(p, u)
    \/ \E b \in BackupId : CreateBackup(p, b) \/ RestoreBackup(p, b)
    \/ Flush(p)
    \/ Persist(p)
    \/ PersistFails(p)
    \/ Skip(p)
    \/ Restart(p)
    \/ HydrateBackups(p)

Spec == Init /\ [][Next]_vars

\* The database answers every query.
FairSpec == Spec /\ \A p \in Process : WF_vars(Persist(p) \/ PersistFails(p) \/ Skip(p))

-----------------------------------------------------------------------------
(* Properties *)

\* Every variable has its type.
TypeOK ==
  /\ current \in [Process -> Stored]
  /\ backups \in [Process -> [BackupId -> Stored]]
  /\ writeQueue \in [Process -> Seq(Write)]
  /\ failed \in [Process -> BOOLEAN]
  /\ status \in [Process -> {"hydrating", "open"}]
  /\ dbCurrent \in Stored
  /\ dbBackups \in [BackupId -> Stored]
  /\ restarts \in 0..MaxRestarts

Updates(stored) == Contents(stored).updates

\* waitForPendingWrites resolves.
Drained(p) == writeQueue[p] = <<>> /\ ~failed[p]

\* For a process that is alone: when waitForPendingWrites resolves, the row
\* holds what the process shows its callers, after any mix of upserts,
\* flushes, backups, restores, errors and restarts.
DrainedIsCurrent == \A p \in Process : Drained(p) => dbCurrent = current[p]

\* When waitForPendingWrites resolves, every update that was accepted by this
\* process is in the row, whatever the other processes wrote.
DrainedIsDurable ==
  \A p \in Process : Drained(p) => Updates(current[p]) \subseteq Updates(dbCurrent)

\* An update in the row stays there. docs/persistence.md: "graph and
\* connector-state snapshots with hash-guarded compare-exchange writes".
DurableIsKept == [][Updates(dbCurrent) \subseteq Updates(dbCurrent')]_vars

\* An accepted update reaches the row, or the process fails for good, restarts
\* without it or restores an earlier snapshot.
AcceptedReachesDatabase ==
  \A p \in Process, u \in Update :
    u \in Updates(current[p]) ~>
      \/ u \in Updates(dbCurrent)
      \/ failed[p]
      \/ u \notin Updates(current[p])
=============================================================================

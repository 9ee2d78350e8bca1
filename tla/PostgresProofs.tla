--------------------------- MODULE PostgresProofs ---------------------------
(***************************************************************************)
(* Proofs about the two stores on a PostgreSQL database.                   *)
(*                                                                         *)
(* The snapshot store, for every number of processes, updates and          *)
(* restarts: a process that is alone never resolves waitForPendingWrites   *)
(* with a stale row, and guarded writers never lose an update that reached *)
(* the row.                                                                *)
(*                                                                         *)
(* The append-only audit store: what two processes that share its tables,  *)
(* or one that is restarted and restored, leave in the database. The       *)
(* argument follows the writes that a process has queued. Between the copy *)
(* that the process answers from and the rows there is a state of the      *)
(* store for every queued write, each the one before it with that write    *)
(* applied, and all of them are sound. The first is what the database      *)
(* holds or, with two processes, a part of it; a write that does not fit   *)
(* what the other process wrote conflicts with a key and ends the chain.   *)
(***************************************************************************)
EXTENDS SnapshotStore, AuditStore, SequenceTheorems, FiniteSetTheorems, TLAPS

-----------------------------------------------------------------------------
(* The snapshot store *)


-----------------------------------------------------------------------------
(* Types *)

\* A stored row has contents.
LEMMA ContentsType ==
  ASSUME NEW stored \in Stored
  PROVE  Contents(stored) \in Record
BY DEF Contents, Stored, Record

\* Adding an update gives a record that holds what was there.
LEMMA WithType ==
  ASSUME NEW stored \in Stored, NEW u \in Update
  PROVE  /\ With(stored, u) \in Record
         /\ Updates(stored) \subseteq Updates(With(stored, u))
<1>1. Contents(stored) \in Record
  BY ContentsType
<1>2. /\ With(stored, u) \in Record
      /\ With(stored, u).updates = Contents(stored).updates \cup {u}
  BY <1>1 DEF With, Record
<1>3. Updates(With(stored, u)) = With(stored, u).updates
  BY <1>2, NoRecordAssumption DEF Updates, Contents
<1>. QED
  BY <1>2, <1>3 DEF Updates

\* The three kinds of write are writes.
LEMMA WriteTypes ==
  ASSUME NEW record \in Record
  PROVE  /\ [kind |-> "write", record |-> record] \in Write
         /\ \A expected \in Stored :
              [kind |-> "exchange", expected |-> expected, record |-> record] \in Write
         /\ \A b \in BackupId : [kind |-> "backup", id |-> b, record |-> record] \in Write
BY DEF Write

\* What a write in the chain holds.
LEMMA WriteFields ==
  ASSUME NEW write \in Write
  PROVE  /\ write.record \in Record
         /\ write.kind = "backup" => write.id \in BackupId
BY DEF Write

\* Init and every step keep the types.
LEMMA TypeStep ==
  /\ Init => TypeOK
  /\ TypeOK /\ [Next]_vars => TypeOK'
<1>1. Init => TypeOK
  BY BoundAssumption DEF Init, TypeOK, Stored
<1>2. ASSUME TypeOK, NEW p \in Process, NEW record \in Record, CanWrite(p, 1),
             WriteCurrent(p, record),
             UNCHANGED <<backups, failed, status, dbCurrent, dbBackups, restarts>>
      PROVE  TypeOK'
  BY <1>2, WriteTypes DEF TypeOK, WriteCurrent, Stored
<1>3. ASSUME TypeOK, NEW p \in Process, NEW u \in Update, CommitSnapshot(p, u)
      PROVE  TypeOK'
  <2>. DEFINE record == With(current[p], u)
  <2>1. current[p] \in Stored /\ record \in Record
    BY <1>3, WithType DEF TypeOK
  <2>2. [kind |-> "exchange", expected |-> current[p], record |-> record] \in Write
    BY <2>1, WriteTypes
  <2>3. /\ current' = [current EXCEPT ![p] = record]
        /\ writeQueue' = [writeQueue EXCEPT ![p] =
             Append(@, [kind |-> "exchange", expected |-> current[p], record |-> record])]
        /\ UNCHANGED <<backups, failed, status, dbCurrent, dbBackups, restarts>>
    BY <1>3 DEF CommitSnapshot, CompareExchangeCurrent
  <2>. HIDE DEF record
  <2>. QED
    BY <1>3, <2>1, <2>2, <2>3 DEF TypeOK, Stored
<1>4. ASSUME TypeOK, NEW p \in Process, NEW b \in BackupId, CreateBackup(p, b)
      PROVE  TypeOK'
  <2>. DEFINE record == [Contents(current[p]) EXCEPT !.listed = @ \cup {b}]
              added == <<[kind |-> "write", record |-> record],
                         [kind |-> "backup", id |-> b, record |-> record]>>
  <2>1. Contents(current[p]) \in Record
    BY <1>4, ContentsType DEF TypeOK
  <2>2. record \in Record
    BY <2>1 DEF Record
  <2>3. added \in Seq(Write)
    <3>1. /\ [kind |-> "write", record |-> record] \in Write
          /\ [kind |-> "backup", id |-> b, record |-> record] \in Write
      BY <2>2, WriteTypes
    <3>. HIDE DEF record
    <3>. QED
      BY <3>1
  <2>4. /\ current' = [current EXCEPT ![p] = record]
        /\ backups' = [backups EXCEPT ![p][b] = record]
        /\ writeQueue' = [writeQueue EXCEPT ![p] = writeQueue[p] \o added]
        /\ UNCHANGED <<failed, status, dbCurrent, dbBackups, restarts>>
    BY <1>4 DEF CreateBackup
  <2>. HIDE DEF added, record
  <2>5. writeQueue[p] \o added \in Seq(Write)
    BY <1>4, <2>3, ConcatProperties DEF TypeOK
  <2>. QED
    BY <1>4, <2>2, <2>4, <2>5 DEF TypeOK, Stored
<1>5. ASSUME TypeOK, NEW p \in Process, NEW b \in BackupId, RestoreBackup(p, b)
      PROVE  TypeOK'
  <2>1. backups[p][b] \in Record
    BY <1>5 DEF TypeOK, RestoreBackup, Stored
  <2>. QED
    BY <1>5, <1>2, <2>1 DEF RestoreBackup
<1>6. ASSUME TypeOK, NEW p \in Process, Persist(p)
      PROVE  TypeOK'
  <2>1. /\ Head(writeQueue[p]) \in Write /\ Tail(writeQueue[p]) \in Seq(Write)
    BY <1>6, HeadTailProperties DEF TypeOK, Persist
  <2>. QED
    BY <1>6, <2>1, WriteFields DEF TypeOK, Persist, Stored
<1>7. ASSUME TypeOK, NEW p \in Process, PersistFails(p)
      PROVE  TypeOK'
  BY <1>7 DEF TypeOK, PersistFails
<1>8. ASSUME TypeOK, NEW p \in Process, Skip(p)
      PROVE  TypeOK'
  <2>1. Tail(writeQueue[p]) \in Seq(Write)
    BY <1>8, HeadTailProperties DEF TypeOK, Skip
  <2>. QED
    BY <1>8, <2>1 DEF TypeOK, Skip
<1>9. ASSUME TypeOK, NEW p \in Process, Restart(p) \/ HydrateBackups(p)
      PROVE  TypeOK'
  <2>1. [b \in BackupId |-> NoRecord] \in [BackupId -> Stored]
    BY DEF Stored
  <2>2. CASE Restart(p)
    <3>1. restarts' \in 0..MaxRestarts
      BY <1>9, <2>2, BoundAssumption DEF TypeOK, Restart
    <3>. QED
      BY <1>9, <2>1, <2>2, <3>1 DEF TypeOK, Restart
  <2>3. CASE HydrateBackups(p)
    BY <1>9, <2>3 DEF TypeOK, HydrateBackups
  <2>. QED
    BY <1>9, <2>2, <2>3
<1>10. ASSUME TypeOK, NEW p \in Process, NEW u \in Update, UpsertEntity(p, u)
       PROVE  TypeOK'
  BY <1>10, <1>2, WithType DEF UpsertEntity, TypeOK
<1>11. ASSUME TypeOK, NEW p \in Process, Flush(p)
       PROVE  TypeOK'
  BY <1>11, <1>2, ContentsType DEF Flush, TypeOK
<1>12. ASSUME TypeOK, UNCHANGED vars
       PROVE  TypeOK'
  BY <1>12 DEF TypeOK, vars
<1>. QED
  BY <1>1, <1>3, <1>4, <1>5, <1>6, <1>7, <1>8, <1>9, <1>10, <1>11, <1>12 DEF Next

\* Every variable keeps its type.
THEOREM TypeCorrect == Spec => []TypeOK
BY TypeStep, PTL DEF Spec

-----------------------------------------------------------------------------
(* A process that is alone *)

\* The positions of the writes of the current record in a chain.
CurrentWrites(queue) == {i \in DOMAIN queue : queue[i].kind # "backup"}

\* The last of them, or the row if there is none, is what the mirror shows.
Leads(queue, stored, row) ==
  IF CurrentWrites(queue) = {}
    THEN row = stored
    ELSE \E i \in CurrentWrites(queue) :
           /\ \A j \in CurrentWrites(queue) : j <= i
           /\ queue[i].record = stored

AloneInv == TypeOK /\ \A p \in Process : ~failed[p] => Leads(writeQueue[p], current[p], dbCurrent)

\* Appending a write of the current record makes that record the leading one.
LEMMA LeadsAppend ==
  ASSUME NEW queue \in Seq(Write), NEW write \in Write, write.kind # "backup", NEW row
  PROVE  Leads(Append(queue, write), write.record, row)
<1>. DEFINE q2 == Append(queue, write)
            n == Len(queue) + 1
<1>1. DOMAIN q2 = 1..n /\ q2[n] = write /\ n \in Nat /\ n >= 1
  OBVIOUS
<1>. HIDE DEF q2
<1>2. n \in CurrentWrites(q2) /\ \A j \in CurrentWrites(q2) : j <= n
  BY <1>1 DEF CurrentWrites
<1>. QED
  BY <1>1, <1>2 DEF Leads, q2

\* Appending the write of a backup changes nothing.
LEMMA LeadsAppendBackup ==
  ASSUME NEW queue \in Seq(Write), NEW write \in Write, write.kind = "backup",
         NEW stored, NEW row, Leads(queue, stored, row)
  PROVE  Leads(Append(queue, write), stored, row)
<1>. DEFINE q2 == Append(queue, write)
            n == Len(queue) + 1
<1>1. /\ DOMAIN queue = 1..Len(queue) /\ Len(queue) \in Nat
      /\ DOMAIN q2 = 1..n /\ q2[n] = write
      /\ \A i \in DOMAIN queue : q2[i] = queue[i]
  OBVIOUS
<1>. HIDE DEF q2
<1>2. CurrentWrites(q2) = CurrentWrites(queue)
  BY <1>1 DEF CurrentWrites
<1>3. \A i \in CurrentWrites(queue) : q2[i] = queue[i]
  BY <1>1 DEF CurrentWrites
<1>. QED
  BY <1>2, <1>3 DEF Leads, q2

\* Applying the head of the chain keeps the leading record.
LEMMA LeadsTail ==
  ASSUME NEW queue \in Seq(Write), queue # <<>>, NEW stored, NEW row,
         Leads(queue, stored, row)
  PROVE  Leads(Tail(queue), stored,
               IF Head(queue).kind = "backup" THEN row ELSE Head(queue).record)
<1>. DEFINE q2 == Tail(queue)
            row2 == IF Head(queue).kind = "backup" THEN row ELSE Head(queue).record
<1>1. /\ Len(queue) \in Nat /\ Len(queue) >= 1 /\ DOMAIN queue = 1..Len(queue)
      /\ DOMAIN q2 = 1..(Len(queue) - 1)
      /\ \A i \in DOMAIN q2 : q2[i] = queue[i + 1]
      /\ Head(queue) = queue[1]
  BY HeadTailProperties
<1>. HIDE DEF q2
<1>2. \A i \in Nat : i \in CurrentWrites(q2) <=> i >= 1 /\ i + 1 \in CurrentWrites(queue)
  BY <1>1 DEF CurrentWrites
<1>3. CurrentWrites(q2) \subseteq Nat /\ CurrentWrites(queue) \subseteq Nat \ {0}
  BY <1>1 DEF CurrentWrites
<1>4. CASE CurrentWrites(queue) = {}
  <2>1. CurrentWrites(q2) = {} /\ Head(queue).kind = "backup"
    BY <1>1, <1>2, <1>3, <1>4 DEF CurrentWrites
  <2>. QED
    BY <1>4, <2>1 DEF Leads, q2
<1>5. CASE CurrentWrites(queue) # {}
  <2>1. PICK i \in CurrentWrites(queue) :
          (\A j \in CurrentWrites(queue) : j <= i) /\ queue[i].record = stored
    BY <1>5 DEF Leads
  <2>2. CASE i = 1
    <3>1. CurrentWrites(q2) = {}
      BY <1>2, <1>3, <2>1, <2>2
    <3>2. row2 = stored
      BY <1>1, <2>1, <2>2 DEF CurrentWrites
    <3>. QED
      BY <3>1, <3>2 DEF Leads, q2
  <2>3. CASE i # 1
    <3>1. i - 1 \in Nat /\ i - 1 >= 1 /\ (i - 1) + 1 = i
      BY <1>3, <2>1, <2>3
    <3>2. i - 1 \in CurrentWrites(q2)
      BY <1>2, <2>1, <3>1
    <3>3. q2[i - 1].record = stored
      BY <1>1, <2>1, <3>1, <3>2 DEF CurrentWrites
    <3>4. \A j \in CurrentWrites(q2) : j <= i - 1
      BY <1>2, <1>3, <2>1, <3>1
    <3>. QED
      BY <3>2, <3>3, <3>4 DEF Leads, q2
  <2>. QED
    BY <2>2, <2>3
<1>. QED
  BY <1>4, <1>5

\* When one process has the store to itself, waitForPendingWrites resolves only
\* with the row showing what the process shows: for any number of pending
\* writes, backups, restores, errors and restarts (#enqueue, #hydrate).
THEOREM AloneIsCurrent ==
  ASSUME NEW single, Process = {single}
  PROVE  Spec => []DrainedIsCurrent
<1>1. Init => AloneInv
  BY TypeStep DEF Init, AloneInv, Leads, CurrentWrites
<1>2. ASSUME AloneInv, [Next]_vars
      PROVE  AloneInv'
  <2>1. TypeOK /\ TypeOK'
    BY <1>2, TypeStep DEF AloneInv
  <2>2. /\ writeQueue[single] \in Seq(Write)
        /\ current[single] \in Stored
        /\ DOMAIN current = Process /\ DOMAIN writeQueue = Process /\ DOMAIN failed = Process
    BY <2>1 DEF TypeOK
  <2>3. SUFFICES ASSUME ~failed'[single]
                 PROVE  Leads(writeQueue'[single], current'[single], dbCurrent')
    BY <2>1 DEF AloneInv
  <2>4. ~failed[single] => Leads(writeQueue[single], current[single], dbCurrent)
    BY <1>2 DEF AloneInv
  <2>5. ASSUME NEW record \in Record, WriteCurrent(single, record)
        PROVE  Leads(writeQueue'[single], current'[single], dbCurrent')
    <3>. DEFINE write == [kind |-> "write", record |-> record]
    <3>1. write \in Write /\ write.kind # "backup" /\ write.record = record
      BY WriteTypes
    <3>2. current'[single] = record /\ writeQueue'[single] = Append(writeQueue[single], write)
      BY <2>2, <2>5 DEF WriteCurrent
    <3>. HIDE DEF write
    <3>. QED
      BY <2>2, <3>1, <3>2, LeadsAppend
  <2>6. ASSUME NEW u \in Update, UpsertEntity(single, u)
        PROVE  Leads(writeQueue'[single], current'[single], dbCurrent')
    BY <2>2, <2>5, <2>6, WithType DEF UpsertEntity
  <2>7. ASSUME NEW u \in Update, CommitSnapshot(single, u)
        PROVE  Leads(writeQueue'[single], current'[single], dbCurrent')
    <3>. DEFINE record == With(current[single], u)
                write == [kind |-> "exchange", expected |-> current[single], record |-> record]
    <3>1. record \in Record
      BY <2>2, WithType
    <3>2. write \in Write /\ write.kind # "backup" /\ write.record = record
      BY <2>2, <3>1, WriteTypes
    <3>3. current'[single] = record /\ writeQueue'[single] = Append(writeQueue[single], write)
      BY <2>2, <2>7 DEF CommitSnapshot, CompareExchangeCurrent
    <3>. HIDE DEF write
    <3>. QED
      BY <2>2, <3>2, <3>3, LeadsAppend
  <2>8. ASSUME NEW b \in BackupId, CreateBackup(single, b)
        PROVE  Leads(writeQueue'[single], current'[single], dbCurrent')
    <3>. DEFINE record == [Contents(current[single]) EXCEPT !.listed = @ \cup {b}]
                write == [kind |-> "write", record |-> record]
                backup == [kind |-> "backup", id |-> b, record |-> record]
    <3>1. record \in Record
      BY <2>2, ContentsType DEF Record
    <3>2. /\ write \in Write /\ write.kind # "backup" /\ write.record = record
          /\ backup \in Write /\ backup.kind = "backup"
      BY <3>1, WriteTypes
    <3>3. /\ current'[single] = record
          /\ writeQueue'[single] = writeQueue[single] \o <<write, backup>>
      BY <2>2, <2>8 DEF CreateBackup
    <3>. HIDE DEF write, backup, record
    <3>4. writeQueue'[single] = Append(Append(writeQueue[single], write), backup)
      BY <2>2, <3>2, <3>3
    <3>5. Append(writeQueue[single], write) \in Seq(Write)
      BY <2>2, <3>2
    <3>6. Leads(Append(writeQueue[single], write), record, dbCurrent')
      BY <2>2, <3>2, LeadsAppend
    <3>. QED
      BY <3>2, <3>3, <3>4, <3>5, <3>6, LeadsAppendBackup
  <2>9. ASSUME NEW b \in BackupId, RestoreBackup(single, b)
        PROVE  Leads(writeQueue'[single], current'[single], dbCurrent')
    <3>1. backups[single][b] \in Record
      BY <2>1, <2>9 DEF RestoreBackup, TypeOK, Stored
    <3>. QED
      BY <2>5, <2>9, <3>1 DEF RestoreBackup
  <2>10. ASSUME Flush(single)
         PROVE  Leads(writeQueue'[single], current'[single], dbCurrent')
    BY <2>2, <2>5, <2>10, ContentsType DEF Flush
  <2>11. ASSUME Persist(single)
         PROVE  Leads(writeQueue'[single], current'[single], dbCurrent')
    <3>1. /\ writeQueue[single] # <<>> /\ ~failed[single]
          /\ writeQueue'[single] = Tail(writeQueue[single])
          /\ current' = current
          /\ dbCurrent' = IF Head(writeQueue[single]).kind = "backup"
                            THEN dbCurrent ELSE Head(writeQueue[single]).record
      BY <2>2, <2>11 DEF Persist
    <3>. QED
      BY <2>2, <2>4, <3>1, LeadsTail
  <2>12. ASSUME PersistFails(single) \/ Skip(single)
         PROVE  FALSE
    BY <2>2, <2>3, <2>12 DEF PersistFails, Skip
  <2>13. ASSUME Restart(single)
         PROVE  Leads(writeQueue'[single], current'[single], dbCurrent')
    BY <2>2, <2>13 DEF Restart, Leads, CurrentWrites
  <2>14. ASSUME HydrateBackups(single) \/ UNCHANGED vars
         PROVE  Leads(writeQueue'[single], current'[single], dbCurrent')
    BY <2>3, <2>4, <2>14 DEF HydrateBackups, vars
  <2>. QED
    BY <1>2, <2>6, <2>7, <2>8, <2>9, <2>10, <2>11, <2>12, <2>13, <2>14 DEF Next
<1>3. AloneInv => DrainedIsCurrent
  BY DEF AloneInv, DrainedIsCurrent, Drained, Leads, CurrentWrites
<1>. QED
  BY <1>1, <1>2, <1>3, PTL DEF Spec

-----------------------------------------------------------------------------
(* Guarded writers *)

\* Only exchanges are pending, each adds to what it expects, and the last one
\* is what the mirror shows; with nothing pending the mirror is in the row.
Chained(queue, stored, row) ==
  /\ \A i \in DOMAIN queue :
       queue[i].kind = "exchange" /\ Updates(queue[i].expected) \subseteq Updates(queue[i].record)
  /\ queue = <<>> => Updates(stored) \subseteq Updates(row)
  /\ queue # <<>> => queue[Len(queue)].record = stored

GuardedInv ==
  TypeOK /\ \A p \in Process : ~failed[p] => Chained(writeQueue[p], current[p], dbCurrent)

OnlyExchanges == Guarded = Process /\ Flushers = {} /\ BackupId = {}

\* A chain stays good while the row grows.
LEMMA ChainedMonotonic ==
  ASSUME NEW queue, NEW stored, NEW row, NEW row2,
         Chained(queue, stored, row), Updates(row) \subseteq Updates(row2)
  PROVE  Chained(queue, stored, row2)
BY DEF Chained

\* Applying the head of a chain: the row grows, and the rest is a good chain.
LEMMA ChainedTail ==
  ASSUME NEW queue \in Seq(Write), queue # <<>>, NEW stored, NEW row,
         Chained(queue, stored, row), Head(queue).expected = row
  PROVE  /\ Head(queue).kind = "exchange"
         /\ Updates(row) \subseteq Updates(Head(queue).record)
         /\ Chained(Tail(queue), stored, Head(queue).record)
<1>1. /\ Len(queue) \in Nat /\ Len(queue) >= 1 /\ DOMAIN queue = 1..Len(queue)
      /\ Tail(queue) \in Seq(Write)
      /\ Len(Tail(queue)) = Len(queue) - 1
      /\ DOMAIN Tail(queue) = 1..(Len(queue) - 1)
      /\ \A i \in DOMAIN Tail(queue) : Tail(queue)[i] = queue[i + 1]
      /\ Head(queue) = queue[1]
  BY HeadTailProperties
<1>2. 1 \in DOMAIN queue
  BY <1>1
<1>3. Head(queue).kind = "exchange" /\ Updates(row) \subseteq Updates(Head(queue).record)
  BY <1>1, <1>2 DEF Chained
<1>4. \A i \in DOMAIN Tail(queue) :
        /\ Tail(queue)[i].kind = "exchange"
        /\ Updates(Tail(queue)[i].expected) \subseteq Updates(Tail(queue)[i].record)
  BY <1>1 DEF Chained
<1>5. CASE Len(queue) = 1
  <2>1. Tail(queue) = <<>> /\ Head(queue).record = stored
    BY <1>1, <1>5, EmptySeq DEF Chained
  <2>. QED
    BY <1>3, <1>4, <2>1 DEF Chained
<1>6. CASE Len(queue) # 1
  <2>1. Tail(queue) # <<>> /\ Len(Tail(queue)) \in DOMAIN Tail(queue)
    <3>1. Len(queue) - 1 \in 1..(Len(queue) - 1)
      BY <1>1, <1>6
    <3>2. Len(Tail(queue)) # 0
      BY <1>1, <1>6
    <3>. QED
      BY <1>1, <3>1, <3>2, EmptySeq
  <2>2. Tail(queue)[Len(Tail(queue))] = queue[Len(queue)]
    BY <1>1, <2>1
  <2>. QED
    BY <1>3, <1>4, <2>1, <2>2 DEF Chained
<1>. QED
  BY <1>5, <1>6

\* Appending an exchange that adds to what it expects.
LEMMA ChainedAppend ==
  ASSUME NEW queue \in Seq(Write), NEW write \in Write, NEW stored, NEW row,
         Chained(queue, stored, row), write.kind = "exchange",
         Updates(write.expected) \subseteq Updates(write.record)
  PROVE  Chained(Append(queue, write), write.record, row)
<1>. DEFINE q2 == Append(queue, write)
            n == Len(queue) + 1
<1>1. /\ DOMAIN queue = 1..Len(queue) /\ Len(queue) \in Nat
      /\ DOMAIN q2 = 1..n /\ Len(q2) = n /\ q2[n] = write /\ q2 # <<>>
      /\ \A i \in DOMAIN queue : q2[i] = queue[i]
  OBVIOUS
<1>. HIDE DEF q2
<1>2. \A i \in DOMAIN q2 :
        q2[i].kind = "exchange" /\ Updates(q2[i].expected) \subseteq Updates(q2[i].record)
  <2>1. SUFFICES ASSUME NEW i \in DOMAIN q2
                 PROVE  q2[i].kind = "exchange"
                          /\ Updates(q2[i].expected) \subseteq Updates(q2[i].record)
    OBVIOUS
  <2>2. CASE i = n
    BY <1>1, <2>2
  <2>3. CASE i # n
    <3>1. i \in DOMAIN queue
      BY <1>1, <2>3
    <3>. QED
      BY <1>1, <3>1 DEF Chained
  <2>. QED
    BY <2>2, <2>3
<1>. QED
  BY <1>1, <1>2 DEF Chained, q2

\* A step of guarded writers only adds to the row and keeps every chain good.
LEMMA GuardedStep ==
  ASSUME OnlyExchanges, GuardedInv, [Next]_vars
  PROVE  GuardedInv' /\ Updates(dbCurrent) \subseteq Updates(dbCurrent')
<1>1. TypeOK /\ TypeOK'
  BY TypeStep DEF GuardedInv
<1>2. /\ DOMAIN current = Process /\ DOMAIN writeQueue = Process /\ DOMAIN failed = Process
      /\ \A p \in Process : writeQueue[p] \in Seq(Write) /\ current[p] \in Stored
  BY <1>1 DEF TypeOK
<1>3. \A p \in Process : ~failed[p] => Chained(writeQueue[p], current[p], dbCurrent)
  BY DEF GuardedInv
<1>4. ASSUME NEW p \in Process,
             \A q \in Process : q # p =>
               /\ writeQueue'[q] = writeQueue[q] /\ current'[q] = current[q]
               /\ failed'[q] = failed[q],
             Updates(dbCurrent) \subseteq Updates(dbCurrent'),
             ~failed'[p] => Chained(writeQueue'[p], current'[p], dbCurrent')
      PROVE  GuardedInv' /\ Updates(dbCurrent) \subseteq Updates(dbCurrent')
  BY <1>1, <1>3, <1>4, ChainedMonotonic DEF GuardedInv
<1>5. ASSUME NEW p \in Process, NEW u \in Update, CommitSnapshot(p, u)
      PROVE  GuardedInv' /\ Updates(dbCurrent) \subseteq Updates(dbCurrent')
  <2>. DEFINE record == With(current[p], u)
              write == [kind |-> "exchange", expected |-> current[p], record |-> record]
  <2>1. record \in Record /\ Updates(current[p]) \subseteq Updates(record)
    BY <1>2, WithType
  <2>2. /\ write \in Write /\ write.kind = "exchange"
        /\ write.expected = current[p] /\ write.record = record
    BY <1>2, <2>1, WriteTypes
  <2>3. /\ current' = [current EXCEPT ![p] = record]
        /\ writeQueue' = [writeQueue EXCEPT ![p] = Append(writeQueue[p], write)]
        /\ failed' = failed /\ dbCurrent' = dbCurrent
    BY <1>5 DEF CommitSnapshot, CompareExchangeCurrent
  <2>. HIDE DEF write, record
  <2>4. current'[p] = record /\ writeQueue'[p] = Append(writeQueue[p], write)
    BY <1>2, <2>3
  <2>5. ~failed'[p] => Chained(writeQueue'[p], current'[p], dbCurrent')
    BY <1>2, <1>3, <2>1, <2>2, <2>3, <2>4, ChainedAppend
  <2>. QED
    BY <1>2, <1>4, <2>3, <2>5
<1>6. ASSUME NEW p \in Process, Persist(p)
      PROVE  GuardedInv' /\ Updates(dbCurrent) \subseteq Updates(dbCurrent')
  <2>1. /\ ~failed[p] /\ writeQueue[p] # <<>> /\ Accepts(Head(writeQueue[p]))
        /\ dbCurrent' = IF Head(writeQueue[p]).kind = "backup"
                          THEN dbCurrent ELSE Head(writeQueue[p]).record
        /\ writeQueue' = [writeQueue EXCEPT ![p] = Tail(writeQueue[p])]
        /\ current' = current /\ failed' = failed
    BY <1>6 DEF Persist
  <2>2. Chained(writeQueue[p], current[p], dbCurrent)
    BY <1>3, <2>1
  <2>3. Head(writeQueue[p]) = writeQueue[p][1] /\ 1 \in DOMAIN writeQueue[p]
    BY <1>2, <2>1
  <2>4. Head(writeQueue[p]).expected = dbCurrent
    BY <2>1, <2>2, <2>3 DEF Chained, Accepts
  <2>5. /\ Head(writeQueue[p]).kind = "exchange"
        /\ Updates(dbCurrent) \subseteq Updates(Head(writeQueue[p]).record)
        /\ Chained(Tail(writeQueue[p]), current[p], Head(writeQueue[p]).record)
    BY <1>2, <2>1, <2>2, <2>4, ChainedTail
  <2>6. dbCurrent' = Head(writeQueue[p]).record /\ writeQueue'[p] = Tail(writeQueue[p])
    BY <1>2, <2>1, <2>5
  <2>. QED
    BY <1>2, <1>4, <2>1, <2>5, <2>6
<1>7. ASSUME NEW p \in Process, PersistFails(p) \/ Skip(p)
      PROVE  GuardedInv' /\ Updates(dbCurrent) \subseteq Updates(dbCurrent')
  BY <1>2, <1>4, <1>7 DEF PersistFails, Skip
<1>8. ASSUME NEW p \in Process, Restart(p)
      PROVE  GuardedInv' /\ Updates(dbCurrent) \subseteq Updates(dbCurrent')
  <2>1. /\ current'[p] = dbCurrent /\ writeQueue'[p] = <<>> /\ dbCurrent' = dbCurrent
        /\ \A q \in Process : q # p =>
             /\ writeQueue'[q] = writeQueue[q] /\ current'[q] = current[q]
             /\ failed'[q] = failed[q]
    BY <1>2, <1>8 DEF Restart
  <2>2. Chained(writeQueue'[p], current'[p], dbCurrent')
    BY <2>1 DEF Chained
  <2>. QED
    BY <1>4, <2>1, <2>2
<1>9. ASSUME UNCHANGED <<current, writeQueue, failed, dbCurrent>>
      PROVE  GuardedInv' /\ Updates(dbCurrent) \subseteq Updates(dbCurrent')
  BY <1>1, <1>3, <1>9 DEF GuardedInv
<1>10. ASSUME NEW p \in Process, HydrateBackups(p)
       PROVE  GuardedInv' /\ Updates(dbCurrent) \subseteq Updates(dbCurrent')
  BY <1>9, <1>10 DEF HydrateBackups
<1>11. \A p \in Process : /\ \A u \in Update : ~UpsertEntity(p, u)
                          /\ ~Flush(p)
  BY DEF OnlyExchanges, UpsertEntity, Flush
<1>12. CASE UNCHANGED vars
  BY <1>9, <1>12 DEF vars
<1>. QED
  BY <1>5, <1>6, <1>7, <1>8, <1>10, <1>11, <1>12 DEF Next, OnlyExchanges

\* Processes that only exchange never lose each other's updates: what reached
\* the row stays there, and a process whose waitForPendingWrites resolves has
\* all its accepted updates in the row (compareExchangeCurrent,
\* #persistCurrentConditional).
THEOREM GuardedIsDurable ==
  ASSUME OnlyExchanges
  PROVE  Spec => DurableIsKept /\ []DrainedIsDurable
<1>1. Init => GuardedInv
  BY TypeStep DEF Init, GuardedInv, Chained
<1>2. GuardedInv /\ [Next]_vars => GuardedInv'
  BY GuardedStep
<1>3. GuardedInv /\ [Next]_vars => [Updates(dbCurrent) \subseteq Updates(dbCurrent')]_vars
  BY GuardedStep
<1>4. GuardedInv => DrainedIsDurable
  BY DEF GuardedInv, DrainedIsDurable, Drained, Chained
<1>. QED
  BY <1>1, <1>2, <1>3, <1>4, PTL DEF Spec, DurableIsKept

-----------------------------------------------------------------------------
(* The audit store *)


-----------------------------------------------------------------------------
(* Logs *)

LogRecord == [sequence : Nat, event : Event, prev : Event \cup {None}, at : Nat]

\* The records of a log are numbered, each names the one before it and no event is there twice.
IsChain(log) ==
  /\ log \in Seq(LogRecord)
  /\ \A n \in 1..Len(log) : log[n].sequence = n
  /\ \A n \in 1..Len(log) : log[n].prev = IF n = 1 THEN None ELSE log[n - 1].event
  /\ \A m, n \in 1..Len(log) : log[m].event = log[n].event => m = n

LEMMA Elements == ASSUME NEW T, NEW s \in Seq(T) PROVE ToSet(s) = {s[n] : n \in 1..Len(s)}
BY DEF ToSet

\* The rows of a log and the log that the rows give in the order of their sequences.
LEMMA ChainRows ==
  ASSUME NEW log, IsChain(log)
  PROVE  /\ Continuous(ToSet(log))
         /\ InOrder(ToSet(log)) = log
         /\ Linked(log)
<1>. DEFINE rows == ToSet(log)
<1>1. log \in Seq(LogRecord) /\ Len(log) \in Nat /\ DOMAIN log = 1..Len(log)
  BY DEF IsChain
<1>2. rows = {log[n] : n \in 1..Len(log)}
  BY <1>1, Elements
<1>3. \A n \in 1..Len(log) : log[n].sequence = n
  BY DEF IsChain
<1>. HIDE DEF rows
<1>4. IsFiniteSet(rows) /\ Cardinality(rows) = Len(log)
  <2>. DEFINE f == [n \in 1..Len(log) |-> log[n]]
  <2>1. f \in Bijection(1..Len(log), rows)
    BY <1>2, <1>3 DEF Bijection, Injection, Surjection, IsInjective
  <2>. HIDE DEF f
  <2>2. IsFiniteSet(1..Len(log)) /\ Cardinality(1..Len(log)) = Len(log)
    BY <1>1, FS_Interval
  <2>3. ExistsBijection(1..Len(log), rows)
    BY <2>1 DEF ExistsBijection
  <2>. QED
    BY <2>2, <2>3, FS_Bijection
<1>5. {r.sequence : r \in rows} = 1..Len(log)
  BY <1>2, <1>3
<1>6. ASSUME NEW n \in 1..Len(log)
      PROVE  (CHOOSE r \in rows : r.sequence = n) = log[n]
  <2>1. \A r \in rows : r.sequence = n => r = log[n]
    BY <1>2, <1>3
  <2>2. log[n] \in rows /\ log[n].sequence = n
    BY <1>2, <1>3
  <2>. QED
    BY <2>1, <2>2
<1>7. InOrder(rows) = [n \in 1..Len(log) |-> log[n]]
  BY <1>4, <1>6 DEF InOrder
<1>8. InOrder(rows) = log
  BY <1>1, <1>7
<1>9. Linked(log)
  BY <1>1 DEF IsChain, Linked
<1>. QED
  BY <1>4, <1>5, <1>8, <1>9 DEF Continuous, rows

LEMMA EmptyChain == IsChain(<<>>) /\ ToSet(<<>>) = {}
BY DEF IsChain, ToSet

LEMMA LongerChain ==
  ASSUME NEW log, IsChain(log), NEW r \in LogRecord, r.sequence = Len(log) + 1, r.prev = LastEvent(log),
         \A x \in ToSet(log) : x.event # r.event
  PROVE  IsChain(Append(log, r)) /\ ToSet(Append(log, r)) = ToSet(log) \cup {r}
<1>. DEFINE longer == Append(log, r)
<1>1. log \in Seq(LogRecord) /\ Len(log) \in Nat /\ ToSet(log) = {log[n] : n \in 1..Len(log)}
  BY Elements DEF IsChain
<1>2. /\ longer \in Seq(LogRecord) /\ Len(longer) = Len(log) + 1
      /\ longer[Len(log) + 1] = r /\ \A n \in 1..Len(log) : longer[n] = log[n]
      /\ \A n \in 1..Len(longer) : n \in 1..Len(log) \/ n = Len(log) + 1
  BY <1>1
<1>3. ToSet(longer) = {longer[n] : n \in 1..Len(longer)}
  BY <1>2, Elements
<1>. HIDE DEF longer
<1>4. \A n \in 1..Len(longer) : longer[n].sequence = n
  BY <1>2 DEF IsChain
<1>5. \A n \in 1..Len(longer) : longer[n].prev = IF n = 1 THEN None ELSE longer[n - 1].event
  <2>1. \A n \in 1..Len(log) : longer[n].prev = IF n = 1 THEN None ELSE longer[n - 1].event
    BY <1>1, <1>2 DEF IsChain
  <2>2. r.prev = IF Len(log) = 0 THEN None ELSE log[Len(log)].event
    BY <1>1 DEF LastEvent, Last
  <2>3. longer[Len(log) + 1].prev = IF Len(log) + 1 = 1 THEN None ELSE longer[(Len(log) + 1) - 1].event
    BY <1>1, <1>2, <2>2
  <2>. QED
    BY <1>2, <2>1, <2>3
<1>6. \A m, n \in 1..Len(longer) : longer[m].event = longer[n].event => m = n
  <2>1. \A n \in 1..Len(log) : log[n].event # r.event
    BY <1>1
  <2>. QED
    BY <1>2, <2>1 DEF IsChain
<1>7. ToSet(longer) = ToSet(log) \cup {r}
  <2>1. \A n \in 1..Len(log) : n \in 1..Len(longer)
    BY <1>1, <1>2
  <2>2. Len(log) + 1 \in 1..Len(longer)
    BY <1>1, <1>2
  <2>. QED
    BY <1>1, <1>2, <1>3, <2>1, <2>2
<1>. QED
  BY <1>2, <1>4, <1>5, <1>6, <1>7 DEF IsChain, longer

\* A record that continues a log of which all rows are in the table, and that conflicts with no
\* row, continues the rows of the table: there are no others.
LEMMA NoOtherRows ==
  ASSUME NEW part, NEW whole, NEW r, IsChain(part), IsChain(whole), ToSet(part) \subseteq ToSet(whole),
         r.sequence = Len(part) + 1, \A x \in ToSet(whole) : x.sequence # r.sequence
  PROVE  part = whole
<1>1. /\ part \in Seq(LogRecord) /\ Len(part) \in Nat /\ ToSet(part) = {part[n] : n \in 1..Len(part)}
      /\ \A n \in 1..Len(part) : part[n].sequence = n
  BY Elements DEF IsChain
<1>2. /\ whole \in Seq(LogRecord) /\ Len(whole) \in Nat /\ ToSet(whole) = {whole[n] : n \in 1..Len(whole)}
      /\ \A n \in 1..Len(whole) : whole[n].sequence = n
  BY Elements DEF IsChain
<1>3. \A n \in 1..Len(part) : n \in 1..Len(whole) /\ part[n] = whole[n]
  <2>. SUFFICES ASSUME NEW n \in 1..Len(part) PROVE n \in 1..Len(whole) /\ part[n] = whole[n]
    OBVIOUS
  <2>1. PICK m \in 1..Len(whole) : part[n] = whole[m]
    BY <1>1, <1>2
  <2>2. m = n
    BY <1>1, <1>2, <2>1
  <2>. QED
    BY <2>1, <2>2
<1>4. ~(Len(part) + 1 \in 1..Len(whole))
  <2>. SUFFICES ASSUME Len(part) + 1 \in 1..Len(whole) PROVE FALSE
    OBVIOUS
  <2>1. whole[Len(part) + 1] \in ToSet(whole) /\ whole[Len(part) + 1].sequence = r.sequence
    BY <1>2
  <2>. QED
    BY <2>1
<1>5. Len(part) <= Len(whole)
  BY <1>1, <1>2, <1>3
<1>6. Len(part) = Len(whole)
  BY <1>1, <1>2, <1>4, <1>5
<1>. QED
  BY <1>1, <1>2, <1>3, <1>6

LEMMA ChainHasNoFindings == ASSUME NEW log, IsChain(log) PROVE auditRecordFindings(log) = {}
<1>1. log \in Seq(LogRecord) /\ Len(log) \in Nat /\ DOMAIN log = 1..Len(log)
  BY DEF IsChain
<1>2. ASSUME NEW n \in 1..Len(log)
      PROVE  log[n].sequence = n /\ ~\E k \in 1..n - 1 : log[k].event = log[n].event
  <2>1. \A k \in 1..n - 1 : k \in 1..Len(log) /\ k # n
    BY <1>1
  <2>. QED
    BY <2>1 DEF IsChain
<1>. QED
  BY <1>1, <1>2 DEF auditRecordFindings


-----------------------------------------------------------------------------
(* States of the store *)

IsState(m) ==
  m = [log |-> m.log, evidence |-> m.evidence, windows |-> m.windows, siem |-> m.siem, listed |-> m.listed]

IsDelivery(d) ==
  /\ d = [id |-> d.id, window |-> d.window, status |-> d.status, events |-> d.events, replayOf |-> d.replayOf]
  /\ d.status \in {"failed", "delivered"}
  /\ \E kind, of, at : d.id = <<kind, of, at>>

\* No two deliveries have the same identifier, and what a replay repeats is there, for the
\* same window.
Traced(siem) ==
  /\ \A d \in siem : IsDelivery(d)
  /\ \A d, e \in siem : d.id = e.id => d = e
  /\ \A e \in siem : e.replayOf = None \/ \E d \in siem : d.id = e.replayOf /\ d.window = e.window

\* What every state of a store satisfies, and what it satisfies besides with one process.
Sound(m) == IsState(m) /\ IsChain(m.log) /\ Traced(m.siem)
Fits(m) == (\A w \in m.windows : NamesItsPeriod(w, m.log)) /\ siemDeliveryFindings(m.siem, m.windows) = {}
Good(m) == Sound(m) /\ (alone => Fits(m))

LEMMA FitsIsConsistent == ASSUME NEW m, IsChain(m.log) PROVE Consistent(m) <=> Fits(m)
BY ChainHasNoFindings DEF Consistent, Fits

\* A window that names all the events of its period names those that were there.
LEMMA ValidFits == ASSUME NEW m, IsChain(m.log), Valid(m) PROVE Fits(m)
<1>1. Len(m.log) \in Nat /\ DOMAIN m.log = 1..Len(m.log)
  BY DEF IsChain
<1>2. ASSUME NEW w \in m.windows
      PROVE  NamesItsPeriod(w, m.log)
  <2>1. w.events = EventIds(m.log, RetainedEvents(m.log, w))
    BY <1>2 DEF Valid, signedWindowFindings
  <2>2. {n \in RetainedEvents(m.log, w) : n <= Len(m.log)} = RetainedEvents(m.log, w)
    BY <1>1 DEF RetainedEvents
  <2>3. Len(m.log) \in 0..Len(m.log)
    BY <1>1
  <2>. QED
    BY <2>1, <2>2, <2>3 DEF NamesItsPeriod
<1>. QED
  BY <1>2 DEF Valid, Fits

\* The rest that a start refuses: a signed window with a later event in its period.
LEMMA RefusedForLateEvents ==
  ASSUME NEW m, IsChain(m.log), Fits(m), ~Valid(m)
  PROVE  \E w \in m.windows : LateEvents(w, m.log) # {}
<1>1. Len(m.log) \in Nat /\ DOMAIN m.log = 1..Len(m.log)
  BY DEF IsChain
<1>2. PICK w \in m.windows : w.events # EventIds(m.log, RetainedEvents(m.log, w))
  BY ChainHasNoFindings DEF Valid, Fits, signedWindowFindings
<1>3. PICK length \in 0..Len(m.log) : w.events = EventIds(m.log, {n \in RetainedEvents(m.log, w) : n <= length})
  BY DEF Fits, NamesItsPeriod
<1>. DEFINE R == RetainedEvents(m.log, w)
            S == {n \in R : n <= length}
<1>4. PICK n \in R : n \notin S
  BY <1>2, <1>3, Zenon
<1>5. <<m.log[n].event, m.log[n].event>> \notin w.events
  <2>. SUFFICES ASSUME <<m.log[n].event, m.log[n].event>> \in w.events PROVE FALSE
    OBVIOUS
  <2>1. R \subseteq 1..Len(m.log)
    BY <1>1 DEF RetainedEvents
  <2>. HIDE DEF R
  <2>2. PICK x \in S \X S : <<m.log[n].event, m.log[n].event>> = <<m.log[x[1]].event, m.log[x[2]].event>>
    BY <1>3 DEF EventIds, R
  <2>3. x[1] \in S /\ m.log[x[1]].event = m.log[n].event
    BY <2>2
  <2>4. x[1] = n
    BY <1>4, <2>1, <2>3 DEF IsChain
  <2>. QED
    BY <1>4, <2>3, <2>4
<1>. QED
  BY <1>4, <1>5 DEF LateEvents

LEMMA EmptyState == ASSUME NEW log, IsChain(log) PROVE Sound(WithLog(log, NoRest)) /\ Fits(WithLog(log, NoRest))
BY DEF WithLog, NoRest, Sound, IsState, Traced, Fits, siemDeliveryFindings

\* What a change of one part leaves of the others.
LEMMA OtherParts ==
  ASSUME NEW m, IsState(m), NEW v
  PROVE  /\ [m EXCEPT !.log = v] = [log |-> v, evidence |-> m.evidence, windows |-> m.windows, siem |-> m.siem, listed |-> m.listed]
         /\ [m EXCEPT !.windows = v] = [log |-> m.log, evidence |-> m.evidence, windows |-> v, siem |-> m.siem, listed |-> m.listed]
         /\ [m EXCEPT !.evidence = v] = [log |-> m.log, evidence |-> v, windows |-> m.windows, siem |-> m.siem, listed |-> m.listed]
         /\ [m EXCEPT !.siem = v] = [log |-> m.log, evidence |-> m.evidence, windows |-> m.windows, siem |-> v, listed |-> m.listed]
         /\ [m EXCEPT !.listed = v] = [log |-> m.log, evidence |-> m.evidence, windows |-> m.windows, siem |-> m.siem, listed |-> v]
<1>1. [m EXCEPT !.log = v] = [log |-> v, evidence |-> m.evidence, windows |-> m.windows, siem |-> m.siem, listed |-> m.listed]
  BY DEF IsState
<1>2. [m EXCEPT !.windows = v] = [log |-> m.log, evidence |-> m.evidence, windows |-> v, siem |-> m.siem, listed |-> m.listed]
  BY DEF IsState
<1>3. [m EXCEPT !.evidence = v] = [log |-> m.log, evidence |-> v, windows |-> m.windows, siem |-> m.siem, listed |-> m.listed]
  BY DEF IsState
<1>4. [m EXCEPT !.siem = v] = [log |-> m.log, evidence |-> m.evidence, windows |-> m.windows, siem |-> v, listed |-> m.listed]
  BY DEF IsState
<1>5. [m EXCEPT !.listed = v] = [log |-> m.log, evidence |-> m.evidence, windows |-> m.windows, siem |-> m.siem, listed |-> v]
  BY DEF IsState
<1>. QED
  BY <1>1, <1>2, <1>3, <1>4, <1>5

\* The windows still name what was in their periods when they were signed.
LEMMA AppendKeepsGood ==
  ASSUME NEW m, Good(m), NEW r \in LogRecord, r.sequence = Len(m.log) + 1,
         r.prev = LastEvent(m.log), \A x \in ToSet(m.log) : x.event # r.event
  PROVE  LET n == [m EXCEPT !.log = Append(@, r)]
         IN  /\ Good(n)
             /\ n.log = Append(m.log, r) /\ n.windows = m.windows /\ n.siem = m.siem /\ n.listed = m.listed
<1>. DEFINE n == [m EXCEPT !.log = Append(@, r)]
            longer == Append(m.log, r)
<1>1. IsState(m) /\ IsChain(m.log) /\ Traced(m.siem)
  BY DEF Good, Sound
<1>2. n = [log |-> longer, evidence |-> m.evidence, windows |-> m.windows, siem |-> m.siem, listed |-> m.listed]
  BY <1>1, OtherParts
<1>3. IsChain(longer)
  BY <1>1, LongerChain
<1>4. /\ Len(m.log) \in Nat /\ DOMAIN m.log = 1..Len(m.log) /\ DOMAIN longer = 1..Len(m.log) + 1
      /\ Len(longer) = Len(m.log) + 1
      /\ \A k \in 1..Len(m.log) : longer[k] = m.log[k]
  BY <1>1 DEF IsChain
<1>. HIDE DEF n, longer
<1>5. n.log = longer /\ n.windows = m.windows /\ n.siem = m.siem /\ n.listed = m.listed /\ IsState(n)
  BY <1>2 DEF IsState
<1>6. ASSUME NEW w \in m.windows, NamesItsPeriod(w, m.log)
      PROVE  NamesItsPeriod(w, longer)
  <2>1. PICK k \in 0..Len(m.log) : w.events = EventIds(m.log, {i \in RetainedEvents(m.log, w) : i <= k})
    BY <1>6 DEF NamesItsPeriod
  <2>. DEFINE S == {i \in RetainedEvents(m.log, w) : i <= k}
  <2>2. {i \in RetainedEvents(longer, w) : i <= k} = S
    <3>1. \A i \in DOMAIN longer : i <= k => i \in DOMAIN m.log
      BY <1>4
    <3>2. \A i \in DOMAIN m.log : i \in DOMAIN longer /\ longer[i] = m.log[i]
      BY <1>4
    <3>. QED
      BY <3>1, <3>2 DEF RetainedEvents
  <2>3. S \subseteq 1..Len(m.log)
    BY <1>4 DEF RetainedEvents
  <2>. HIDE DEF S
  <2>4. \A x \in S \X S : longer[x[1]] = m.log[x[1]] /\ longer[x[2]] = m.log[x[2]]
    BY <1>4, <2>3
  <2>5. EventIds(longer, S) = EventIds(m.log, S)
    BY <2>4 DEF EventIds
  <2>6. k \in 0..Len(longer)
    BY <1>4
  <2>7. w.events = EventIds(longer, {i \in RetainedEvents(longer, w) : i <= k})
    BY <2>1, <2>2, <2>5 DEF S
  <2>. QED
    BY <2>6, <2>7 DEF NamesItsPeriod
<1>7. Fits(m) => Fits(n)
  BY <1>5, <1>6 DEF Fits
<1>8. Good(n)
  BY <1>1, <1>3, <1>5, <1>7 DEF Good, Sound
<1>. QED
  BY <1>5, <1>8 DEF n, longer

LEMMA EvidenceKeepsGood ==
  ASSUME NEW m, Good(m), NEW x
  PROVE  LET n == [m EXCEPT !.evidence = @ \cup {x}]
         IN  Good(n) /\ n.log = m.log /\ n.windows = m.windows /\ n.siem = m.siem /\ n.listed = m.listed
<1>. DEFINE n == [m EXCEPT !.evidence = @ \cup {x}]
<1>1. IsState(m)
  BY DEF Good, Sound
<1>2. n = [log |-> m.log, evidence |-> m.evidence \cup {x}, windows |-> m.windows, siem |-> m.siem, listed |-> m.listed]
  BY <1>1, OtherParts
<1>. HIDE DEF n
<1>3. n.log = m.log /\ n.windows = m.windows /\ n.siem = m.siem /\ n.listed = m.listed /\ IsState(n)
  BY <1>2 DEF IsState
<1>4. Good(n)
  BY <1>3 DEF Good, Sound, Fits
<1>. QED
  BY <1>3, <1>4 DEF n

LEMMA ListingKeepsGood ==
  ASSUME NEW m, Good(m), NEW b
  PROVE  LET n == [m EXCEPT !.listed = @ \cup {b}]
         IN  Good(n) /\ n.log = m.log /\ n.windows = m.windows /\ n.siem = m.siem /\ n.listed = m.listed \cup {b}
<1>. DEFINE n == [m EXCEPT !.listed = @ \cup {b}]
<1>1. IsState(m)
  BY DEF Good, Sound
<1>2. n = [log |-> m.log, evidence |-> m.evidence, windows |-> m.windows, siem |-> m.siem, listed |-> m.listed \cup {b}]
  BY <1>1, OtherParts
<1>. HIDE DEF n
<1>3. n.log = m.log /\ n.windows = m.windows /\ n.siem = m.siem /\ n.listed = m.listed \cup {b} /\ IsState(n)
  BY <1>2 DEF IsState
<1>4. Good(n)
  BY <1>3 DEF Good, Sound, Fits
<1>. QED
  BY <1>3, <1>4 DEF n

LEMMA SigningKeepsGood ==
  ASSUME NEW m, Good(m), NEW w, w.events = EventIds(m.log, RetainedEvents(m.log, w))
  PROVE  LET n == [m EXCEPT !.windows = @ \cup {w}]
         IN  /\ Good(n)
             /\ n.log = m.log /\ n.windows = m.windows \cup {w} /\ n.siem = m.siem /\ n.listed = m.listed
<1>. DEFINE n == [m EXCEPT !.windows = @ \cup {w}]
<1>1. IsState(m)
  BY DEF Good, Sound
<1>2. n = [log |-> m.log, evidence |-> m.evidence, windows |-> m.windows \cup {w}, siem |-> m.siem, listed |-> m.listed]
  BY <1>1, OtherParts
<1>. HIDE DEF n
<1>3. n.log = m.log /\ n.windows = m.windows \cup {w} /\ n.siem = m.siem /\ n.listed = m.listed /\ IsState(n)
  BY <1>2 DEF IsState
<1>4. NamesItsPeriod(w, m.log)
  <2>1. Len(m.log) \in Nat /\ DOMAIN m.log = 1..Len(m.log)
    BY DEF Good, Sound, IsChain
  <2>2. {i \in RetainedEvents(m.log, w) : i <= Len(m.log)} = RetainedEvents(m.log, w)
    BY <2>1 DEF RetainedEvents
  <2>3. Len(m.log) \in 0..Len(m.log)
    BY <2>1
  <2>. QED
    BY <2>2, <2>3 DEF NamesItsPeriod
<1>5. Fits(m) => Fits(n)
  BY <1>3, <1>4 DEF Fits, siemDeliveryFindings
<1>6. Good(n)
  BY <1>3, <1>5 DEF Good, Sound
<1>. QED
  BY <1>3, <1>6 DEF n

LEMMA DeliveryKeepsGood ==
  ASSUME NEW m, Good(m), NEW d, IsDelivery(d), d.id \notin {e.id : e \in m.siem},
         d.replayOf = None \/ \E e \in m.siem : e.id = d.replayOf /\ e.window = d.window,
         alone => \E w \in m.windows : w.id = d.window /\ w.events = d.events
  PROVE  LET n == [m EXCEPT !.siem = @ \cup {d}]
         IN  /\ Good(n)
             /\ n.log = m.log /\ n.windows = m.windows /\ n.siem = m.siem \cup {d} /\ n.listed = m.listed
<1>. DEFINE n == [m EXCEPT !.siem = @ \cup {d}]
<1>1. IsState(m) /\ Traced(m.siem)
  BY DEF Good, Sound
<1>2. n = [log |-> m.log, evidence |-> m.evidence, windows |-> m.windows, siem |-> m.siem \cup {d}, listed |-> m.listed]
  BY <1>1, OtherParts
<1>. HIDE DEF n
<1>3. n.log = m.log /\ n.windows = m.windows /\ n.siem = m.siem \cup {d} /\ n.listed = m.listed /\ IsState(n)
  BY <1>2 DEF IsState
<1>4. Traced(m.siem \cup {d})
  <2>1. \A e \in m.siem : e.id # d.id
    OBVIOUS
  <2>. QED
    BY <1>1, <2>1 DEF Traced
<1>5. alone /\ Fits(m) => Fits(n)
  BY <1>3 DEF Fits, siemDeliveryFindings
<1>6. Good(n)
  BY <1>3, <1>4, <1>5 DEF Good, Sound
<1>. QED
  BY <1>3, <1>6 DEF n

LEMMA ReplayedDelivery ==
  ASSUME NEW d, IsDelivery(d), NEW outcome \in {"failed", "delivered"}
  PROVE  LET e == Replayed(d, outcome)
         IN  IsDelivery(e) /\ e.window = d.window /\ e.events = d.events /\ e.replayOf = d.id
<1>. DEFINE e == Replayed(d, outcome)
            id == <<"replay", d.id, clock>>
<1>1. d = [id |-> d.id, window |-> d.window, status |-> d.status, events |-> d.events, replayOf |-> d.replayOf]
  BY DEF IsDelivery
<1>2. e = [d EXCEPT !.id = id, !.status = outcome, !.replayOf = d.id]
  BY DEF Replayed
<1>. HIDE DEF id, e
<1>3. e = [[id |-> d.id, window |-> d.window, status |-> d.status, events |-> d.events, replayOf |-> d.replayOf]
           EXCEPT !.id = id, !.status = outcome, !.replayOf = d.id]
  BY <1>1, <1>2, Zenon
<1>4. e = [id |-> id, window |-> d.window, status |-> outcome, events |-> d.events, replayOf |-> d.id]
  BY <1>3
<1>5. e.id = <<"replay", d.id, clock>>
  BY <1>4 DEF id
<1>6. IsDelivery(e) /\ e.window = d.window /\ e.events = d.events /\ e.replayOf = d.id
  BY <1>4, <1>5 DEF IsDelivery
<1>. QED
  BY <1>6 DEF e


-----------------------------------------------------------------------------
(* The queued writes *)

IsList(s) == Len(s) \in Nat /\ s = [i \in 1..Len(s) |-> s[i]]

LEMMA SequenceIsList == ASSUME NEW T, NEW s \in Seq(T) PROVE IsList(s)
BY DEF IsList

LEMMA ListTail ==
  ASSUME NEW s, IsList(s), s # <<>>
  PROVE  /\ Len(s) >= 1 /\ Head(s) = s[1]
         /\ IsList(Tail(s)) /\ Len(Tail(s)) = Len(s) - 1
         /\ \A i \in 1..Len(s) - 1 : Tail(s)[i] = s[i + 1]
<1>. DEFINE T == {s[i] : i \in 1..Len(s)}
<1>1. s \in Seq(T)
  BY DEF IsList
<1>. HIDE DEF T
<1>2. Len(s) >= 1
  BY <1>1
<1>3. Head(s) = s[1]
  BY <1>1, <1>2
<1>4. Tail(s) \in Seq(T) /\ Len(Tail(s)) = Len(s) - 1
  BY <1>1, <1>2
<1>5. \A i \in 1..Len(s) - 1 : Tail(s)[i] = s[i + 1]
  BY <1>1, <1>2
<1>6. IsList(Tail(s))
  BY <1>4, SequenceIsList
<1>. QED
  BY <1>2, <1>3, <1>4, <1>5, <1>6

LEMMA ListConcat ==
  ASSUME NEW s, IsList(s), NEW t, IsList(t)
  PROVE  /\ IsList(s \o t) /\ Len(s \o t) = Len(s) + Len(t)
         /\ \A i \in 1..Len(s) : (s \o t)[i] = s[i]
         /\ \A i \in 1..Len(t) : (s \o t)[Len(s) + i] = t[i]
         /\ \A i \in 1..Len(s \o t) : i \in 1..Len(s) \/ i - Len(s) \in 1..Len(t)
<1>. DEFINE T == {s[i] : i \in 1..Len(s)} \cup {t[i] : i \in 1..Len(t)}
<1>1. s \in Seq(T) /\ t \in Seq(T)
  BY DEF IsList
<1>. HIDE DEF T
<1>2. s \o t \in Seq(T) /\ Len(s \o t) = Len(s) + Len(t) /\ Len(s) \in Nat /\ Len(t) \in Nat
  BY <1>1
<1>3. \A i \in 1..Len(s) : (s \o t)[i] = s[i]
  BY <1>1
<1>4. \A i \in 1..Len(t) : (s \o t)[Len(s) + i] = t[i]
  BY <1>1
<1>5. IsList(s \o t)
  BY <1>2, SequenceIsList
<1>6. \A i \in 1..Len(s \o t) : i \in 1..Len(s) \/ i - Len(s) \in 1..Len(t)
  BY <1>2
<1>. QED
  BY <1>2, <1>3, <1>4, <1>5, <1>6

LEMMA ElementsOfLonger == ASSUME NEW T, NEW s \in Seq(T), NEW r PROVE ToSet(Append(s, r)) = ToSet(s) \cup {r}
<1>. DEFINE U == T \cup {r}
            longer == Append(s, r)
<1>1. s \in Seq(U) /\ r \in U
  OBVIOUS
<1>. HIDE DEF U
<1>2. /\ longer \in Seq(U) /\ Len(longer) = Len(s) + 1 /\ Len(s) \in Nat /\ longer[Len(s) + 1] = r
      /\ \A n \in 1..Len(s) : longer[n] = s[n]
  BY <1>1
<1>. HIDE DEF longer
<1>3. ToSet(longer) = {longer[n] : n \in 1..Len(longer)} /\ ToSet(s) = {s[n] : n \in 1..Len(s)}
  BY <1>1, <1>2, Elements
<1>4. \A n \in 1..Len(longer) : n \in 1..Len(s) \/ n = Len(s) + 1
  BY <1>2
<1>5. Len(s) + 1 \in 1..Len(longer) /\ \A n \in 1..Len(s) : n \in 1..Len(longer)
  BY <1>2
<1>6. ToSet(longer) = ToSet(s) \cup {r}
  BY <1>2, <1>3, <1>4, <1>5
<1>. QED
  BY <1>6 DEF longer

Tables == {"log", "evidence", "windows", "siem", "listed", "backup", "restore"}

\* The state of the store after a write, as far as the rows of one table speak of those of another.
Follows(a, w, b) ==
  /\ b.log = IF w.table = "log" THEN Append(a.log, w.row) ELSE IF w.table = "restore" THEN w.row.log ELSE a.log
  /\ b.windows = IF w.table = "windows" THEN a.windows \cup {w.row}
                 ELSE IF w.table = "restore" THEN w.row.windows ELSE a.windows
  /\ b.siem = IF w.table = "siem" THEN a.siem \cup {w.row} ELSE IF w.table = "restore" THEN w.row.siem ELSE a.siem

\* Only a process that is alone restores, and a backup that is written is sound.
IsWrite(w) ==
  /\ w.table \in Tables
  /\ w.table = "restore" => alone
  /\ w.table = "backup" => w.row.id \in AuditBackupId /\ Sound(w.row.content)

\* M[i] is the state of the store after the first i writes that p has queued.
Queued(p, M) ==
  /\ M[Len(chain[p])] = mem[p]
  /\ \A i \in 0..Len(chain[p]) : Good(M[i])
  /\ \A i \in 1..Len(chain[p]) : Follows(M[i - 1], chain[p][i], M[i])
  /\ alone => dbLog = ToSet(M[0].log) /\ db.windows = M[0].windows /\ db.siem = M[0].siem
  /\ ~alone => ToSet(M[0].log) \subseteq dbLog /\ M[0].siem \subseteq db.siem

Running(p) == phase[p] = "up" /\ ~rejected[p]

TypeInv ==
  /\ clock \in Nat
  /\ mem = [p \in AuditProcess |-> mem[p]]
  /\ kept = [p \in AuditProcess |-> [b \in AuditBackupId |-> kept[p][b]]]
  /\ chain = [p \in AuditProcess |-> chain[p]]
  /\ \A p \in AuditProcess : IsList(chain[p]) /\ \A i \in 1..Len(chain[p]) : IsWrite(chain[p][i])
  /\ rejected \in [AuditProcess -> BOOLEAN]
  /\ phase \in [AuditProcess -> {"down", "hydrating", "up", "refused"}]
  /\ db = [evidence |-> db.evidence, windows |-> db.windows, siem |-> db.siem, listed |-> db.listed]
  /\ dbKept = [b \in AuditBackupId |-> dbKept[b]]

\* What the copies, the backups and the rows hold.
CopiesInv ==
  /\ \A p \in AuditProcess : Good(mem[p])
  /\ \A p \in AuditProcess, b \in AuditBackupId : kept[p][b] # None => Sound(kept[p][b])
  /\ \A b \in AuditBackupId : dbKept[b] # None => Sound(dbKept[b])

RowsInv == dbLog = ToSet(InOrder(dbLog)) /\ Good(WithLog(InOrder(dbLog), db))

AuditAloneInv ==
  alone => /\ \A p, q \in AuditProcess : phase[p] # "down" /\ phase[q] # "down" => p = q
           /\ \A p \in AuditProcess : phase[p] = "refused" => ~Valid(mem[p])

\* A process that has read the records, and not yet the other rows.
HydratingInv ==
  \A p \in AuditProcess : phase[p] = "hydrating" =>
    /\ chain[p] = <<>> /\ ~rejected[p]
    /\ alone => dbLog = ToSet(mem[p].log)
    /\ ~alone => ToSet(mem[p].log) \subseteq dbLog

QueueInv == \A p \in AuditProcess : Running(p) => \E M : Queued(p, M)

StoreInv == TypeInv /\ CopiesInv /\ RowsInv /\ AuditAloneInv /\ HydratingInv /\ QueueInv

LEMMA SameParts ==
  ASSUME NEW m, NEW n, Good(m), IsState(n), n.log = m.log, n.windows = m.windows, n.siem = m.siem
  PROVE  Good(n)
BY DEF Good, Sound, Fits

LEMMA StoreInit == AuditInit => StoreInv
<1>. SUFFICES ASSUME AuditInit PROVE StoreInv
  OBVIOUS
<1>1. IsChain(<<>>) /\ ToSet(<<>>) = {}
  BY EmptyChain
<1>2. InOrder({}) = <<>>
  BY <1>1, ChainRows
<1>3. TypeInv
  BY DEF AuditInit, TypeInv, IsList, NoRest
<1>4. CopiesInv /\ RowsInv
  BY <1>1, <1>2, EmptyState DEF AuditInit, CopiesInv, RowsInv, Good
<1>5. AuditAloneInv /\ HydratingInv /\ QueueInv
  BY DEF AuditInit, AuditAloneInv, HydratingInv, QueueInv, Running
<1>. QED
  BY <1>3, <1>4, <1>5 DEF StoreInv


\* An operation of a process: its copy changes and the writes that make the same change of the
\* rows are queued.
LEMMA Applied ==
  ASSUME StoreInv, NEW p \in AuditProcess, phase[p] = "up", NEW m, NEW writes, Apply(p, m, writes),
         Good(m), IsList(writes), Len(writes) >= 1, \A i \in 1..Len(writes) : IsWrite(writes[i]),
         \A i \in 1..Len(writes) - 1 : Follows(mem[p], writes[i], mem[p]),
         Follows(mem[p], writes[Len(writes)], m),
         kept' = [q \in AuditProcess |-> [b \in AuditBackupId |-> kept'[q][b]]],
         \A q \in AuditProcess, b \in AuditBackupId : kept'[q][b] # None => Sound(kept'[q][b])
  PROVE  StoreInv'
<1>. DEFINE list == chain[p]
            longer == chain[p] \o writes
<1>0. TypeInv /\ CopiesInv /\ RowsInv /\ AuditAloneInv /\ HydratingInv /\ QueueInv
  BY DEF StoreInv
<1>1. /\ mem' = [mem EXCEPT ![p] = m]
      /\ chain' = [chain EXCEPT ![p] = longer]
      /\ UNCHANGED <<rejected, phase, dbLog, db, dbKept, clock, starts, alone>>
  BY DEF Apply
<1>2. /\ mem' = [q \in AuditProcess |-> mem'[q]] /\ chain' = [q \in AuditProcess |-> chain'[q]]
      /\ mem'[p] = m /\ chain'[p] = longer
      /\ \A q \in AuditProcess : q # p => mem'[q] = mem[q] /\ chain'[q] = chain[q]
  BY <1>0, <1>1 DEF TypeInv
<1>3. IsList(list) /\ \A i \in 1..Len(list) : IsWrite(list[i])
  BY <1>0 DEF TypeInv
<1>. HIDE DEF list
<1>4. /\ IsList(longer) /\ Len(longer) = Len(list) + Len(writes)
      /\ Len(list) \in Nat /\ Len(writes) \in Nat
      /\ \A i \in 1..Len(list) : longer[i] = list[i]
      /\ \A i \in 1..Len(writes) : longer[Len(list) + i] = writes[i]
      /\ \A i \in 1..Len(longer) : i \in 1..Len(list) \/ i - Len(list) \in 1..Len(writes)
  BY <1>3, ListConcat DEF list, IsList
<1>. HIDE DEF longer
<1>11. Len(longer) = Len(list) + Len(writes) /\ Len(list) \in Nat /\ Len(writes) \in Nat /\ Len(writes) >= 1
  BY <1>4
<1>5. \A i \in 1..Len(longer) : IsWrite(longer[i])
  <2>. SUFFICES ASSUME NEW i \in 1..Len(longer) PROVE IsWrite(longer[i])
    OBVIOUS
  <2>1. CASE i \in 1..Len(list)
    BY <1>3, <1>4, <2>1
  <2>2. CASE i - Len(list) \in 1..Len(writes)
    <3>1. longer[Len(list) + (i - Len(list))] = writes[i - Len(list)] /\ Len(list) + (i - Len(list)) = i
      BY <1>4, <2>2
    <3>. QED
      BY <2>2, <3>1
  <2>. QED
    BY <1>4, <2>1, <2>2
<1>6. TypeInv'
  <2>1. \A q \in AuditProcess : IsList(chain'[q]) /\ \A i \in 1..Len(chain'[q]) : IsWrite(chain'[q][i])
    BY <1>0, <1>2, <1>4, <1>5 DEF TypeInv
  <2>2. \A w : IsWrite(w)' <=> IsWrite(w)
    BY <1>1 DEF IsWrite
  <2>3. \A q \in AuditProcess : IsList(chain'[q]) /\ \A i \in 1..Len(chain'[q]) : IsWrite(chain[q][i])'
    BY <1>1, <2>1 DEF IsWrite
  <2>. QED
    BY <1>0, <1>1, <1>2, <2>3 DEF TypeInv
<1>7. CopiesInv'
  <2>1. \A q \in AuditProcess : Good(mem'[q])
    BY <1>0, <1>2 DEF CopiesInv
  <2>. QED
    BY <1>0, <1>1, <2>1 DEF CopiesInv, Good
<1>8. RowsInv' /\ AuditAloneInv'
  BY <1>0, <1>1, <1>2 DEF RowsInv, Good, AuditAloneInv, InOrder
<1>9. HydratingInv'
  BY <1>0, <1>1, <1>2 DEF HydratingInv
<1>10. QueueInv'
  <2>. SUFFICES ASSUME NEW q \in AuditProcess, Running(q)' PROVE \E M : Queued(q, M)'
    BY DEF QueueInv
  <2>1. PICK M : Queued(q, M)
    BY <1>0, <1>1 DEF QueueInv, Running
  <2>2. CASE q # p
    <3>1. Queued(q, M)'
      BY <1>1, <1>2, <2>1, <2>2 DEF Queued, Good
    <3>. QED
      BY <3>1
  <2>3. CASE q = p
    <3>0. PICK N : N = [i \in 0..Len(longer) |-> IF i <= Len(list) THEN M[i] ELSE IF i < Len(longer) THEN mem[p] ELSE m]
      OBVIOUS
    <3>1. /\ \A i \in 0..Len(list) : N[i] = M[i] /\ i \in 0..Len(longer)
          /\ \A i \in Len(list) + 1..Len(longer) - 1 : N[i] = mem[p]
          /\ N[Len(longer)] = m
      BY <1>11, <3>0
    <3>2. /\ M[Len(list)] = mem[p]
          /\ \A i \in 0..Len(list) : Good(M[i])
          /\ \A i \in 1..Len(list) : Follows(M[i - 1], list[i], M[i])
          /\ alone => dbLog = ToSet(M[0].log) /\ db.windows = M[0].windows /\ db.siem = M[0].siem
          /\ ~alone => ToSet(M[0].log) \subseteq dbLog /\ M[0].siem \subseteq db.siem
      BY <2>1, <2>3 DEF Queued, list
    <3>3. \A i \in 0..Len(longer) : Good(N[i])
      <4>1. ASSUME NEW i \in 0..Len(longer), ~(i <= Len(list)), i # Len(longer)
            PROVE  i \in Len(list) + 1..Len(longer) - 1
        BY <1>11, <4>1
      <4>2. \A i \in 0..Len(longer) : i <= Len(list) => i \in 0..Len(list)
        BY <1>11
      <4>. QED
        BY <1>0, <3>1, <3>2, <4>1, <4>2 DEF CopiesInv
    <3>4. ASSUME NEW i \in 1..Len(longer)
          PROVE  Follows(N[i - 1], longer[i], N[i])
      <4>1. CASE i \in 1..Len(list)
        <5>1. i - 1 \in 0..Len(list) /\ i \in 0..Len(list)
          BY <1>4, <4>1
        <5>. QED
          BY <1>4, <3>1, <3>2, <4>1, <5>1
      <4>2. CASE i - Len(list) \in 1..Len(writes)
        <5>. DEFINE j == i - Len(list)
        <5>1. longer[i] = writes[j]
          <6>1. Len(list) + j = i
            BY <1>4
          <6>. QED
            BY <1>4, <4>2, <6>1
        <5>2. N[i - 1] = mem[p]
          <6>1. CASE i = Len(list) + 1
            BY <1>4, <3>1, <3>2, <6>1
          <6>2. CASE i # Len(list) + 1
            <7>1. i - 1 \in Len(list) + 1..Len(longer) - 1
              BY <1>4, <4>2, <6>2
            <7>. QED
              BY <3>1, <7>1
          <6>. QED
            BY <6>1, <6>2
        <5>3. CASE i = Len(longer)
          <6>1. j = Len(writes)
            BY <1>4, <5>3
          <6>. QED
            BY <3>1, <5>1, <5>2, <5>3, <6>1
        <5>4. CASE i # Len(longer)
          <6>1. j \in 1..Len(writes) - 1 /\ i \in Len(list) + 1..Len(longer) - 1
            BY <1>4, <4>2, <5>4
          <6>. QED
            BY <3>1, <5>1, <5>2, <6>1
        <5>. QED
          BY <5>3, <5>4
      <4>. QED
        BY <1>4, <4>1, <4>2
    <3>5. N[0] = M[0]
      <4>1. 0 \in 0..Len(list)
        BY <1>11
      <4>. QED
        BY <3>1, <4>1
    <3>6. Queued(p, N)'
      <4>1. mem'[p] = m /\ chain'[p] = longer /\ dbLog' = dbLog /\ db' = db /\ clock' = clock /\ alone' = alone
        BY <1>1, <1>2
      <4>2. \A i \in 0..Len(longer) : Good(N[i])'
        BY <3>3, <4>1 DEF Good
      <4>. QED
        BY <3>1, <3>2, <3>4, <3>5, <4>1, <4>2 DEF Queued
    <3>. QED
      BY <2>3, <3>6
  <2>. QED
    BY <2>2, <2>3
<1>. QED
  BY <1>6, <1>7, <1>8, <1>9, <1>10 DEF StoreInv


LEMMA AppliedOne ==
  ASSUME StoreInv, NEW p \in AuditProcess, phase[p] = "up", NEW m, NEW w, Apply(p, m, <<w>>),
         Good(m), IsWrite(w), Follows(mem[p], w, m), kept' = kept
  PROVE  StoreInv'
<1>. DEFINE writes == <<w>>
<1>1. IsList(writes) /\ Len(writes) = 1 /\ writes[1] = w
  BY DEF IsList
<1>2. Apply(p, m, writes)
  OBVIOUS
<1>. HIDE DEF writes
<1>3. /\ \A i \in 1..Len(writes) : IsWrite(writes[i])
      /\ \A i \in 1..Len(writes) - 1 : Follows(mem[p], writes[i], mem[p])
      /\ Follows(mem[p], writes[Len(writes)], m)
  BY <1>1
<1>4. /\ kept' = [q \in AuditProcess |-> [b \in AuditBackupId |-> kept'[q][b]]]
      /\ \A q \in AuditProcess, b \in AuditBackupId : kept'[q][b] # None => Sound(kept'[q][b])
  BY DEF StoreInv, TypeInv, CopiesInv
<1>5. Len(writes) >= 1
  BY <1>1
<1>. QED
  BY <1>1, <1>2, <1>3, <1>4, <1>5, Applied

LEMMA AppendStep ==
  ASSUME StoreInv, NEW p \in AuditProcess, NEW e \in Event, AppendAuditEvent(p, e)
  PROVE  StoreInv'
<1>. DEFINE m == mem[p]
            RecordAt(at) == [sequence |-> Len(m.log) + 1, event |-> e, prev |-> LastEvent(m.log), at |-> at]
<1>0. PICK at \in 0..clock :
        Apply(p, [m EXCEPT !.log = Append(@, RecordAt(at))], <<EnqueueWrite("log", RecordAt(at))>>)
  BY DEF AppendAuditEvent
<1>. DEFINE r == RecordAt(at)
            n == [m EXCEPT !.log = Append(@, r)]
            w == EnqueueWrite("log", r)
<1>1. /\ phase[p] = "up" /\ e \notin {x.event : x \in ToSet(m.log)}
      /\ Apply(p, n, <<w>>) /\ kept' = kept
  BY <1>0 DEF AppendAuditEvent, Up
<1>2. Good(m) /\ IsChain(m.log) /\ clock \in Nat
  BY DEF StoreInv, TypeInv, CopiesInv, Good, Sound
<1>3. LastEvent(m.log) \in Event \cup {None}
  <2>1. m.log \in Seq(LogRecord) /\ Len(m.log) \in Nat
    BY <1>2 DEF IsChain
  <2>2. CASE m.log = <<>>
    BY <2>2 DEF LastEvent
  <2>3. CASE m.log # <<>>
    <3>1. Len(m.log) \in 1..Len(m.log)
      BY <2>1, <2>3
    <3>2. m.log[Len(m.log)] \in LogRecord
      BY <2>1, <3>1
    <3>3. LastEvent(m.log) = m.log[Len(m.log)].event
      BY <2>3 DEF LastEvent, Last
    <3>. QED
      BY <3>2, <3>3 DEF LogRecord
  <2>. QED
    BY <2>2, <2>3
<1>4. /\ r \in LogRecord /\ r.sequence = Len(m.log) + 1 /\ r.prev = LastEvent(m.log)
      /\ \A x \in ToSet(m.log) : x.event # r.event
  BY <1>0, <1>1, <1>2, <1>3 DEF LogRecord, IsChain
<1>5. w.table = "log" /\ w.row = r
  BY DEF EnqueueWrite
<1>. HIDE DEF m, r, w
<1>6. Good(n) /\ n.log = Append(m.log, r) /\ n.windows = m.windows /\ n.siem = m.siem
  BY <1>2, <1>4, AppendKeepsGood
<1>. HIDE DEF n
<1>7. IsWrite(w) /\ Follows(mem[p], w, n)
  BY <1>5, <1>6 DEF IsWrite, Follows, Tables, m
<1>. QED
  BY <1>1, <1>6, <1>7, AppliedOne

LEMMA ExportStep ==
  ASSUME StoreInv, NEW p \in AuditProcess, NEW x \in ExportId, WriteEvidenceExport(p, x)
  PROVE  StoreInv'
<1>. DEFINE m == mem[p]
            n == [m EXCEPT !.evidence = @ \cup {x}]
            w == EnqueueWrite("evidence", x)
<1>1. phase[p] = "up" /\ Apply(p, n, <<w>>) /\ kept' = kept
  BY DEF WriteEvidenceExport, Up
<1>2. Good(m)
  BY DEF StoreInv, CopiesInv
<1>3. w.table = "evidence" /\ w.row = x
  BY DEF EnqueueWrite
<1>. HIDE DEF m, w
<1>4. Good(n) /\ n.log = m.log /\ n.windows = m.windows /\ n.siem = m.siem
  BY <1>2, EvidenceKeepsGood
<1>. HIDE DEF n
<1>5. IsWrite(w) /\ Follows(mem[p], w, n)
  BY <1>3, <1>4 DEF IsWrite, Follows, Tables, m
<1>. QED
  BY <1>1, <1>4, <1>5, AppliedOne

LEMMA SignStep ==
  ASSUME StoreInv, NEW p \in AuditProcess, NEW id \in WindowId, SignAuditWindow(p, id)
  PROVE  StoreInv'
<1>. DEFINE m == mem[p]
            Window(start, end) == [id |-> id, start |-> start, end |-> end,
                                   events |-> EventIds(mem[p].log, WindowEvents(mem[p].log, start, end))]
<1>1. PICK start \in 0..MaxTime, end \in 0..MaxTime :
        Apply(p, [mem[p] EXCEPT !.windows = @ \cup {Window(start, end)}], <<EnqueueWrite("windows", Window(start, end))>>)
  BY DEF SignAuditWindow
<1>. DEFINE v == Window(start, end)
            n == [m EXCEPT !.windows = @ \cup {v}]
            w == EnqueueWrite("windows", v)
<1>2. phase[p] = "up" /\ Apply(p, n, <<w>>) /\ kept' = kept
  BY <1>1 DEF SignAuditWindow, Up
<1>3. Good(m)
  BY DEF StoreInv, CopiesInv
<1>4. v.events = EventIds(m.log, RetainedEvents(m.log, v))
  BY DEF WindowEvents, RetainedEvents
<1>5. w.table = "windows" /\ w.row = v
  BY DEF EnqueueWrite
<1>. HIDE DEF m, v, w
<1>6. Good(n) /\ n.log = m.log /\ n.windows = m.windows \cup {v} /\ n.siem = m.siem
  BY <1>3, <1>4, SigningKeepsGood
<1>. HIDE DEF n
<1>7. IsWrite(w) /\ Follows(mem[p], w, n)
  BY <1>5, <1>6 DEF IsWrite, Follows, Tables, m
<1>. QED
  BY <1>2, <1>6, <1>7, AppliedOne

LEMMA DeliverStep ==
  ASSUME StoreInv, NEW p \in AuditProcess, NEW d, Deliver(p, d), IsDelivery(d),
         d.replayOf = None \/ \E e \in mem[p].siem : e.id = d.replayOf /\ e.window = d.window,
         alone => \E w \in mem[p].windows : w.id = d.window /\ w.events = d.events
  PROVE  StoreInv'
<1>. DEFINE m == mem[p]
            n == [m EXCEPT !.siem = @ \cup {d}]
            w == EnqueueWrite("siem", d)
<1>1. phase[p] = "up" /\ Apply(p, n, <<w>>) /\ kept' = kept /\ d.id \notin {e.id : e \in m.siem}
  BY DEF Deliver, Up
<1>2. Good(m)
  BY DEF StoreInv, CopiesInv
<1>3. w.table = "siem" /\ w.row = d
  BY DEF EnqueueWrite
<1>4. /\ d.replayOf = None \/ \E e \in m.siem : e.id = d.replayOf /\ e.window = d.window
      /\ alone => \E x \in m.windows : x.id = d.window /\ x.events = d.events
  OBVIOUS
<1>. HIDE DEF m, w
<1>5. Good(n) /\ n.log = m.log /\ n.windows = m.windows /\ n.siem = m.siem \cup {d}
  BY <1>1, <1>2, <1>4, DeliveryKeepsGood
<1>. HIDE DEF n
<1>6. IsWrite(w) /\ Follows(mem[p], w, n)
  BY <1>3, <1>5 DEF IsWrite, Follows, Tables, m
<1>. QED
  BY <1>1, <1>5, <1>6, AppliedOne

LEMMA RecordDeliveryStep == ASSUME StoreInv, NEW p \in AuditProcess, RecordSiemDelivery(p) PROVE StoreInv'
<1>. DEFINE Entry(w, outcome) == [id |-> <<"delivery", w.id, clock>>, window |-> w.id, status |-> outcome,
                                  events |-> w.events, replayOf |-> None]
<1>1. PICK w \in mem[p].windows, outcome \in {"failed", "delivered"} : Deliver(p, Entry(w, outcome))
  BY DEF RecordSiemDelivery
<1>. DEFINE d == Entry(w, outcome)
<1>2. IsDelivery(d) /\ d.replayOf = None /\ d.window = w.id /\ d.events = w.events
  BY DEF IsDelivery
<1>3. Deliver(p, d)
  BY <1>1
<1>. HIDE DEF d
<1>. QED
  BY <1>2, <1>3, DeliverStep

LEMMA ReplayStep == ASSUME StoreInv, NEW p \in AuditProcess, ReplaySiemDelivery(p) PROVE StoreInv'
<1>1. PICK d \in mem[p].siem, outcome \in {"failed", "delivered"} : Deliver(p, Replayed(d, outcome))
  BY DEF ReplaySiemDelivery
<1>. DEFINE e == Replayed(d, outcome)
<1>2. Good(mem[p])
  BY DEF StoreInv, CopiesInv
<1>3. IsDelivery(d)
  BY <1>2 DEF Good, Sound, Traced
<1>4. IsDelivery(e) /\ e.window = d.window /\ e.events = d.events /\ e.replayOf = d.id
  BY <1>3, ReplayedDelivery
<1>5. alone => \E w \in mem[p].windows : w.id = d.window /\ w.events = d.events
  BY <1>2 DEF Good, Fits, siemDeliveryFindings
<1>. HIDE DEF e
<1>6. Deliver(p, e)
  BY <1>1 DEF e
<1>. QED
  BY <1>4, <1>5, <1>6, DeliverStep

LEMMA BackupStep ==
  ASSUME StoreInv, NEW p \in AuditProcess, NEW b \in AuditBackupId, CreateAuditBackup(p, b)
  PROVE  StoreInv'
<1>. DEFINE m == mem[p]
            n == [m EXCEPT !.listed = @ \cup {b}]
            v == EnqueueWrite("backup", [id |-> b, content |-> n])
            w == EnqueueWrite("listed", n.listed)
            writes == <<v, w>>
<1>1. phase[p] = "up" /\ Apply(p, n, writes) /\ kept' = [kept EXCEPT ![p][b] = n]
  BY DEF CreateAuditBackup, Up
<1>2. Good(m)
  BY DEF StoreInv, CopiesInv
<1>3. v.table = "backup" /\ v.row.id = b /\ v.row.content = n /\ w.table = "listed"
  BY DEF EnqueueWrite
<1>4. IsList(writes) /\ Len(writes) = 2 /\ writes[1] = v /\ writes[2] = w
  BY DEF IsList
<1>. HIDE DEF m, v, w, writes
<1>5. Good(n) /\ n.log = m.log /\ n.windows = m.windows /\ n.siem = m.siem
  BY <1>2, ListingKeepsGood
<1>. HIDE DEF n
<1>6. Sound(n)
  BY <1>5 DEF Good
<1>7. IsWrite(v) /\ Follows(m, v, m) /\ IsWrite(w) /\ Follows(m, w, n)
  BY <1>3, <1>5, <1>6 DEF IsWrite, Follows, Tables
<1>8. kept = [q \in AuditProcess |-> [c \in AuditBackupId |-> kept[q][c]]]
  BY DEF StoreInv, TypeInv
<1>9. kept' = [q \in AuditProcess |-> [c \in AuditBackupId |-> IF q = p /\ c = b THEN n ELSE kept[q][c]]]
  BY <1>1, <1>8
<1>10. /\ kept' = [q \in AuditProcess |-> [c \in AuditBackupId |-> kept'[q][c]]]
       /\ \A q \in AuditProcess, c \in AuditBackupId : kept'[q][c] # None => Sound(kept'[q][c])
  BY <1>6, <1>9 DEF StoreInv, CopiesInv
<1>11. /\ \A i \in 1..Len(writes) : IsWrite(writes[i])
       /\ \A i \in 1..Len(writes) - 1 : Follows(m, writes[i], m)
       /\ Follows(m, writes[Len(writes)], n)
  BY <1>4, <1>7
<1>12. Len(writes) >= 1
  BY <1>4
<1>13. /\ \A i \in 1..Len(writes) - 1 : Follows(mem[p], writes[i], mem[p])
       /\ Follows(mem[p], writes[Len(writes)], n)
  BY <1>11 DEF m
<1>. QED
  BY <1>1, <1>4, <1>5, <1>10, <1>11, <1>12, <1>13, Applied

LEMMA RestoreStep ==
  ASSUME StoreInv, NEW p \in AuditProcess, NEW b \in AuditBackupId, RestoreAuditBackup(p, b)
  PROVE  StoreInv'
<1>. DEFINE n == kept[p][b]
            w == EnqueueWrite("restore", n)
<1>1. alone /\ phase[p] = "up" /\ n # None /\ Valid(n) /\ Apply(p, n, <<w>>) /\ kept' = kept
  BY DEF RestoreAuditBackup, Up
<1>2. Sound(n)
  BY <1>1 DEF StoreInv, CopiesInv
<1>3. Good(n)
  BY <1>1, <1>2, ValidFits DEF Good, Sound
<1>4. w.table = "restore" /\ w.row = n
  BY DEF EnqueueWrite
<1>. HIDE DEF n, w
<1>5. IsWrite(w) /\ Follows(mem[p], w, n)
  BY <1>1, <1>4 DEF IsWrite, Follows, Tables
<1>. QED
  BY <1>1, <1>3, <1>5, AppliedOne


\* What one write makes of the rows.
LEMMA Rows ==
  ASSUME StoreInv, NEW p \in AuditProcess, PersistAudit(p)
  PROVE  LET w == chain[p][1]
         IN  /\ dbLog' = IF w.table = "log" THEN dbLog \cup {w.row} ELSE IF w.table = "restore" THEN ToSet(w.row.log) ELSE dbLog
             /\ db'.windows = IF w.table = "windows" THEN db.windows \cup {w.row}
                              ELSE IF w.table = "restore" THEN w.row.windows ELSE db.windows
             /\ db'.siem = IF w.table = "siem" THEN db.siem \cup {w.row}
                           ELSE IF w.table = "restore" THEN w.row.siem ELSE db.siem
             /\ db'.listed = IF w.table \in {"listed", "restore"} THEN IF w.table = "listed" THEN w.row ELSE w.row.listed
                             ELSE db.listed
             /\ db' = [evidence |-> db'.evidence, windows |-> db'.windows, siem |-> db'.siem, listed |-> db'.listed]
             /\ dbKept' = IF w.table = "backup" THEN [dbKept EXCEPT ![w.row.id] = w.row.content] ELSE dbKept
             /\ ~Conflicts(w)
             /\ IsWrite(w)
<1>. DEFINE w == chain[p][1]
<1>1. IsList(chain[p]) /\ chain[p] # <<>>
  BY DEF StoreInv, TypeInv, PersistAudit
<1>2. Head(chain[p]) = w /\ Len(chain[p]) >= 1
  BY <1>1, ListTail
<1>3. IsWrite(w)
  <2>1. 1 \in 1..Len(chain[p])
    BY <1>1, <1>2 DEF IsList
  <2>. QED
    BY <2>1 DEF StoreInv, TypeInv
<1>4. /\ dbLog' = CASE w.table = "log" -> dbLog \cup {w.row}
                    [] w.table = "restore" -> ToSet(w.row.log)
                    [] OTHER -> dbLog
      /\ db' = CASE w.table \in {"evidence", "windows", "siem"} -> [db EXCEPT ![w.table] = @ \cup {w.row}]
                 [] w.table = "listed" -> [db EXCEPT !.listed = w.row]
                 [] w.table = "restore" -> Rest(w.row)
                 [] OTHER -> db
      /\ dbKept' = IF w.table = "backup" THEN [dbKept EXCEPT ![w.row.id] = w.row.content] ELSE dbKept
      /\ ~Conflicts(w)
  BY <1>2 DEF PersistAudit
<1>5. db = [evidence |-> db.evidence, windows |-> db.windows, siem |-> db.siem, listed |-> db.listed]
  BY DEF StoreInv, TypeInv
<1>. HIDE DEF w
<1>6. dbLog' = IF w.table = "log" THEN dbLog \cup {w.row} ELSE IF w.table = "restore" THEN ToSet(w.row.log) ELSE dbLog
  BY <1>4
<1>7. /\ w.table = "evidence" => db' = [db EXCEPT !["evidence"] = @ \cup {w.row}]
      /\ w.table = "windows" => db' = [db EXCEPT !["windows"] = @ \cup {w.row}]
      /\ w.table = "siem" => db' = [db EXCEPT !["siem"] = @ \cup {w.row}]
      /\ w.table = "listed" => db' = [db EXCEPT !.listed = w.row]
      /\ w.table = "restore" => db' = Rest(w.row)
      /\ w.table \in {"log", "backup"} => db' = db
  BY <1>4
<1>. DEFINE Is(x, e, v, s, l) == x = [evidence |-> e, windows |-> v, siem |-> s, listed |-> l]
<1>8. /\ w.table = "evidence" => Is(db', db.evidence \cup {w.row}, db.windows, db.siem, db.listed)
      /\ w.table = "windows" => Is(db', db.evidence, db.windows \cup {w.row}, db.siem, db.listed)
      /\ w.table = "siem" => Is(db', db.evidence, db.windows, db.siem \cup {w.row}, db.listed)
      /\ w.table = "listed" => Is(db', db.evidence, db.windows, db.siem, w.row)
      /\ w.table = "restore" => Is(db', w.row.evidence, w.row.windows, w.row.siem, w.row.listed)
      /\ w.table \in {"log", "backup"} => Is(db', db.evidence, db.windows, db.siem, db.listed)
  BY <1>5, <1>7 DEF Rest
<1>9. w.table \in Tables
  BY <1>3 DEF IsWrite
<1>10. /\ db'.windows = IF w.table = "windows" THEN db.windows \cup {w.row}
                        ELSE IF w.table = "restore" THEN w.row.windows ELSE db.windows
       /\ db'.siem = IF w.table = "siem" THEN db.siem \cup {w.row}
                     ELSE IF w.table = "restore" THEN w.row.siem ELSE db.siem
       /\ db'.listed = IF w.table \in {"listed", "restore"} THEN IF w.table = "listed" THEN w.row ELSE w.row.listed
                       ELSE db.listed
       /\ db' = [evidence |-> db'.evidence, windows |-> db'.windows, siem |-> db'.siem, listed |-> db'.listed]
  <2>1. CASE w.table = "evidence"
    BY <1>8, <2>1
  <2>2. CASE w.table = "windows"
    BY <1>8, <2>2
  <2>3. CASE w.table = "siem"
    BY <1>8, <2>3
  <2>4. CASE w.table = "listed"
    BY <1>8, <2>4
  <2>5. CASE w.table = "restore"
    BY <1>8, <2>5
  <2>6. CASE w.table \in {"log", "backup"}
    BY <1>8, <2>6
  <2>. QED
    BY <1>9, <2>1, <2>2, <2>3, <2>4, <2>5, <2>6 DEF Tables
<1>. QED
  BY <1>3, <1>4, <1>6, <1>10 DEF w


LEMMA PersistStep == ASSUME StoreInv, NEW p \in AuditProcess, PersistAudit(p) PROVE StoreInv'
<1>. DEFINE list == chain[p]
            rest == Tail(chain[p])
            w == chain[p][1]
<1>0. TypeInv /\ CopiesInv /\ RowsInv /\ AuditAloneInv /\ HydratingInv /\ QueueInv
  BY DEF StoreInv
<1>1. /\ phase[p] = "up" /\ ~rejected[p] /\ list # <<>>
      /\ chain' = [chain EXCEPT ![p] = rest]
      /\ UNCHANGED <<mem, kept, rejected, phase, clock, starts, alone>>
  BY DEF PersistAudit
<1>2. /\ chain' = [q \in AuditProcess |-> chain'[q]] /\ chain'[p] = rest
      /\ \A q \in AuditProcess : q # p => chain'[q] = chain[q]
  BY <1>0, <1>1 DEF TypeInv
<1>3. IsList(list) /\ Len(list) \in Nat
  BY <1>0 DEF TypeInv, IsList
<1>4. /\ Len(list) >= 1 /\ IsList(rest) /\ Len(rest) = Len(list) - 1
      /\ \A i \in 1..Len(list) - 1 : rest[i] = list[i + 1]
  BY <1>1, <1>3, ListTail
<1>5. PICK M : Queued(p, M)
  BY <1>0, <1>1 DEF QueueInv, Running
<1>6. /\ dbLog' = IF w.table = "log" THEN dbLog \cup {w.row} ELSE IF w.table = "restore" THEN ToSet(w.row.log) ELSE dbLog
      /\ db'.windows = IF w.table = "windows" THEN db.windows \cup {w.row}
                       ELSE IF w.table = "restore" THEN w.row.windows ELSE db.windows
      /\ db'.siem = IF w.table = "siem" THEN db.siem \cup {w.row}
                    ELSE IF w.table = "restore" THEN w.row.siem ELSE db.siem
      /\ db' = [evidence |-> db'.evidence, windows |-> db'.windows, siem |-> db'.siem, listed |-> db'.listed]
      /\ dbKept' = IF w.table = "backup" THEN [dbKept EXCEPT ![w.row.id] = w.row.content] ELSE dbKept
      /\ ~Conflicts(w)
      /\ IsWrite(w)
  BY Rows
<1>7. /\ Good(M[0]) /\ Good(M[1]) /\ Follows(M[0], w, M[1])
      /\ alone => dbLog = ToSet(M[0].log) /\ db.windows = M[0].windows /\ db.siem = M[0].siem
      /\ ~alone => ToSet(M[0].log) \subseteq dbLog /\ M[0].siem \subseteq db.siem
  <2>1. 0 \in 0..Len(list) /\ 1 \in 0..Len(list) /\ 1 \in 1..Len(list) /\ 1 - 1 = 0
    BY <1>3, <1>4
  <2>. QED
    BY <1>5, <2>1 DEF Queued
<1>. HIDE DEF w, list, rest
<1>8. IsChain(M[0].log) /\ IsChain(M[1].log) /\ M[0].log \in Seq(LogRecord)
  BY <1>7 DEF Good, Sound, IsChain
<1>9. w.table = "log" => ToSet(M[1].log) = ToSet(M[0].log) \cup {w.row}
  BY <1>7, <1>8, ElementsOfLonger DEF Follows
<1>10. /\ alone => dbLog' = ToSet(M[1].log) /\ db'.windows = M[1].windows /\ db'.siem = M[1].siem
       /\ ~alone => ToSet(M[1].log) \subseteq dbLog' /\ M[1].siem \subseteq db'.siem /\ dbLog \subseteq dbLog' /\ db.siem \subseteq db'.siem
  <2>1. CASE alone
    BY <1>6, <1>7, <1>9, <2>1 DEF Follows
  <2>2. CASE ~alone
    BY <1>6, <1>7, <1>9, <2>2 DEF Follows, IsWrite
  <2>. QED
    BY <2>1, <2>2
<1>11. TypeInv'
  <2>1. \A i \in 1..Len(rest) : IsWrite(rest[i])
    <3>1. \A i \in 1..Len(rest) : i + 1 \in 1..Len(list) /\ rest[i] = list[i + 1]
      BY <1>3, <1>4
    <3>. QED
      BY <1>0, <3>1 DEF TypeInv, list
  <2>2. \A q \in AuditProcess : IsList(chain'[q]) /\ \A i \in 1..Len(chain'[q]) : IsWrite(chain'[q][i])
    BY <1>0, <1>2, <1>4, <2>1 DEF TypeInv
  <2>3. \A q \in AuditProcess : IsList(chain'[q]) /\ \A i \in 1..Len(chain'[q]) : IsWrite(chain[q][i])'
    BY <1>1, <2>2 DEF IsWrite
  <2>4. dbKept' = [b \in AuditBackupId |-> dbKept'[b]]
    BY <1>0, <1>6 DEF TypeInv
  <2>5. /\ clock' \in Nat
        /\ mem' = [q \in AuditProcess |-> mem'[q]]
        /\ kept' = [q \in AuditProcess |-> [b \in AuditBackupId |-> kept'[q][b]]]
        /\ rejected' \in [AuditProcess -> BOOLEAN]
        /\ phase' \in [AuditProcess -> {"down", "hydrating", "up", "refused"}]
    BY <1>0, <1>1 DEF TypeInv
  <2>. QED
    BY <1>2, <1>6, <2>3, <2>4, <2>5 DEF TypeInv
<1>12. CopiesInv'
  <2>1. \A b \in AuditBackupId : dbKept'[b] # None => Sound(dbKept'[b])
    BY <1>0, <1>6 DEF TypeInv, CopiesInv, IsWrite
  <2>. QED
    BY <1>0, <1>1, <2>1 DEF CopiesInv, Good
<1>13. RowsInv'
  <2>. DEFINE n == WithLog(InOrder(dbLog'), db')
  <2>1. IsState(n) /\ n.log = InOrder(dbLog') /\ n.windows = db'.windows /\ n.siem = db'.siem
    BY DEF IsState, WithLog
  <2>. HIDE DEF n
  <2>2. CASE alone
    <3>1. InOrder(dbLog') = M[1].log
      BY <1>8, <1>10, <2>2, ChainRows
    <3>2. Good(n)
      BY <1>7, <1>10, <2>1, <2>2, <3>1, SameParts
    <3>. QED
      BY <1>1, <1>10, <2>2, <3>1, <3>2 DEF RowsInv, Good, n
  <2>3. CASE ~alone
    <3>. DEFINE d == WithLog(InOrder(dbLog), db)
    <3>0. /\ d.log = InOrder(dbLog) /\ d.windows = db.windows /\ d.siem = db.siem
          /\ Good(d) /\ dbLog = ToSet(InOrder(dbLog))
      BY <1>0 DEF RowsInv, WithLog
    <3>. HIDE DEF d
    <3>1. IsChain(InOrder(dbLog')) /\ dbLog' = ToSet(InOrder(dbLog'))
      <4>1. CASE w.table = "log"
        <5>1. M[1].log = Append(M[0].log, w.row)
          BY <1>7, <4>1 DEF Follows
        <5>2. w.row.sequence = Len(M[0].log) + 1
          <6>1. Len(M[0].log) \in Nat /\ Len(M[1].log) = Len(M[0].log) + 1 /\ M[1].log[Len(M[0].log) + 1] = w.row
            BY <1>8, <5>1
          <6>2. Len(M[0].log) + 1 \in 1..Len(M[1].log)
            BY <6>1
          <6>. QED
            BY <1>8, <6>1, <6>2 DEF IsChain
        <5>3. \A x \in dbLog : x.sequence # w.row.sequence
          BY <1>6, <4>1 DEF Conflicts
        <5>4. IsChain(InOrder(dbLog)) /\ ToSet(M[0].log) \subseteq ToSet(InOrder(dbLog))
          BY <1>7, <2>3, <3>0 DEF Good, Sound
        <5>5. M[0].log = InOrder(dbLog)
          BY <1>8, <3>0, <5>2, <5>3, <5>4, NoOtherRows
        <5>6. dbLog' = ToSet(M[1].log)
          BY <1>6, <1>9, <3>0, <4>1, <5>5
        <5>. QED
          BY <1>8, <5>6, ChainRows
      <4>2. CASE w.table # "log"
        <5>1. dbLog' = dbLog
          BY <1>6, <2>3, <4>2 DEF IsWrite
        <5>. QED
          BY <3>0, <5>1 DEF Good, Sound
      <4>. QED
        BY <4>1, <4>2
    <3>2. Traced(db'.siem)
      <4>1. Traced(db.siem)
        BY <3>0 DEF Good, Sound
      <4>2. CASE w.table = "siem"
        <5>1. db'.siem = db.siem \cup {w.row} /\ M[1].siem = M[0].siem \cup {w.row}
          BY <1>6, <1>7, <4>2 DEF Follows
        <5>2. Traced(M[1].siem) /\ M[0].siem \subseteq db.siem
          BY <1>7, <2>3 DEF Good, Sound
        <5>3. \A e \in db.siem : e.id # w.row.id
          <6>1. w.row.id \notin {e.id : e \in db[w.table]} /\ db[w.table] = db.siem
            BY <1>6, <4>2 DEF Conflicts
          <6>. QED
            BY <6>1
        <5>4. IsDelivery(w.row)
          BY <5>1, <5>2 DEF Traced
        <5>5. w.row.replayOf = None \/ \E d2 \in db'.siem : d2.id = w.row.replayOf /\ d2.window = w.row.window
          BY <5>1, <5>2 DEF Traced
        <5>. QED
          BY <4>1, <5>1, <5>3, <5>4, <5>5 DEF Traced
      <4>3. CASE w.table # "siem"
        <5>1. db'.siem = db.siem
          BY <1>6, <2>3, <4>3 DEF IsWrite
        <5>. QED
          BY <4>1, <5>1
      <4>. QED
        BY <4>2, <4>3
    <3>4. Good(n)
      BY <2>1, <2>3, <3>1, <3>2 DEF Good, Sound
    <3>. QED
      BY <1>1, <3>1, <3>4 DEF RowsInv, Good, n
  <2>. QED
    BY <2>2, <2>3
<1>14. AuditAloneInv'
  BY <1>0, <1>1 DEF AuditAloneInv
<1>15. HydratingInv'
  <2>. SUFFICES ASSUME NEW q \in AuditProcess, phase'[q] = "hydrating"
                PROVE  /\ chain'[q] = <<>> /\ ~rejected'[q]
                       /\ alone' => dbLog' = ToSet(mem'[q].log)
                       /\ ~alone' => ToSet(mem'[q].log) \subseteq dbLog'
    BY DEF HydratingInv
  <2>1. q # p /\ phase[q] = "hydrating"
    BY <1>1
  <2>2. ~alone
    BY <1>0, <1>1, <2>1 DEF AuditAloneInv
  <2>. QED
    BY <1>0, <1>1, <1>2, <1>10, <2>1, <2>2 DEF HydratingInv
<1>16. QueueInv'
  <2>. SUFFICES ASSUME NEW q \in AuditProcess, Running(q)' PROVE \E N : Queued(q, N)'
    BY DEF QueueInv
  <2>1. CASE q # p
    <3>1. ~alone /\ Running(q)
      BY <1>0, <1>1, <2>1 DEF AuditAloneInv, Running
    <3>2. PICK N : Queued(q, N)
      BY <1>0, <3>1 DEF QueueInv
    <3>3. ToSet(N[0].log) \subseteq dbLog' /\ N[0].siem \subseteq db'.siem
      BY <1>10, <3>1, <3>2 DEF Queued
    <3>4. Queued(q, N)'
      BY <1>1, <1>2, <2>1, <3>1, <3>2, <3>3 DEF Queued, Good
    <3>. QED
      BY <3>4
  <2>2. CASE q = p
    <3>1. PICK N : N = [i \in 0..Len(rest) |-> M[i + 1]]
      OBVIOUS
    <3>2. \A i \in 0..Len(rest) : N[i] = M[i + 1] /\ i + 1 \in 0..Len(list)
      BY <1>3, <1>4, <3>1
    <3>3. N[0] = M[1] /\ N[Len(rest)] = M[Len(list)]
      <4>1. 0 \in 0..Len(rest) /\ Len(rest) \in 0..Len(rest) /\ Len(rest) + 1 = Len(list) /\ 0 + 1 = 1
        BY <1>3, <1>4
      <4>. QED
        BY <3>2, <4>1
    <3>4. ASSUME NEW i \in 1..Len(rest)
          PROVE  Follows(N[i - 1], rest[i], N[i])
      <4>1. /\ i - 1 \in 0..Len(rest) /\ i \in 0..Len(rest) /\ (i - 1) + 1 = i /\ i + 1 \in 1..Len(list)
            /\ i \in 1..Len(list) - 1 /\ (i + 1) - 1 = i
        BY <1>3, <1>4
      <4>2. Follows(M[(i + 1) - 1], list[i + 1], M[i + 1])
        BY <1>5, <4>1 DEF Queued, list
      <4>. QED
        BY <1>4, <3>2, <4>1, <4>2
    <3>5. M[Len(list)] = mem[p] /\ \A i \in 0..Len(list) : Good(M[i])
      BY <1>5 DEF Queued, list
    <3>6. \A i \in 0..Len(rest) : Good(N[i])'
      BY <1>1, <3>2, <3>5 DEF Good
    <3>7. chain'[p] = rest /\ mem'[p] = mem[p] /\ alone' = alone
      BY <1>1, <1>2
    <3>8. Queued(p, N)'
      BY <1>10, <3>3, <3>4, <3>5, <3>6, <3>7 DEF Queued
    <3>. QED
      BY <2>2, <3>8
  <2>. QED
    BY <2>1, <2>2
<1>. QED
  BY <1>11, <1>12, <1>13, <1>14, <1>15, <1>16 DEF StoreInv


LEMMA PersistFailsStep == ASSUME StoreInv, NEW p \in AuditProcess, PersistAuditFails(p) PROVE StoreInv'
<1>0. TypeInv /\ CopiesInv /\ RowsInv /\ AuditAloneInv /\ HydratingInv /\ QueueInv
  BY DEF StoreInv
<1>1. /\ phase[p] = "up"
      /\ rejected' = [rejected EXCEPT ![p] = TRUE]
      /\ chain' = [chain EXCEPT ![p] = <<>>]
      /\ UNCHANGED <<mem, kept, phase, dbLog, db, dbKept, clock, starts, alone>>
  BY DEF PersistAuditFails
<1>2. /\ chain' = [q \in AuditProcess |-> chain'[q]] /\ chain'[p] = <<>> /\ rejected'[p] = TRUE
      /\ \A q \in AuditProcess : q # p => chain'[q] = chain[q] /\ rejected'[q] = rejected[q]
      /\ rejected' \in [AuditProcess -> BOOLEAN]
  BY <1>0, <1>1 DEF TypeInv
<1>3. TypeInv'
  <2>1. IsList(<<>>) /\ Len(<<>>) = 0
    BY DEF IsList
  <2>2. \A q \in AuditProcess : IsList(chain'[q]) /\ \A i \in 1..Len(chain'[q]) : IsWrite(chain'[q][i])
    BY <1>0, <1>2, <2>1 DEF TypeInv
  <2>3. \A q \in AuditProcess : IsList(chain'[q]) /\ \A i \in 1..Len(chain'[q]) : IsWrite(chain[q][i])'
    BY <1>1, <2>2 DEF IsWrite
  <2>. QED
    BY <1>0, <1>1, <1>2, <2>3 DEF TypeInv
<1>4. CopiesInv' /\ RowsInv' /\ AuditAloneInv'
  BY <1>0, <1>1 DEF CopiesInv, RowsInv, AuditAloneInv, Good, InOrder
<1>5. HydratingInv'
  BY <1>0, <1>1, <1>2 DEF HydratingInv
<1>6. QueueInv'
  <2>. SUFFICES ASSUME NEW q \in AuditProcess, Running(q)' PROVE \E M : Queued(q, M)'
    BY DEF QueueInv
  <2>1. q # p /\ Running(q)
    BY <1>1, <1>2 DEF Running
  <2>2. PICK M : Queued(q, M)
    BY <1>0, <2>1 DEF QueueInv
  <2>3. Queued(q, M)'
    BY <1>1, <1>2, <2>1, <2>2 DEF Queued, Good
  <2>. QED
    BY <2>3
<1>. QED
  BY <1>3, <1>4, <1>5, <1>6 DEF StoreInv

LEMMA StartStep == ASSUME StoreInv, NEW p \in AuditProcess, Start(p) PROVE StoreInv'
<1>. DEFINE log == InOrder(dbLog)
            m == WithLog(log, NoRest)
<1>0. TypeInv /\ CopiesInv /\ RowsInv /\ AuditAloneInv /\ HydratingInv /\ QueueInv
  BY DEF StoreInv
<1>1. IsChain(log) /\ dbLog = ToSet(log)
  BY <1>0 DEF RowsInv, Good, Sound, WithLog
<1>2. Continuous(dbLog)
  BY <1>1, ChainRows
<1>3. /\ alone => \A q \in AuditProcess \ {p} : phase[q] = "down"
      /\ chain' = [chain EXCEPT ![p] = <<>>]
      /\ rejected' = [rejected EXCEPT ![p] = FALSE]
      /\ phase' = [phase EXCEPT ![p] = "hydrating"]
      /\ mem' = [mem EXCEPT ![p] = m]
      /\ UNCHANGED <<kept, dbLog, db, dbKept, clock, alone>>
  BY <1>2 DEF Start
<1>4. Sound(m) /\ Fits(m) /\ m.log = log
  BY <1>1, EmptyState DEF WithLog
<1>. HIDE DEF m, log
<1>5. /\ chain' = [q \in AuditProcess |-> chain'[q]] /\ mem' = [q \in AuditProcess |-> mem'[q]]
      /\ rejected' \in [AuditProcess -> BOOLEAN] /\ phase' \in [AuditProcess -> {"down", "hydrating", "up", "refused"}]
      /\ chain'[p] = <<>> /\ rejected'[p] = FALSE /\ phase'[p] = "hydrating" /\ mem'[p] = m
      /\ \A q \in AuditProcess : q # p => /\ chain'[q] = chain[q] /\ rejected'[q] = rejected[q]
                                          /\ phase'[q] = phase[q] /\ mem'[q] = mem[q]
  BY <1>0, <1>3 DEF TypeInv
<1>6. TypeInv'
  <2>1. IsList(<<>>) /\ Len(<<>>) = 0
    BY DEF IsList
  <2>2. \A q \in AuditProcess : IsList(chain'[q]) /\ \A i \in 1..Len(chain'[q]) : IsWrite(chain'[q][i])
    BY <1>0, <1>5, <2>1 DEF TypeInv
  <2>3. \A q \in AuditProcess : IsList(chain'[q]) /\ \A i \in 1..Len(chain'[q]) : IsWrite(chain[q][i])'
    BY <1>3, <2>2 DEF IsWrite
  <2>. QED
    BY <1>0, <1>3, <1>5, <2>3 DEF TypeInv
<1>7. CopiesInv'
  <2>1. \A q \in AuditProcess : Good(mem'[q])
    BY <1>0, <1>4, <1>5 DEF CopiesInv, Good
  <2>. QED
    BY <1>0, <1>3, <2>1 DEF CopiesInv, Good
<1>8. RowsInv'
  BY <1>0, <1>3 DEF RowsInv, Good, InOrder
<1>9. AuditAloneInv'
  BY <1>0, <1>3, <1>5 DEF AuditAloneInv
<1>10. HydratingInv'
  BY <1>0, <1>1, <1>3, <1>4, <1>5 DEF HydratingInv
<1>11. QueueInv'
  <2>. SUFFICES ASSUME NEW q \in AuditProcess, Running(q)' PROVE \E M : Queued(q, M)'
    BY DEF QueueInv
  <2>1. q # p /\ Running(q)
    BY <1>5 DEF Running
  <2>2. PICK M : Queued(q, M)
    BY <1>0, <2>1 DEF QueueInv
  <2>3. Queued(q, M)'
    BY <1>3, <1>5, <2>1, <2>2 DEF Queued, Good
  <2>. QED
    BY <2>3
<1>. QED
  BY <1>6, <1>7, <1>8, <1>9, <1>10, <1>11 DEF StoreInv

LEMMA HydrateStep == ASSUME StoreInv, NEW p \in AuditProcess, Hydrate(p) PROVE StoreInv'
<1>. DEFINE m == WithLog(mem[p].log, db)
            d == WithLog(InOrder(dbLog), db)
            now == IF Valid(m) THEN "up" ELSE "refused"
<1>0. TypeInv /\ CopiesInv /\ RowsInv /\ AuditAloneInv /\ HydratingInv /\ QueueInv
  BY DEF StoreInv
<1>1. /\ phase[p] = "hydrating"
      /\ mem' = [mem EXCEPT ![p] = m]
      /\ kept' = [kept EXCEPT ![p] = dbKept]
      /\ phase' = [phase EXCEPT ![p] = now]
      /\ UNCHANGED <<chain, rejected, dbLog, db, dbKept, clock, starts, alone>>
  BY DEF Hydrate
<1>2. /\ m.log = mem[p].log /\ m.windows = db.windows /\ m.siem = db.siem /\ IsState(m)
      /\ d.log = InOrder(dbLog) /\ d.windows = db.windows /\ d.siem = db.siem
  BY DEF WithLog, IsState
<1>. HIDE DEF m, d
<1>3. IsChain(m.log) /\ Good(d)
  BY <1>0, <1>2 DEF CopiesInv, RowsInv, Good, Sound, d
<1>4. /\ chain[p] = <<>> /\ ~rejected[p]
      /\ alone => dbLog = ToSet(m.log)
      /\ ~alone => ToSet(m.log) \subseteq dbLog
  BY <1>0, <1>1, <1>2 DEF HydratingInv
<1>5. alone => m.log = d.log
  BY <1>2, <1>3, <1>4, ChainRows
<1>6. Good(m)
  BY <1>2, <1>3, <1>5 DEF Good, Sound, Fits
<1>7. now = "refused" => ~Valid(m)
  OBVIOUS
<1>8. now \in {"up", "refused"}
  OBVIOUS
<1>. HIDE DEF now
<1>9. /\ mem' = [q \in AuditProcess |-> mem'[q]] /\ phase' \in [AuditProcess -> {"down", "hydrating", "up", "refused"}]
      /\ phase'[p] = now /\ mem'[p] = m
      /\ \A q \in AuditProcess : q # p => phase'[q] = phase[q] /\ mem'[q] = mem[q]
  BY <1>0, <1>1, <1>8 DEF TypeInv
<1>10. /\ kept' = [q \in AuditProcess |-> [b \in AuditBackupId |-> kept'[q][b]]]
       /\ \A q \in AuditProcess, b \in AuditBackupId : kept'[q][b] = IF q = p THEN dbKept[b] ELSE kept[q][b]
  <2>1. kept = [q \in AuditProcess |-> [b \in AuditBackupId |-> kept[q][b]]] /\ dbKept = [b \in AuditBackupId |-> dbKept[b]]
    BY <1>0 DEF TypeInv
  <2>2. kept' = [q \in AuditProcess |-> IF q = p THEN dbKept ELSE kept[q]]
    BY <1>1, <2>1
  <2>3. kept' = [q \in AuditProcess |-> [b \in AuditBackupId |-> IF q = p THEN dbKept[b] ELSE kept[q][b]]]
    BY <2>1, <2>2
  <2>. QED
    BY <2>3
<1>11. TypeInv'
  <2>1. \A q \in AuditProcess : IsList(chain'[q]) /\ \A i \in 1..Len(chain'[q]) : IsWrite(chain[q][i])'
    BY <1>0, <1>1 DEF TypeInv, IsWrite
  <2>. QED
    BY <1>0, <1>1, <1>9, <1>10, <2>1 DEF TypeInv
<1>12. CopiesInv'
  <2>1. \A q \in AuditProcess : Good(mem'[q])
    BY <1>0, <1>6, <1>9 DEF CopiesInv
  <2>2. \A q \in AuditProcess, b \in AuditBackupId : kept'[q][b] # None => Sound(kept'[q][b])
    BY <1>0, <1>10 DEF CopiesInv
  <2>. QED
    BY <1>0, <1>1, <2>1, <2>2 DEF CopiesInv, Good
<1>13. RowsInv'
  BY <1>0, <1>1 DEF RowsInv, Good, InOrder
<1>14. AuditAloneInv'
  BY <1>0, <1>1, <1>7, <1>8, <1>9 DEF AuditAloneInv
<1>15. HydratingInv'
  BY <1>0, <1>1, <1>8, <1>9 DEF HydratingInv
<1>16. QueueInv'
  <2>. SUFFICES ASSUME NEW q \in AuditProcess, Running(q)' PROVE \E M : Queued(q, M)'
    BY DEF QueueInv
  <2>1. CASE q # p
    <3>1. PICK M : Queued(q, M)
      BY <1>0, <1>1, <1>9, <2>1 DEF QueueInv, Running
    <3>2. Queued(q, M)'
      BY <1>1, <1>9, <2>1, <3>1 DEF Queued, Good
    <3>. QED
      BY <3>2
  <2>2. CASE q = p
    <3>1. PICK M : M = [i \in {0} |-> m]
      OBVIOUS
    <3>2. M[0] = m
      BY <3>1
    <3>3. Len(chain'[p]) = 0 /\ mem'[p] = m /\ alone' = alone /\ dbLog' = dbLog /\ db' = db
      BY <1>1, <1>4, <1>9
    <3>4. Good(M[0])'
      BY <1>1, <1>6, <3>2 DEF Good
    <3>5. \A i \in 0..Len(chain'[p]) : i = 0
      BY <3>3
    <3>6. \A i \in 1..Len(chain'[p]) : FALSE
      BY <3>3
    <3>7. \A i \in 0..Len(chain'[p]) : Good(M[i])'
      BY <3>4, <3>5
    <3>8. Queued(p, M)'
      BY <1>2, <1>4, <3>2, <3>3, <3>6, <3>7 DEF Queued
    <3>. QED
      BY <2>2, <3>8
  <2>. QED
    BY <2>1, <2>2
<1>. QED
  BY <1>11, <1>12, <1>13, <1>14, <1>15, <1>16 DEF StoreInv

LEMMA TickStep == ASSUME StoreInv, Tick PROVE StoreInv'
<1>0. TypeInv /\ CopiesInv /\ RowsInv /\ AuditAloneInv /\ HydratingInv /\ QueueInv
  BY DEF StoreInv
<1>1. /\ clock \in Nat /\ clock' = clock + 1
      /\ UNCHANGED <<mem, kept, chain, rejected, phase, dbLog, db, dbKept, starts, alone>>
  BY <1>0 DEF Tick, TypeInv
<1>2. TypeInv'
  <2>1. \A q \in AuditProcess : \A i \in 1..Len(chain[q]) : IsWrite(chain[q][i])'
    BY <1>0, <1>1 DEF TypeInv, IsWrite
  <2>2. \A q \in AuditProcess : IsList(chain'[q]) /\ \A i \in 1..Len(chain'[q]) : IsWrite(chain[q][i])'
    BY <1>0, <1>1, <2>1 DEF TypeInv
  <2>. QED
    BY <1>0, <1>1, <2>2 DEF TypeInv
<1>3. CopiesInv'
  <2>1. \A q \in AuditProcess : Good(mem[q])'
    BY <1>0, <1>1 DEF CopiesInv, Good
  <2>. QED
    BY <1>0, <1>1, <2>1 DEF CopiesInv
<1>4. RowsInv'
  BY <1>0, <1>1 DEF RowsInv, Good, InOrder
<1>5. AuditAloneInv' /\ HydratingInv'
  BY <1>0, <1>1 DEF AuditAloneInv, HydratingInv
<1>6. QueueInv'
  <2>. SUFFICES ASSUME NEW q \in AuditProcess, Running(q)' PROVE \E M : Queued(q, M)'
    BY DEF QueueInv
  <2>1. PICK M : Queued(q, M)
    BY <1>0, <1>1 DEF QueueInv, Running
  <2>2. \A i \in 0..Len(chain[q]) : Good(M[i])'
    BY <1>1, <2>1 DEF Queued, Good
  <2>3. Queued(q, M)'
    BY <1>1, <2>1, <2>2 DEF Queued
  <2>. QED
    BY <2>3
<1>. QED
  BY <1>2, <1>3, <1>4, <1>5, <1>6 DEF StoreInv

LEMMA StoreStep == StoreInv /\ [AuditNext]_auditVars => StoreInv'
<1>. SUFFICES ASSUME StoreInv, [AuditNext]_auditVars PROVE StoreInv'
  OBVIOUS
<1>1. ASSUME NEW p \in AuditProcess, NEW e \in Event, AppendAuditEvent(p, e) PROVE StoreInv'
  BY <1>1, AppendStep
<1>2. ASSUME NEW p \in AuditProcess, NEW x \in ExportId, WriteEvidenceExport(p, x) PROVE StoreInv'
  BY <1>2, ExportStep
<1>3. ASSUME NEW p \in AuditProcess, NEW id \in WindowId, SignAuditWindow(p, id) PROVE StoreInv'
  BY <1>3, SignStep
<1>4. ASSUME NEW p \in AuditProcess, RecordSiemDelivery(p) \/ ReplaySiemDelivery(p) PROVE StoreInv'
  BY <1>4, RecordDeliveryStep, ReplayStep
<1>5. ASSUME NEW p \in AuditProcess, NEW b \in AuditBackupId, CreateAuditBackup(p, b) \/ RestoreAuditBackup(p, b) PROVE StoreInv'
  BY <1>5, BackupStep, RestoreStep
<1>6. ASSUME NEW p \in AuditProcess, PersistAudit(p) \/ PersistAuditFails(p) \/ Start(p) \/ Hydrate(p) PROVE StoreInv'
  BY <1>6, PersistStep, PersistFailsStep, StartStep, HydrateStep
<1>7. CASE Tick
  BY <1>7, TickStep
<1>8. CASE UNCHANGED auditVars
  <2>1. UNCHANGED <<mem, kept, chain, rejected, phase, dbLog, db, dbKept, clock, alone>>
    BY <1>8 DEF auditVars
  <2>2. (TypeInv /\ CopiesInv /\ RowsInv /\ AuditAloneInv /\ HydratingInv)'
    BY <2>1 DEF StoreInv, TypeInv, CopiesInv, RowsInv, AuditAloneInv, HydratingInv, Good, InOrder, IsWrite
  <2>3. QueueInv'
    BY <2>1 DEF StoreInv, QueueInv, Running, Queued, Good
  <2>. QED
    BY <2>2, <2>3 DEF StoreInv
<1>. QED
  BY <1>1, <1>2, <1>3, <1>4, <1>5, <1>6, <1>7, <1>8 DEF AuditNext

-----------------------------------------------------------------------------

\* Whatever two processes append, however their writes interleave, conflict and get lost, the
\* rows of the audit log are one chain without a gap. What one process leaves in the other
\* tables, stopped between any two writes and restored from any backup, agrees with it, and its
\* next start refuses it only if an event was appended into the period of a window that was
\* signed before (appendAuditRecord, signAuditWindow, #persistRestoreSnapshot, validateStoreState).
THEOREM AuditRowsHold == AuditSpec => []AuditRowsAreAChain
<1>1. StoreInv => AuditRowsAreAChain
  <2>. SUFFICES ASSUME StoreInv PROVE AuditRowsAreAChain
    OBVIOUS
  <2>. DEFINE d == WithLog(InOrder(dbLog), db)
  <2>1. IsChain(InOrder(dbLog)) /\ dbLog = ToSet(InOrder(dbLog)) /\ Good(d) /\ IsChain(d.log)
    BY DEF StoreInv, RowsInv, Good, Sound, WithLog
  <2>2. DatabaseLogIsAChain
    BY <2>1, ChainRows DEF DatabaseLogIsAChain
  <2>. HIDE DEF d
  <2>3. alone => Consistent(d)
    BY <2>1, FitsIsConsistent DEF Good
  <2>4. ASSUME alone, NEW p \in AuditProcess
        PROVE  /\ Consistent(mem[p])
               /\ phase[p] = "refused" => \E w \in mem[p].windows : LateEvents(w, mem[p].log) # {}
    <3>1. (phase[p] = "refused" => ~Valid(mem[p])) /\ Good(mem[p])
      BY <2>4 DEF StoreInv, AuditAloneInv, CopiesInv
    <3>2. IsChain(mem[p].log) /\ Fits(mem[p])
      BY <2>4, <3>1 DEF Good, Sound
    <3>. QED
      BY <3>1, <3>2, FitsIsConsistent, RefusedForLateEvents
  <2>. QED
    BY <2>2, <2>3, <2>4 DEF AuditRowsAreAChain, OnlyLateEventsRefuse, d
<1>. QED
  BY <1>1, StoreInit, StoreStep, PTL DEF AuditSpec

\* If the integrity report of a process is clean, every window that was delivered at all was
\* delivered once with success and with the events that it signs, also when deliveries of two
\* processes, of earlier runs and of a backup come together (siemDeliveryFindings,
\* replaySiemDeliveryLogEntry). None is no identifier.
THEOREM VerifiedMeansDeliveredHolds ==
  ASSUME \A kind, of, at : <<kind, of, at>> # None
  PROVE  AuditSpec => []VerifiedMeansDelivered
<1>1. StoreInv => VerifiedMeansDelivered
  <2>. SUFFICES ASSUME StoreInv, NEW p \in AuditProcess, verifyIntegrity(mem[p]), NEW d \in mem[p].siem
                PROVE  \E e \in mem[p].siem, w \in mem[p].windows :
                         e.window = d.window /\ e.status = "delivered" /\ w.id = d.window /\ e.events = w.events
    BY DEF VerifiedMeansDelivered
  <2>1. Traced(mem[p].siem)
    BY DEF StoreInv, CopiesInv, Good, Sound
  <2>2. \A e \in mem[p].siem : \E w \in mem[p].windows : w.id = e.window /\ w.events = e.events
    BY DEF verifyIntegrity, Valid, siemDeliveryFindings
  <2>3. \A e \in mem[p].siem : e.status = "failed" => \E x \in mem[p].siem : x.replayOf = e.id /\ x.status = "delivered"
    BY DEF verifyIntegrity, operationalFailures
  <2>4. CASE d.status = "failed"
    <3>1. PICK e \in mem[p].siem : e.replayOf = d.id /\ e.status = "delivered"
      BY <2>3, <2>4
    <3>2. d.id # None
      BY <2>1 DEF Traced, IsDelivery
    <3>3. e.window = d.window
      BY <2>1, <3>1, <3>2 DEF Traced
    <3>. QED
      BY <2>2, <3>1, <3>3
  <2>5. CASE d.status # "failed"
    <3>1. d.status = "delivered"
      BY <2>1, <2>5 DEF Traced, IsDelivery
    <3>. QED
      BY <2>2, <3>1
  <2>. QED
    BY <2>4, <2>5
<1>. QED
  BY <1>1, StoreInit, StoreStep, PTL DEF AuditSpec


-----------------------------------------------------------------------------
(* Backups and the metadata that lists them *)

StoredIds == {b \in AuditBackupId : dbKept[b] # None}

\* The backups that are stored once the first i of these writes are made.
Ahead(list, i) == StoredIds \cup {list[j].row.id : j \in {k \in 1..i : list[k].table = "backup"}}

\* The backups that the rows of a write list.
Lists(w) ==
  IF w.table = "backup" THEN w.row.content.listed
  ELSE IF w.table = "restore" THEN w.row.listed
  ELSE IF w.table = "listed" THEN w.row
  ELSE {}

\* What is listed is stored, or will be before the write that lists it.
ListedInv ==
  /\ db.listed \subseteq StoredIds
  /\ \A b \in StoredIds : dbKept[b].listed \subseteq StoredIds
  /\ \A p \in AuditProcess : Running(p) =>
       /\ mem[p].listed \subseteq Ahead(chain[p], Len(chain[p]))
       /\ \A b \in AuditBackupId : kept[p][b] # None => kept[p][b].listed \subseteq Ahead(chain[p], Len(chain[p]))
       /\ \A i \in 1..Len(chain[p]) : Lists(chain[p][i]) \subseteq Ahead(chain[p], i)

LEMMA AheadGrows ==
  ASSUME NEW list, IsList(list), NEW writes, IsList(writes)
  PROVE  /\ \A i \in 0..Len(list) : Ahead(list \o writes, i) = Ahead(list, i)
         /\ Ahead(list, Len(list)) \subseteq Ahead(list \o writes, Len(list \o writes))
         /\ \A i \in 1..Len(writes) : Ahead(list, Len(list)) \subseteq Ahead(list \o writes, Len(list) + i)
<1>. DEFINE longer == list \o writes
<1>1. /\ Len(longer) = Len(list) + Len(writes) /\ Len(list) \in Nat /\ Len(writes) \in Nat
      /\ \A i \in 1..Len(list) : longer[i] = list[i]
  BY ListConcat DEF IsList
<1>. HIDE DEF longer
<1>2. \A i \in 0..Len(list) : \A k \in 1..i : k \in 1..Len(list)
  BY <1>1
<1>3. \A i \in 0..Len(list) : Ahead(longer, i) = Ahead(list, i)
  BY <1>1, <1>2 DEF Ahead
<1>4. ASSUME NEW n \in Nat, n >= Len(list)
      PROVE  Ahead(list, Len(list)) \subseteq Ahead(longer, n)
  <2>1. \A k \in 1..Len(list) : k \in 1..n
    BY <1>1, <1>4
  <2>. QED
    BY <1>1, <2>1 DEF Ahead
<1>5. Len(longer) \in Nat /\ Len(longer) >= Len(list) /\ \A i \in 1..Len(writes) : Len(list) + i \in Nat /\ Len(list) + i >= Len(list)
  BY <1>1
<1>. QED
  BY <1>3, <1>4, <1>5 DEF longer

LEMMA AppliedListed ==
  ASSUME StoreInv, ListedInv, NEW p \in AuditProcess, NEW m, NEW writes, Apply(p, m, writes), IsList(writes),
         Running(p) =>
           /\ m.listed \subseteq Ahead(chain[p] \o writes, Len(chain[p] \o writes))
           /\ \A b \in AuditBackupId : kept'[p][b] # None => kept'[p][b].listed \subseteq Ahead(chain[p] \o writes, Len(chain[p] \o writes))
           /\ \A i \in 1..Len(writes) : Lists(writes[i]) \subseteq Ahead(chain[p] \o writes, Len(chain[p]) + i),
         \A q \in AuditProcess : q # p => kept'[q] = kept[q]
  PROVE  ListedInv'
<1>. DEFINE list == chain[p]
            longer == chain[p] \o writes
<1>1. /\ mem' = [mem EXCEPT ![p] = m]
      /\ chain' = [chain EXCEPT ![p] = longer]
      /\ UNCHANGED <<rejected, phase, dbLog, db, dbKept, clock, starts, alone>>
  BY DEF Apply
<1>2. /\ mem'[p] = m /\ chain'[p] = longer
      /\ \A q \in AuditProcess : q # p => mem'[q] = mem[q] /\ chain'[q] = chain[q]
  BY <1>1 DEF StoreInv, TypeInv
<1>3. IsList(list)
  BY DEF StoreInv, TypeInv
<1>4. /\ Len(list) \in Nat
      /\ \A i \in 1..Len(list) : longer[i] = list[i]
      /\ \A i \in 1..Len(writes) : longer[Len(list) + i] = writes[i]
      /\ \A i \in 1..Len(longer) : i \in 1..Len(list) \/ i - Len(list) \in 1..Len(writes)
  BY <1>3, ListConcat DEF IsList
<1>5. \A i \in 0..Len(list) : Ahead(longer, i) = Ahead(list, i)
  BY <1>3, AheadGrows
<1>6. Running(p) => \A i \in 1..Len(writes) : Lists(writes[i]) \subseteq Ahead(longer, Len(list) + i)
  OBVIOUS
<1>7. Running(p) => m.listed \subseteq Ahead(longer, Len(longer))
  OBVIOUS
<1>8. Running(p) => \A b \in AuditBackupId : kept'[p][b] # None => kept'[p][b].listed \subseteq Ahead(longer, Len(longer))
  OBVIOUS
<1>. HIDE DEF list, longer
<1>9. StoredIds' = StoredIds /\ \A l, i : Ahead(l, i)' = Ahead(l, i)
  BY <1>1 DEF StoredIds, Ahead
<1>10. db'.listed \subseteq StoredIds' /\ \A b \in StoredIds' : dbKept'[b].listed \subseteq StoredIds'
  BY <1>1, <1>9 DEF ListedInv
<1>11. ASSUME NEW q \in AuditProcess, Running(q)'
       PROVE  /\ mem'[q].listed \subseteq Ahead(chain[q], Len(chain[q]))'
              /\ \A b \in AuditBackupId : kept'[q][b] # None => kept'[q][b].listed \subseteq Ahead(chain[q], Len(chain[q]))'
              /\ \A i \in 1..Len(chain'[q]) : Lists(chain[q][i])' \subseteq Ahead(chain[q], i)'
  <2>0. Running(q)
    BY <1>1, <1>11 DEF Running
  <2>1. CASE q # p
    <3>1. /\ mem[q].listed \subseteq Ahead(chain[q], Len(chain[q]))
          /\ \A b \in AuditBackupId : kept[q][b] # None => kept[q][b].listed \subseteq Ahead(chain[q], Len(chain[q]))
          /\ \A i \in 1..Len(chain[q]) : Lists(chain[q][i]) \subseteq Ahead(chain[q], i)
      BY <2>0 DEF ListedInv
    <3>2. chain'[q] = chain[q] /\ mem'[q] = mem[q] /\ kept'[q] = kept[q]
      BY <1>2, <2>1
    <3>. QED
      BY <1>9, <3>1, <3>2 DEF Ahead, Lists
  <2>2. CASE q = p
    <3>1. \A i \in 1..Len(longer) : Lists(longer[i]) \subseteq Ahead(longer, i)
      <4>. SUFFICES ASSUME NEW i \in 1..Len(longer) PROVE Lists(longer[i]) \subseteq Ahead(longer, i)
        OBVIOUS
      <4>1. CASE i \in 1..Len(list)
        <5>1. longer[i] = list[i] /\ Ahead(longer, i) = Ahead(list, i)
          <6>1. i \in 0..Len(list)
            BY <1>4, <4>1
          <6>. QED
            BY <1>4, <1>5, <4>1, <6>1
        <5>2. Lists(list[i]) \subseteq Ahead(list, i)
          BY <2>0, <2>2, <4>1 DEF ListedInv, list
        <5>. QED
          BY <5>1, <5>2
      <4>2. CASE i - Len(list) \in 1..Len(writes)
        <5>1. Len(list) + (i - Len(list)) = i
          BY <1>4
        <5>. QED
          BY <1>4, <1>6, <2>0, <2>2, <4>2, <5>1
      <4>. QED
        BY <1>4, <4>1, <4>2
    <3>2. chain'[p] = longer /\ mem'[p] = m
      BY <1>2
    <3>. QED
      BY <1>7, <1>8, <1>9, <2>0, <2>2, <3>1, <3>2 DEF Ahead, Lists
  <2>. QED
    BY <2>1, <2>2
<1>. QED
  BY <1>10, <1>11 DEF ListedInv


\* An operation that lists no backup.
LEMMA AppliedUnlisted ==
  ASSUME StoreInv, ListedInv, NEW p \in AuditProcess, NEW m, NEW w, Apply(p, m, <<w>>), kept' = kept,
         m.listed = mem[p].listed, Lists(w) = {}
  PROVE  ListedInv'
<1>. DEFINE writes == <<w>>
            all == Ahead(chain[p] \o writes, Len(chain[p] \o writes))
<1>1. IsList(writes) /\ Len(writes) = 1 /\ writes[1] = w
  BY DEF IsList
<1>2. Apply(p, m, writes)
  OBVIOUS
<1>. HIDE DEF writes
<1>3. IsList(chain[p])
  BY DEF StoreInv, TypeInv
<1>4. Ahead(chain[p], Len(chain[p])) \subseteq all
  BY <1>1, <1>3, AheadGrows
<1>5. Running(p) => /\ m.listed \subseteq all
                    /\ \A b \in AuditBackupId : kept'[p][b] # None => kept'[p][b].listed \subseteq all
  BY <1>4 DEF ListedInv
<1>6. \A i \in 1..Len(writes) : Lists(writes[i]) \subseteq Ahead(chain[p] \o writes, Len(chain[p]) + i)
  BY <1>1
<1>. QED
  BY <1>1, <1>2, <1>5, <1>6, AppliedListed

LEMMA UnlistedSteps ==
  ASSUME StoreInv, ListedInv, NEW p \in AuditProcess,
         \/ \E e \in Event : AppendAuditEvent(p, e)
         \/ \E x \in ExportId : WriteEvidenceExport(p, x)
         \/ \E id \in WindowId : SignAuditWindow(p, id)
         \/ RecordSiemDelivery(p) \/ ReplaySiemDelivery(p)
  PROVE  ListedInv'
<1>1. IsState(mem[p])
  BY DEF StoreInv, CopiesInv, Good, Sound
<1>2. ASSUME NEW v
      PROVE  /\ [mem[p] EXCEPT !.log = v].listed = mem[p].listed
             /\ [mem[p] EXCEPT !.evidence = v].listed = mem[p].listed
             /\ [mem[p] EXCEPT !.windows = v].listed = mem[p].listed
             /\ [mem[p] EXCEPT !.siem = v].listed = mem[p].listed
  BY <1>1, OtherParts
<1>3. ASSUME NEW row
      PROVE  /\ Lists(EnqueueWrite("log", row)) = {} /\ Lists(EnqueueWrite("evidence", row)) = {}
             /\ Lists(EnqueueWrite("windows", row)) = {} /\ Lists(EnqueueWrite("siem", row)) = {}
  BY DEF Lists, EnqueueWrite
<1>4. ASSUME NEW e \in Event, AppendAuditEvent(p, e) PROVE ListedInv'
  <2>. DEFINE RecordAt(at) == [sequence |-> Len(mem[p].log) + 1, event |-> e, prev |-> LastEvent(mem[p].log), at |-> at]
  <2>0. PICK at \in 0..clock :
          Apply(p, [mem[p] EXCEPT !.log = Append(@, RecordAt(at))], <<EnqueueWrite("log", RecordAt(at))>>)
    BY <1>4 DEF AppendAuditEvent
  <2>. DEFINE r == RecordAt(at)
              m == [mem[p] EXCEPT !.log = Append(@, r)]
  <2>1. Apply(p, m, <<EnqueueWrite("log", r)>>) /\ kept' = kept
    BY <1>4, <2>0 DEF AppendAuditEvent
  <2>2. m.listed = mem[p].listed
    BY <1>2
  <2>. HIDE DEF m, r
  <2>. QED
    BY <1>3, <2>1, <2>2, AppliedUnlisted
<1>5. ASSUME NEW x \in ExportId, WriteEvidenceExport(p, x) PROVE ListedInv'
  <2>. DEFINE m == [mem[p] EXCEPT !.evidence = @ \cup {x}]
  <2>1. Apply(p, m, <<EnqueueWrite("evidence", x)>>) /\ kept' = kept
    BY <1>5 DEF WriteEvidenceExport
  <2>2. m.listed = mem[p].listed
    BY <1>2
  <2>. HIDE DEF m
  <2>. QED
    BY <1>3, <2>1, <2>2, AppliedUnlisted
<1>6. ASSUME NEW id \in WindowId, SignAuditWindow(p, id) PROVE ListedInv'
  <2>. DEFINE Window(start, end) == [id |-> id, start |-> start, end |-> end,
                                     events |-> EventIds(mem[p].log, WindowEvents(mem[p].log, start, end))]
  <2>1. PICK start \in 0..MaxTime, end \in 0..MaxTime :
          Apply(p, [mem[p] EXCEPT !.windows = @ \cup {Window(start, end)}], <<EnqueueWrite("windows", Window(start, end))>>)
    BY <1>6 DEF SignAuditWindow
  <2>. DEFINE v == Window(start, end)
              m == [mem[p] EXCEPT !.windows = @ \cup {v}]
  <2>2. Apply(p, m, <<EnqueueWrite("windows", v)>>) /\ kept' = kept
    BY <1>6, <2>1 DEF SignAuditWindow
  <2>3. m.listed = mem[p].listed
    BY <1>2
  <2>. HIDE DEF m, v
  <2>. QED
    BY <1>3, <2>2, <2>3, AppliedUnlisted
<1>7. ASSUME NEW d, Deliver(p, d) PROVE ListedInv'
  <2>. DEFINE m == [mem[p] EXCEPT !.siem = @ \cup {d}]
  <2>1. Apply(p, m, <<EnqueueWrite("siem", d)>>) /\ kept' = kept
    BY <1>7 DEF Deliver
  <2>2. m.listed = mem[p].listed
    BY <1>2
  <2>. HIDE DEF m
  <2>. QED
    BY <1>3, <2>1, <2>2, AppliedUnlisted
<1>8. CASE RecordSiemDelivery(p)
  BY <1>7, <1>8 DEF RecordSiemDelivery
<1>9. CASE ReplaySiemDelivery(p)
  BY <1>7, <1>9 DEF ReplaySiemDelivery
<1>. QED
  BY <1>4, <1>5, <1>6, <1>8, <1>9

LEMMA BackupListed ==
  ASSUME StoreInv, ListedInv, NEW p \in AuditProcess, NEW b \in AuditBackupId, CreateAuditBackup(p, b)
  PROVE  ListedInv'
<1>. DEFINE m == mem[p]
            n == [m EXCEPT !.listed = @ \cup {b}]
            v == EnqueueWrite("backup", [id |-> b, content |-> n])
            w == EnqueueWrite("listed", n.listed)
            writes == <<v, w>>
            list == chain[p]
            longer == chain[p] \o writes
<1>1. Apply(p, n, writes) /\ kept' = [kept EXCEPT ![p][b] = n]
  BY DEF CreateAuditBackup
<1>2. IsState(m) /\ IsList(list)
  BY DEF StoreInv, TypeInv, CopiesInv, Good, Sound
<1>3. n.listed = m.listed \cup {b}
  BY <1>2, OtherParts
<1>4. v.table = "backup" /\ v.row.id = b /\ Lists(v) = n.listed /\ Lists(w) = n.listed
  BY DEF EnqueueWrite, Lists
<1>5. IsList(writes) /\ Len(writes) = 2 /\ writes[1] = v /\ writes[2] = w
  BY DEF IsList
<1>6. /\ Len(list) \in Nat /\ Len(longer) = Len(list) + 2
      /\ \A i \in 1..Len(writes) : longer[Len(list) + i] = writes[i]
  BY <1>2, <1>5, ListConcat DEF IsList
<1>7. /\ Ahead(list, Len(list)) \subseteq Ahead(longer, Len(longer))
      /\ \A i \in 1..Len(writes) : Ahead(list, Len(list)) \subseteq Ahead(longer, Len(list) + i)
  BY <1>2, <1>5, AheadGrows
<1>8. kept = [q \in AuditProcess |-> [c \in AuditBackupId |-> kept[q][c]]]
  BY DEF StoreInv, TypeInv
<1>9. Running(p) => /\ m.listed \subseteq Ahead(list, Len(list))
                    /\ \A c \in AuditBackupId : kept[p][c] # None => kept[p][c].listed \subseteq Ahead(list, Len(list))
  BY DEF ListedInv
<1>. HIDE DEF n, v, w
<1>10. /\ \A c \in AuditBackupId : kept'[p][c] = IF c = b THEN n ELSE kept[p][c]
       /\ \A q \in AuditProcess : q # p => kept'[q] = kept[q]
  BY <1>1, <1>8
<1>. HIDE DEF m, list, longer, writes
<1>11. longer[Len(list) + 1] = v
  BY <1>5, <1>6
<1>12. ASSUME NEW i \in 1..2
       PROVE  b \in Ahead(longer, Len(list) + i)
  <2>1. Len(list) + 1 \in 1..Len(list) + i
    BY <1>6
  <2>. QED
    BY <1>4, <1>11, <2>1 DEF Ahead
<1>13. Running(p) => \A i \in 1..2 : n.listed \subseteq Ahead(longer, Len(list) + i)
  BY <1>3, <1>5, <1>7, <1>9, <1>12
<1>14. Running(p) => /\ n.listed \subseteq Ahead(longer, Len(longer))
                     /\ \A c \in AuditBackupId : kept'[p][c] # None => kept'[p][c].listed \subseteq Ahead(longer, Len(longer))
  BY <1>6, <1>7, <1>9, <1>10, <1>13
<1>15. Running(p) => \A i \in 1..Len(writes) : Lists(writes[i]) \subseteq Ahead(longer, Len(list) + i)
  BY <1>4, <1>5, <1>13
<1>. QED
  BY <1>1, <1>5, <1>10, <1>14, <1>15, AppliedListed DEF list, longer

LEMMA RestoreListed ==
  ASSUME StoreInv, ListedInv, NEW p \in AuditProcess, NEW b \in AuditBackupId, RestoreAuditBackup(p, b)
  PROVE  ListedInv'
<1>. DEFINE n == kept[p][b]
            w == EnqueueWrite("restore", n)
            writes == <<w>>
            list == chain[p]
            longer == chain[p] \o writes
<1>1. n # None /\ Apply(p, n, writes) /\ kept' = kept
  BY DEF RestoreAuditBackup
<1>2. Lists(w) = n.listed
  BY DEF EnqueueWrite, Lists
<1>3. IsList(writes) /\ Len(writes) = 1 /\ writes[1] = w
  BY DEF IsList
<1>4. IsList(list)
  BY DEF StoreInv, TypeInv
<1>. HIDE DEF w, writes
<1>5. /\ Ahead(list, Len(list)) \subseteq Ahead(longer, Len(longer))
      /\ \A i \in 1..Len(writes) : Ahead(list, Len(list)) \subseteq Ahead(longer, Len(list) + i)
  BY <1>3, <1>4, AheadGrows
<1>6. Running(p) => \A c \in AuditBackupId : kept[p][c] # None => kept[p][c].listed \subseteq Ahead(list, Len(list))
  BY DEF ListedInv
<1>. HIDE DEF list, longer
<1>7. Running(p) => /\ n.listed \subseteq Ahead(longer, Len(longer))
                    /\ \A c \in AuditBackupId : kept'[p][c] # None => kept'[p][c].listed \subseteq Ahead(longer, Len(longer))
  BY <1>1, <1>5, <1>6
<1>8. Running(p) => \A i \in 1..Len(writes) : Lists(writes[i]) \subseteq Ahead(longer, Len(list) + i)
  BY <1>1, <1>2, <1>3, <1>5, <1>6
<1>. QED
  BY <1>1, <1>3, <1>7, <1>8, AppliedListed DEF list, longer


LEMMA PersistListed ==
  ASSUME \A log, evidence, windows, siem, listed :
           [log |-> log, evidence |-> evidence, windows |-> windows, siem |-> siem, listed |-> listed] # None,
         StoreInv, ListedInv, NEW p \in AuditProcess, PersistAudit(p)
  PROVE  ListedInv'
<1>. DEFINE list == chain[p]
            rest == Tail(chain[p])
            w == chain[p][1]
<1>0. TypeInv
  BY DEF StoreInv
<1>1. /\ phase[p] = "up" /\ ~rejected[p] /\ list # <<>>
      /\ chain' = [chain EXCEPT ![p] = rest]
      /\ UNCHANGED <<mem, kept, rejected, phase, clock, starts, alone>>
  BY DEF PersistAudit
<1>2. chain'[p] = rest /\ \A q \in AuditProcess : q # p => chain'[q] = chain[q]
  BY <1>0, <1>1 DEF TypeInv
<1>3. IsList(list) /\ Len(list) \in Nat
  BY <1>0 DEF TypeInv, IsList
<1>4. /\ Len(list) >= 1 /\ Len(rest) = Len(list) - 1
      /\ \A i \in 1..Len(list) - 1 : rest[i] = list[i + 1]
  BY <1>1, <1>3, ListTail
<1>5. /\ db'.listed = IF w.table \in {"listed", "restore"} THEN IF w.table = "listed" THEN w.row ELSE w.row.listed
                      ELSE db.listed
      /\ dbKept' = IF w.table = "backup" THEN [dbKept EXCEPT ![w.row.id] = w.row.content] ELSE dbKept
      /\ IsWrite(w)
  BY Rows
<1>6. /\ mem[p].listed \subseteq Ahead(list, Len(list))
      /\ \A b \in AuditBackupId : kept[p][b] # None => kept[p][b].listed \subseteq Ahead(list, Len(list))
      /\ \A i \in 1..Len(list) : Lists(list[i]) \subseteq Ahead(list, i)
  BY <1>1 DEF ListedInv, Running
<1>7. w = list[1] /\ 1 \in 1..Len(list)
  BY <1>3, <1>4
<1>. HIDE DEF w, list, rest
<1>8. w.table = "backup" => w.row.content # None /\ w.row.id \in AuditBackupId
  BY <1>5 DEF IsWrite, Sound, IsState
<1>9. StoredIds' = IF w.table = "backup" THEN StoredIds \cup {w.row.id} ELSE StoredIds
  BY <1>0, <1>5, <1>8 DEF StoredIds, TypeInv
<1>10. Ahead(list, 1) = StoredIds'
  <2>1. 1..1 = {1}
    OBVIOUS
  <2>. QED
    BY <1>7, <1>9, <2>1 DEF Ahead
<1>11. Lists(w) \subseteq StoredIds'
  BY <1>6, <1>7, <1>10
<1>12. StoredIds \subseteq StoredIds'
  BY <1>9
<1>13. db'.listed \subseteq StoredIds'
  BY <1>5, <1>11, <1>12 DEF ListedInv, Lists
<1>14. \A b \in StoredIds' : dbKept'[b].listed \subseteq StoredIds'
  <2>1. CASE w.table = "backup"
    <3>1. \A b \in AuditBackupId : dbKept'[b] = IF b = w.row.id THEN w.row.content ELSE dbKept[b]
      BY <1>0, <1>5, <1>8, <2>1 DEF TypeInv
    <3>2. w.row.content.listed \subseteq StoredIds'
      BY <1>11, <2>1 DEF Lists
    <3>3. \A b \in StoredIds' : b \in AuditBackupId /\ (b = w.row.id \/ b \in StoredIds)
      BY <1>8, <1>9, <2>1 DEF StoredIds
    <3>. QED
      BY <1>12, <3>1, <3>2, <3>3 DEF ListedInv
  <2>2. CASE w.table # "backup"
    BY <1>5, <1>9, <2>2 DEF ListedInv
  <2>. QED
    BY <2>1, <2>2
<1>15. ASSUME NEW l, NEW i
       PROVE  Ahead(l, i) \subseteq StoredIds' \cup {l[j].row.id : j \in {k \in 1..i : l[k].table = "backup"}}
  BY <1>12 DEF Ahead
<1>16. ASSUME NEW i \in 0..Len(rest)
       PROVE  Ahead(list, i + 1) \subseteq StoredIds' \cup {rest[j].row.id : j \in {k \in 1..i : rest[k].table = "backup"}}
  <2>. SUFFICES ASSUME NEW k \in 1..i + 1, list[k].table = "backup"
                PROVE  list[k].row.id \in StoredIds' \cup {rest[j].row.id : j \in {j \in 1..i : rest[j].table = "backup"}}
    BY <1>12 DEF Ahead
  <2>1. CASE k = 1
    BY <1>7, <1>9, <2>1
  <2>2. CASE k # 1
    <3>1. k - 1 \in 1..i /\ k - 1 \in 1..Len(list) - 1 /\ (k - 1) + 1 = k
      BY <1>3, <1>4, <2>2
    <3>2. rest[k - 1] = list[k]
      BY <1>4, <3>1
    <3>. QED
      BY <3>1, <3>2
  <2>. QED
    BY <2>1, <2>2
<1>17. ASSUME NEW q \in AuditProcess, Running(q)'
       PROVE  /\ mem'[q].listed \subseteq Ahead(chain[q], Len(chain[q]))'
              /\ \A b \in AuditBackupId : kept'[q][b] # None => kept'[q][b].listed \subseteq Ahead(chain[q], Len(chain[q]))'
              /\ \A i \in 1..Len(chain'[q]) : Lists(chain[q][i])' \subseteq Ahead(chain[q], i)'
  <2>1. CASE q # p
    <3>1. Running(q)
      BY <1>1, <1>17 DEF Running
    <3>2. /\ mem[q].listed \subseteq Ahead(chain[q], Len(chain[q]))
          /\ \A b \in AuditBackupId : kept[q][b] # None => kept[q][b].listed \subseteq Ahead(chain[q], Len(chain[q]))
          /\ \A i \in 1..Len(chain[q]) : Lists(chain[q][i]) \subseteq Ahead(chain[q], i)
      BY <3>1 DEF ListedInv
    <3>3. chain'[q] = chain[q] /\ mem'[q] = mem[q] /\ kept'[q] = kept[q]
      BY <1>1, <1>2, <2>1
    <3>4. \A i : Ahead(chain[q], i) \subseteq Ahead(chain[q], i)'
      BY <1>15, <3>3 DEF Ahead
    <3>. QED
      BY <3>2, <3>3, <3>4 DEF Lists
  <2>2. CASE q = p
    <3>1. \A i \in 0..Len(rest) : Ahead(list, i + 1) \subseteq Ahead(chain[p], i)'
      BY <1>2, <1>16 DEF Ahead
    <3>2. Len(rest) \in 0..Len(rest) /\ Len(rest) + 1 = Len(list)
      BY <1>3, <1>4
    <3>3. Ahead(list, Len(list)) \subseteq Ahead(chain[p], Len(chain[p]))'
      BY <1>2, <3>1, <3>2
    <3>4. \A i \in 1..Len(rest) : Lists(rest[i]) \subseteq Ahead(chain[p], i)'
      <4>. SUFFICES ASSUME NEW i \in 1..Len(rest) PROVE Lists(rest[i]) \subseteq Ahead(chain[p], i)'
        OBVIOUS
      <4>1. i \in 0..Len(rest) /\ i + 1 \in 1..Len(list) /\ i \in 1..Len(list) - 1
        BY <1>3, <1>4
      <4>. QED
        BY <1>4, <1>6, <3>1, <4>1
    <3>5. chain'[p] = rest /\ mem'[p] = mem[p] /\ kept'[p] = kept[p]
      BY <1>1, <1>2
    <3>6. \A i \in 1..Len(chain'[p]) : Lists(chain[p][i])' \subseteq Ahead(chain[p], i)'
      BY <3>4, <3>5 DEF Lists
    <3>. QED
      BY <1>6, <2>2, <3>3, <3>5, <3>6
  <2>. QED
    BY <2>1, <2>2
<1>. QED
  BY <1>13, <1>14, <1>17 DEF ListedInv

\* The rows and the queues of the others stay as they are.
LEMMA OthersListed ==
  ASSUME ListedInv, dbKept' = dbKept, db' = db, NEW P \in SUBSET AuditProcess,
         \A q \in P : /\ chain'[q] = chain[q] /\ mem'[q] = mem[q] /\ kept'[q] = kept[q]
                      /\ rejected'[q] = rejected[q] /\ phase'[q] = phase[q],
         \A q \in AuditProcess \ P : Running(q)' =>
           /\ mem'[q].listed \subseteq StoredIds
           /\ \A b \in AuditBackupId : kept'[q][b] # None => kept'[q][b].listed \subseteq StoredIds
           /\ Len(chain'[q]) = 0
  PROVE  ListedInv'
<1>1. StoredIds' = StoredIds /\ \A l, i : Ahead(l, i)' = Ahead(l, i) /\ StoredIds \subseteq Ahead(l, i)
  BY DEF StoredIds, Ahead
<1>2. ASSUME NEW q \in AuditProcess, Running(q)'
      PROVE  /\ mem'[q].listed \subseteq Ahead(chain[q], Len(chain[q]))'
             /\ \A b \in AuditBackupId : kept'[q][b] # None => kept'[q][b].listed \subseteq Ahead(chain[q], Len(chain[q]))'
             /\ \A i \in 1..Len(chain'[q]) : Lists(chain[q][i])' \subseteq Ahead(chain[q], i)'
  <2>1. CASE q \in P
    <3>1. Running(q)
      BY <1>2, <2>1 DEF Running
    <3>2. /\ mem[q].listed \subseteq Ahead(chain[q], Len(chain[q]))
          /\ \A b \in AuditBackupId : kept[q][b] # None => kept[q][b].listed \subseteq Ahead(chain[q], Len(chain[q]))
          /\ \A i \in 1..Len(chain[q]) : Lists(chain[q][i]) \subseteq Ahead(chain[q], i)
      BY <3>1 DEF ListedInv
    <3>. QED
      BY <1>1, <2>1, <3>2 DEF Lists, Ahead
  <2>2. CASE q \notin P
    <3>1. /\ mem'[q].listed \subseteq StoredIds /\ Len(chain'[q]) = 0
          /\ \A b \in AuditBackupId : kept'[q][b] # None => kept'[q][b].listed \subseteq StoredIds
      BY <1>2, <2>2
    <3>2. StoredIds \subseteq Ahead(chain[q], Len(chain[q]))'
      BY <1>1 DEF Ahead
    <3>3. \A i \in 1..Len(chain'[q]) : FALSE
      BY <3>1
    <3>. QED
      BY <3>1, <3>2, <3>3
  <2>. QED
    BY <2>1, <2>2
<1>. QED
  BY <1>1, <1>2 DEF ListedInv

LEMMA ListedSteps ==
  ASSUME StoreInv, ListedInv,
         \/ \E p \in AuditProcess : PersistAuditFails(p) \/ Start(p) \/ Hydrate(p)
         \/ Tick
         \/ UNCHANGED auditVars
  PROVE  ListedInv'
<1>0. TypeInv
  BY DEF StoreInv
<1>1. ASSUME NEW p \in AuditProcess, PersistAuditFails(p)
      PROVE  ListedInv'
  <2>1. /\ dbKept' = dbKept /\ db' = db
        /\ \A q \in AuditProcess \ {p} : /\ chain'[q] = chain[q] /\ mem'[q] = mem[q] /\ kept'[q] = kept[q]
                                         /\ rejected'[q] = rejected[q] /\ phase'[q] = phase[q]
        /\ rejected'[p] = TRUE
    BY <1>0, <1>1 DEF PersistAuditFails, TypeInv
  <2>2. \A q \in AuditProcess \ (AuditProcess \ {p}) : ~Running(q)'
    BY <2>1 DEF Running
  <2>. QED
    BY <2>1, <2>2, OthersListed
<1>2. ASSUME NEW p \in AuditProcess, Start(p)
      PROVE  ListedInv'
  <2>1. /\ dbKept' = dbKept /\ db' = db
        /\ \A q \in AuditProcess \ {p} : /\ chain'[q] = chain[q] /\ mem'[q] = mem[q] /\ kept'[q] = kept[q]
                                         /\ rejected'[q] = rejected[q] /\ phase'[q] = phase[q]
        /\ phase'[p] # "up"
    BY <1>0, <1>2 DEF Start, TypeInv
  <2>2. \A q \in AuditProcess \ (AuditProcess \ {p}) : ~Running(q)'
    BY <2>1 DEF Running
  <2>. QED
    BY <2>1, <2>2, OthersListed
<1>3. ASSUME NEW p \in AuditProcess, Hydrate(p)
      PROVE  ListedInv'
  <2>1. /\ dbKept' = dbKept /\ db' = db
        /\ \A q \in AuditProcess \ {p} : /\ chain'[q] = chain[q] /\ mem'[q] = mem[q] /\ kept'[q] = kept[q]
                                         /\ rejected'[q] = rejected[q] /\ phase'[q] = phase[q]
        /\ phase[p] = "hydrating" /\ mem'[p] = WithLog(mem[p].log, db) /\ kept'[p] = dbKept /\ chain'[p] = chain[p]
    <3>1. UNCHANGED <<chain, rejected, db, dbKept>> /\ phase[p] = "hydrating"
      BY <1>3 DEF Hydrate
    <3>2. /\ mem'[p] = WithLog(mem[p].log, db)
          /\ \A q \in AuditProcess \ {p} : mem'[q] = mem[q]
      BY <1>0, <1>3 DEF Hydrate, TypeInv
    <3>3. kept'[p] = dbKept /\ \A q \in AuditProcess \ {p} : kept'[q] = kept[q]
      BY <1>0, <1>3 DEF Hydrate, TypeInv
    <3>4. \A q \in AuditProcess \ {p} : phase'[q] = phase[q]
      BY <1>0, <1>3 DEF Hydrate, TypeInv
    <3>. QED
      BY <3>1, <3>2, <3>3, <3>4
  <2>2. chain'[p] = <<>> /\ mem'[p].listed = db.listed
    BY <2>1 DEF StoreInv, HydratingInv, WithLog
  <2>3. /\ mem'[p].listed \subseteq StoredIds /\ Len(chain'[p]) = 0
        /\ \A b \in AuditBackupId : kept'[p][b] # None => kept'[p][b].listed \subseteq StoredIds
    BY <2>1, <2>2 DEF ListedInv, StoredIds
  <2>. QED
    BY <2>1, <2>3, OthersListed
<1>4. CASE Tick \/ UNCHANGED auditVars
  <2>1. UNCHANGED <<mem, kept, chain, rejected, phase, db, dbKept>>
    BY <1>4 DEF Tick, auditVars
  <2>. QED
    BY <2>1, OthersListed
<1>. QED
  BY <1>1, <1>2, <1>3, <1>4

\* A backup that the metadata row lists has a row of its own, also after a crash or a failed
\* write between the two, after a restore, and with the metadata of two processes: a backup is
\* queued before whatever lists it (createBackup, restoreBackup, #enqueue). None is no state of
\* a store.
THEOREM ListedBackupsHold ==
  ASSUME \A log, evidence, windows, siem, listed :
           [log |-> log, evidence |-> evidence, windows |-> windows, siem |-> siem, listed |-> listed] # None
  PROVE  AuditSpec => []ListedBackupIsStored
<1>1. AuditInit => ListedInv
  BY DEF AuditInit, ListedInv, StoredIds, NoRest, Running
<1>2. StoreInv /\ ListedInv /\ [AuditNext]_auditVars => ListedInv'
  <2>. SUFFICES ASSUME StoreInv, ListedInv, [AuditNext]_auditVars PROVE ListedInv'
    OBVIOUS
  <2>1. ASSUME NEW p \in AuditProcess, NEW b \in AuditBackupId, CreateAuditBackup(p, b) \/ RestoreAuditBackup(p, b)
        PROVE  ListedInv'
    BY <2>1, BackupListed, RestoreListed
  <2>2. ASSUME NEW p \in AuditProcess, PersistAudit(p)
        PROVE  ListedInv'
    BY <2>2, PersistListed
  <2>. QED
    BY <2>1, <2>2, UnlistedSteps, ListedSteps DEF AuditNext
<1>3. ListedInv => ListedBackupIsStored
  BY DEF ListedInv, ListedBackupIsStored, StoredIds
<1>. QED
  BY <1>1, <1>2, <1>3, StoreInit, StoreStep, PTL DEF AuditSpec
=============================================================================

---------------------- MODULE RuntimePersistenceProofs ----------------------
(***************************************************************************)
(* What the runtime keeps across restarts, for every set of records, every *)
(* set of repositories and every number of events, failing writes and      *)
(* crashes: the audit file implements the append-only ledger, the events   *)
(* in memory and the file stay one history or their difference is told,    *)
(* and what was answered without a receipt survives.                       *)
(***************************************************************************)
EXTENDS RuntimePersistence, SequenceTheorems, FiniteSetTheorems, TLAPS

-----------------------------------------------------------------------------
(* Sequences of events *)

\* p is the beginning of s.
Prefix(p, s) == Len(p) <= Len(s) /\ \A i \in 1..Len(p) : p[i] = s[i]

\* Each event names the one before it.
Linked(s) == \A k \in 1..Len(s) : s[k].prev = IF k = 1 THEN 0 ELSE s[k - 1].id

Holds(s, v) == \E k \in 1..Len(s) : s[k].id = v

LEMMA StartsWithMeaning ==
  ASSUME NEW s \in Seq(Event), NEW p \in Seq(Event)
  PROVE  StartsWith(s, p) <=> Prefix(p, s)
<1>1. ASSUME Len(p) <= Len(s)
      PROVE  /\ SubSeq(s, 1, Len(p)) \in Seq(Event)
             /\ Len(SubSeq(s, 1, Len(p))) = Len(p)
             /\ \A i \in 1..Len(p) : SubSeq(s, 1, Len(p))[i] = s[i]
  BY <1>1, SubSeqProperties
<1>2. ASSUME Len(p) <= Len(s), \A i \in 1..Len(p) : p[i] = s[i]
      PROVE  SubSeq(s, 1, Len(p)) = p
  BY <1>1, <1>2, SeqEqual
<1>. QED
  BY <1>1, <1>2 DEF StartsWith, Prefix

\* The hash of the events before position k.
LEMMA TailHashBefore ==
  ASSUME NEW s \in Seq(Event), NEW k \in 1..Len(s)
  PROVE  TailHash(SubSeq(s, 1, k - 1)) = IF k = 1 THEN 0 ELSE s[k - 1].id
<1>. DEFINE t == SubSeq(s, 1, k - 1)
<1>1. /\ t \in Seq(Event)
      /\ Len(t) = k - 1
      /\ \A i \in 1..k - 1 : t[i] = s[i]
  BY SubSeqProperties
<1>2. t = <<>> <=> Len(t) = 0
  BY <1>1, EmptySeq
<1>. HIDE DEF t
<1>3. CASE k = 1
  BY <1>1, <1>2, <1>3 DEF TailHash
<1>4. CASE k # 1
  BY <1>1, <1>2, <1>4 DEF TailHash, auditEventHash
<1>. QED
  BY <1>3, <1>4 DEF t

LEMMA VerifyMeaning ==
  ASSUME NEW s \in Seq(Event)
  PROVE  verifyAuditChain(s) <=> Linked(s)
BY TailHashBefore DEF verifyAuditChain, Linked

\* Adding the event that names the last one keeps the chain.
LEMMA LinkedAppend ==
  ASSUME NEW s \in Seq(Event), NEW e \in Event, Linked(s), e.prev = TailHash(s)
  PROVE  Linked(Append(s, e))
<1>1. /\ Append(s, e) \in Seq(Event) /\ Len(Append(s, e)) = Len(s) + 1
      /\ \A i \in 1..Len(s) : Append(s, e)[i] = s[i]
      /\ Append(s, e)[Len(s) + 1] = e
  BY AppendProperties
<1>2. e.prev = IF Len(s) = 0 THEN 0 ELSE s[Len(s)].id
  BY EmptySeq DEF TailHash, auditEventHash
<1>. QED
  BY <1>1, <1>2 DEF Linked

\* The events of a store without the last one.
LEMMA FrontMeaning ==
  ASSUME NEW s \in Seq(Event), s # <<>>, NEW a \in Seq(Event), a = Front(s)
  PROVE  /\ Len(s) > 0
         /\ Len(a) = Len(s) - 1
         /\ \A i \in 1..Len(s) - 1 : a[i] = s[i]
         /\ Append(a, s[Len(s)]) = s
<1>1. Len(s) \in Nat /\ Len(s) > 0
  BY EmptySeq
<1>2. /\ Len(a) = Len(s) - 1
      /\ \A i \in 1..Len(s) - 1 : a[i] = s[i]
  <2>. DEFINE n == Len(s) - 1
              t == SubSeq(s, 1, n)
  <2>1. n \in Int /\ \A i \in 1..n : s[i] \in Event
    BY <1>1, ElementOfSeq
  <2>2. n \in Nat /\ Len(s) = n + 1
    BY <1>1
  <2>3. a = t
    BY DEF Front
  <2>. HIDE DEF n
  <2>4. /\ Len(t) = IF 1 <= n THEN n - 1 + 1 ELSE 0
        /\ \A i \in 1..n - 1 + 1 : t[i] = s[1 + i - 1]
    BY <2>1, SubSeqProperties
  <2>. HIDE DEF t
  <2>5. Len(a) = n /\ \A i \in 1..n : a[i] = s[i]
    BY <2>2, <2>3, <2>4
  <2>. QED
    BY <2>5 DEF n
<1>3. s[Len(s)] \in Event
  BY <1>1, ElementOfSeq
<1>4. Append(a, s[Len(s)]) = s
  BY <1>1, <1>2, <1>3, AppendProperties, SeqEqual
<1>. QED
  BY <1>1, <1>2, <1>4

-----------------------------------------------------------------------------
(* The inductive invariant *)

Component == {"audit", "state", "graph", "job"}
ReceiptList == {list \in Seq(Component) : Len(list) <= MaxReceipts}
Versioned == [Id -> Nat]
StoreState == [events : Seq(Event), rec : Versioned, receipts : ReceiptList]
Kind == {"graph", "decision", "plan", "run", "policy", "sync"}
Current == [kind : Kind, rec : Versioned, withdrawn : SUBSET Id, version : Nat,
            degraded : BOOLEAN]
WriteItem == {"audit", "state"} \cup Id

WellTyped ==
  /\ up \in BOOLEAN
  /\ todo \in Seq(WriteItem)
  /\ cur \in Current \cup {None}
  /\ syncs \subseteq Versioned
  /\ store \in StoreState
  /\ recorder \in Seq(Event)
  /\ receipts \in ReceiptList
  /\ repo \in Versioned
  /\ disk \in [audit : Seq(Event), torn : BOOLEAN, state : StoreState \cup {None}, rec : Versioned]
  /\ clock \in 1..MaxEvents + 1
  /\ acked \in [events : SUBSET Nat, rec : Versioned, gone : Versioned]
  /\ undone \in Versioned

\* What a handler in progress is about: its event is the last one of the recorder and of
\* the store, the audit write is its first, it writes records of its own, and what it
\* withdrew is not in the store. What a sync has read is of the past and no native grant.
HandlerInv ==
  /\ ~up => cur = None /\ syncs = {}
  /\ cur = None => todo = <<>>
  /\ \A k \in 2..Len(todo) : todo[k] # "audit"
  /\ \A copy \in syncs : \A i \in Id :
       copy[i] <= clock /\ (copy[i] # 0 => i \in GraphId \ NativeGrant)
  /\ cur # None =>
       /\ Len(store.events) > 0 /\ Len(recorder) > 0
       /\ store.events[Len(store.events)] = recorder[Len(recorder)]
       /\ recorder[Len(recorder)].id = cur.version
       /\ cur.version = clock
       /\ \A k \in 1..Len(todo) : todo[k] \in Id => cur.rec[todo[k]] # 0
       /\ \A i \in Id : cur.rec[i] <= clock
       /\ \A i \in cur.withdrawn : store.rec[i] = 0

AuditPending == todo # <<>> /\ todo[1] = "audit"
Pending(write) == \E k \in 1..Len(todo) : todo[k] = write
SnapshotEvents == IF disk.state = None THEN <<>> ELSE disk.state.events
BothKept == "state" \in config /\ "audit" \in config

\* The list tells of a missing audit event, or is full.
Tells(list) == (\E k \in 1..Len(list) : list[k] = "audit") \/ Len(list) = MaxReceipts

\* The file and the snapshot continue one another; the memory continues both.
TrailInv ==
  /\ Linked(recorder) /\ Linked(disk.audit) /\ Linked(SnapshotEvents)
  /\ disk.state # None => "state" \in config
  /\ BothKept => Prefix(disk.audit, SnapshotEvents) \/ Prefix(SnapshotEvents, disk.audit)
  /\ BothKept /\ Len(disk.audit) < Len(SnapshotEvents) => Tells(disk.state.receipts)
  /\ up /\ "state" \in config =>
       /\ recorder = store.events
       /\ Prefix(SnapshotEvents, store.events)
  /\ up /\ BothKept =>
       /\ Prefix(disk.audit, store.events)
       /\ ~AuditPending => disk.audit = store.events \/ (Tells(receipts) /\ Tells(store.receipts))

\* What was answered without a receipt is in the file that a restart follows.
AckInv ==
  /\ "state" \in config =>
       /\ \A v \in acked.events : Holds(SnapshotEvents, v)
       /\ cur # None /\ ~cur.degraded /\ ~Pending("state") => Holds(SnapshotEvents, cur.version)
  /\ "state" \notin config /\ "audit" \in config =>
       /\ \A v \in acked.events : Holds(disk.audit, v)
       /\ cur # None /\ ~cur.degraded /\ ~AuditPending => Holds(disk.audit, cur.version)
       /\ up => \A k \in 1..Len(disk.audit) : \E j \in 1..Len(recorder) : recorder[j] = disk.audit[k]

SnapshotRecords == IF disk.state = None THEN FallbackSeed ELSE disk.state.rec
Filed(r) == r \in config /\ ~InMemory

\* A version of a record is as new as what was acknowledged, or a sync has withdrawn the
\* record or written an older copy of it since.
NotOlder(i, v) == acked.rec[i] <= v \/ acked.rec[i] < undone[i]

\* The snapshot holds no older version than was acknowledged, and what the store holds
\* once the handler has written it.
SnapshotCovers ==
  "state" \in config =>
    /\ \A i \in Id : NotOlder(i, SnapshotRecords[i])
    /\ cur # None /\ ~cur.degraded /\ ~Pending("state") => SnapshotRecords = store.rec

\* A file holds what is acknowledged in no older version, and so does the repository's
\* memory, which lacks nothing of the file. Only the seed may not have been filed.
FileCovers(r) ==
  Filed(r) =>
    /\ \A i \in Part(r) :
         /\ disk.rec[i] = 0 \/ NotOlder(i, disk.rec[i])
         /\ disk.rec[i] = 0 => acked.rec[i] = FallbackSeed[i]
    /\ up => \A i \in Part(r) :
         /\ repo[i] = 0 \/ NotOlder(i, repo[i])
         /\ repo[i] = 0 => disk.rec[i] = 0
    /\ cur # None => \A i \in Part(r) : cur.rec[i] # 0 =>
         /\ NotOlder(i, cur.rec[i])
         /\ ~cur.degraded /\ ~Pending(i) => disk.rec[i] = cur.rec[i] /\ repo[i] = cur.rec[i]

\* A file that is all there is and was seeded in full lacks nothing, or is still empty.
FileIsWhole(r) ==
  Filed(r) /\ "state" \notin config /\ r \notin halfSeeded =>
    \/ \A i \in Part(r) : acked.rec[i] # 0 => disk.rec[i] # 0
    \/ ~up /\ \A i \in Part(r) : disk.rec[i] = 0

MemoryCovers(r) ==
  up /\ ("state" \in config \/ (Filed(r) /\ r \notin halfSeeded)) =>
    \A i \in Part(r) : NotOlder(i, store.rec[i])

\* What a waiting sync will write to the graph file is not older than what was acknowledged,
\* unless the store has a newer version by now.
CopiesCover ==
  \A copy \in syncs : \A i \in Id : copy[i] # 0 =>
    NotOlder(i, copy[i]) \/ copy[i] < store.rec[i]

AckedInRange ==
  \A i \in Id : FallbackSeed[i] <= acked.rec[i] /\ acked.rec[i] <= clock /\ acked.gone[i] <= clock

\* Where a restart finds the records that were answered without a receipt.
RecordInv ==
  /\ AckedInRange
  /\ SnapshotCovers
  /\ CopiesCover
  /\ \A r \in {"graph", "job"} : FileCovers(r) /\ FileIsWhole(r) /\ MemoryCovers(r)

\* A grant that was withdrawn is missing, was read again since, or is in the graph file.
Away(i, v) == v = 0 \/ v > acked.gone[i] \/ Opened[i] # 0

WithdrawnInv ==
  "state" \in config => \A i \in Id : acked.gone[i] # 0 =>
    /\ Away(i, SnapshotRecords[i])
    /\ up => Away(i, store.rec[i])

-----------------------------------------------------------------------------
(* Types *)

\* A receipt is added to a list without making it longer than the cap, and what the list
\* tells of the audit file is not lost by it.
LEMMA DegradationKept ==
  ASSUME NEW list \in ReceiptList, NEW c \in Component
  PROVE  /\ recordPersistenceDegradation(list, c) \in ReceiptList
         /\ Tells(list) \/ c = "audit" => Tells(recordPersistenceDegradation(list, c))
<1>. DEFINE kept == IF Len(list) >= MaxReceipts THEN Tail(list) ELSE list
            longer == Append(kept, c)
<1>1. list \in Seq(Component) /\ Len(list) <= MaxReceipts /\ Len(list) \in Nat
  BY LenProperties DEF ReceiptList
<1>2. CASE Len(list) >= MaxReceipts
  <2>1. list # <<>>
    BY <1>1, <1>2, ReceiptAssumption
  <2>2. Tail(list) \in Seq(Component) /\ Len(Tail(list)) = MaxReceipts - 1
    BY <1>1, <1>2, <2>1, ReceiptAssumption, HeadTailProperties
  <2>3. longer \in Seq(Component) /\ Len(longer) = MaxReceipts
    BY <1>2, <2>2, AppendProperties, ReceiptAssumption
  <2>. QED
    BY <2>3, ReceiptAssumption DEF recordPersistenceDegradation, ReceiptList, Tells
<1>3. CASE ~(Len(list) >= MaxReceipts)
  <2>1. /\ longer \in Seq(Component) /\ Len(longer) = Len(list) + 1
        /\ \A k \in 1..Len(list) : longer[k] = list[k]
        /\ longer[Len(list) + 1] = c
    BY <1>1, <1>3, AppendProperties
  <2>2. longer = recordPersistenceDegradation(list, c)
    BY DEF recordPersistenceDegradation
  <2>. HIDE DEF longer
  <2>. QED
    BY <1>1, <1>3, <2>1, <2>2, ReceiptAssumption DEF ReceiptList, Tells
<1>. QED
  BY <1>2, <1>3

LEMMA EmptyTyped ==
  /\ <<>> \in ReceiptList
  /\ <<>> \in Seq(Event)
  /\ Absent \in Versioned
  /\ FallbackSeed \in Versioned
  /\ EmptyStore \in StoreState
<1>1. <<>> \in ReceiptList /\ <<>> \in Seq(Event)
  BY EmptySeq, ReceiptAssumption DEF ReceiptList
<1>2. Absent \in Versioned /\ FallbackSeed \in Versioned
  BY DEF Absent, FallbackSeed, Versioned
<1>. QED
  BY <1>1, <1>2 DEF EmptyStore, StoreState

\* What a start finds is a store.
LEMMA SeedTyped ==
  ASSUME WellTyped
  PROVE  /\ Opened \in Versioned
         /\ BaseSeed \in StoreState
         /\ initialRuntimeSeed \in StoreState
         /\ initialAuditEvents(initialRuntimeSeed) \in Seq(Event)
         /\ initialRuntimeSeed.receipts = BaseSeed.receipts
         /\ initialRuntimeSeed.events = recoverAppendOnlyAuditEvents(BaseSeed)
<1>1. Opened \in Versioned
  BY DEF WellTyped, Opened, Versioned
<1>2. BaseSeed \in StoreState
  <2>1. [events |-> <<>>, rec |-> FallbackSeed, receipts |-> <<>>] \in StoreState
    BY EmptyTyped DEF StoreState
  <2>. QED
    BY <2>1 DEF WellTyped, BaseSeed
<1>3. recoverAppendOnlyAuditEvents(BaseSeed) \in Seq(Event)
  BY <1>2 DEF WellTyped, StoreState, recoverAppendOnlyAuditEvents
<1>4. initialRuntimeSeed \in StoreState
  BY <1>1, <1>2, <1>3 DEF initialRuntimeSeed, StoreState, Versioned, RestoredReceipts
<1>. QED
  BY <1>1, <1>2, <1>3, <1>4 DEF initialRuntimeSeed, RestoredReceipts, initialAuditEvents, StoreState, WellTyped

LEMMA SeededTyped ==
  ASSUME NEW records \in Versioned, NEW written, NEW seed \in StoreState
  PROVE  Seeded(records, written, seed) \in Versioned
BY DEF Seeded, StoreState, Versioned

LEMMA RecordedTyped ==
  ASSUME WellTyped, clock < MaxEvents + 1
  PROVE  /\ Recorded(recorder) \in Event
         /\ Recorded(recorder).id = clock + 1
         /\ Recorded(recorder).prev = TailHash(recorder)
<1>1. TailHash(recorder) \in 0..MaxEvents + 1
  <2>1. CASE recorder = <<>>
    BY <2>1, BoundAssumption DEF TailHash
  <2>2. CASE recorder # <<>>
    <3>1. recorder[Len(recorder)] \in Event
      BY <2>2, EmptySeq, ElementOfSeq DEF WellTyped
    <3>. QED
      BY <2>2, <3>1, BoundAssumption DEF TailHash, auditEventHash, Event
  <2>. QED
    BY <2>1, <2>2
<1>. QED
  BY <1>1, BoundAssumption DEF Recorded, Event, WellTyped

\* The audit write is the first and the only one of its kind, the snapshot is written, and
\* so is each of the handler's records and no other.
Planned(w, written) ==
  /\ w \in Seq(WriteItem) /\ Len(w) > 0
  /\ w[1] = "audit"
  /\ \A k \in 2..Len(w) : w[k] # "audit"
  /\ \E k \in 1..Len(w) : w[k] = "state"
  /\ \A k \in 1..Len(w) : w[k] \in Id => written[w[k]] # 0
  /\ \A i \in Id : written[i] # 0 => \E k \in 1..Len(w) : w[k] = i

LEMMA ItemsDiffer == "audit" \notin Id /\ "state" \notin Id /\ None \notin Id
BY IdAssumption, NoneAssumption DEF Id

LEMMA UpdatedTyped ==
  ASSUME WellTyped, NEW records \in Versioned, NEW ids
  PROVE  /\ Updated(records, ids) \in Versioned
         /\ \A i \in Id : Updated(records, ids)[i] = IF i \in ids THEN clock + 1 ELSE records[i]
         /\ clock \in Nat /\ clock >= 1
BY BoundAssumption DEF Updated, Versioned, WellTyped

\* The order of writes of a handler of one record.
LEMMA WritesMeaning ==
  ASSUME WellTyped, NEW h \in Handler
  PROVE  /\ Planned(Writes(h.kind, h.id), Updated(Absent, {h.id} \cap Id))
         /\ h.kind \in {"graph", "decision", "plan", "run", "policy"}
<1>. DEFINE w == Writes(h.kind, h.id)
            written == Updated(Absent, {h.id} \cap Id)
<1>0. /\ h.kind \in {"graph", "decision", "plan", "run", "policy"}
      /\ h.kind # "policy" => h.id \in Id
      /\ h.kind = "policy" => h.id = None
  BY DEF Handler, Id
<1>1. /\ \A i \in Id : written[i] = IF i = h.id THEN clock + 1 ELSE 0
      /\ clock + 1 # 0
  <2>1. \A i \in Id : Absent[i] = 0
    BY DEF Absent
  <2>. QED
    BY <2>1, UpdatedTyped, EmptyTyped
<1>2. CASE h.kind \in {"graph", "decision"}
  <2>1. w = <<"audit", "state", h.id>>
    BY <1>2 DEF Writes
  <2>2. /\ w \in Seq(WriteItem) /\ Len(w) = 3 /\ w[1] = "audit" /\ w[2] = "state" /\ w[3] = h.id
        /\ 1 \in 1..Len(w) /\ 2 \in 1..Len(w) /\ 3 \in 1..Len(w)
    BY <1>0, <1>2, <2>1 DEF WriteItem
  <2>. HIDE DEF w, written
  <2>3. \A k \in 1..Len(w) : k = 1 \/ k = 2 \/ k = 3
    BY <2>2
  <2>4. Planned(w, written)
    BY <1>0, <1>1, <1>2, <2>2, <2>3, ItemsDiffer DEF Planned
  <2>. QED
    BY <1>0, <2>4 DEF w, written
<1>3. CASE h.kind = "policy"
  <2>1. w = <<"audit", "state">>
    BY <1>3 DEF Writes
  <2>2. /\ w \in Seq(WriteItem) /\ Len(w) = 2 /\ w[1] = "audit" /\ w[2] = "state"
        /\ 1 \in 1..Len(w) /\ 2 \in 1..Len(w)
    BY <2>1 DEF WriteItem
  <2>. HIDE DEF w, written
  <2>3. \A k \in 1..Len(w) : k = 1 \/ k = 2
    BY <2>2
  <2>4. Planned(w, written)
    BY <1>0, <1>1, <1>3, <2>2, <2>3, ItemsDiffer DEF Planned
  <2>. QED
    BY <1>0, <2>4 DEF w, written
<1>4. CASE h.kind \in {"plan", "run"}
  <2>1. w = <<"audit", h.id, "state">>
    BY <1>4 DEF Writes
  <2>2. /\ w \in Seq(WriteItem) /\ Len(w) = 3 /\ w[1] = "audit" /\ w[2] = h.id /\ w[3] = "state"
        /\ 1 \in 1..Len(w) /\ 2 \in 1..Len(w) /\ 3 \in 1..Len(w)
    BY <1>0, <1>4, <2>1 DEF WriteItem
  <2>. HIDE DEF w, written
  <2>3. \A k \in 1..Len(w) : k = 1 \/ k = 2 \/ k = 3
    BY <2>2
  <2>4. Planned(w, written)
    BY <1>0, <1>1, <1>4, <2>2, <2>3, ItemsDiffer DEF Planned
  <2>. QED
    BY <1>0, <2>4 DEF w, written
<1>. QED
  BY <1>0, <1>2, <1>3, <1>4

\* An order of a set of graph records is a sequence of them all.
LEMMA OrderMeaning ==
  ASSUME NEW S \in SUBSET GraphId, NEW s \in Orders(S)
  PROVE  /\ s \in Seq(WriteItem) /\ Len(s) \in Nat
         /\ \A k \in 1..Len(s) : s[k] \in S
         /\ \A i \in S : \E k \in 1..Len(s) : s[k] = i
<1>1. Cardinality(S) \in Nat
  BY IdAssumption, FS_Subset, FS_CardinalityType
<1>2. s \in [1..Cardinality(S) -> S] /\ \A i \in S : \E k \in 1..Cardinality(S) : s[k] = i
  BY DEF Orders
<1>3. S \subseteq WriteItem
  BY DEF WriteItem, Id
<1>4. s \in Seq(WriteItem) /\ Len(s) = Cardinality(S)
  <2>1. s \in [1..Cardinality(S) -> WriteItem]
    BY <1>2, <1>3
  <2>2. s \in Seq(WriteItem)
    BY <1>1, <2>1, SeqDef
  <2>. QED
    BY <1>1, <2>1, <2>2, LenProperties
<1>. QED
  BY <1>1, <1>2, <1>3, <1>4

\* What is at which place of two sequences of writes, one after the other.
LEMMA Concatenated ==
  ASSUME NEW s \in Seq(WriteItem), NEW t \in Seq(WriteItem)
  PROVE  /\ s \o t \in Seq(WriteItem) /\ Len(s \o t) = Len(s) + Len(t)
         /\ Len(s) \in Nat /\ Len(t) \in Nat
         /\ \A k \in 1..Len(s) : k \in 1..Len(s \o t) /\ (s \o t)[k] = s[k]
         /\ \A k \in 1..Len(t) : Len(s) + k \in 1..Len(s \o t) /\ (s \o t)[Len(s) + k] = t[k]
         /\ \A k \in 1..Len(s \o t) : k \in 1..Len(s) \/ \E j \in 1..Len(t) : k = Len(s) + j
<1>1. /\ s \o t \in Seq(WriteItem) /\ Len(s \o t) = Len(s) + Len(t)
      /\ \A k \in 1..Len(s) + Len(t) : (s \o t)[k] = IF k <= Len(s) THEN s[k] ELSE t[k - Len(s)]
  BY ConcatProperties
<1>. DEFINE m == Len(s)
            n == Len(t)
<1>2. m \in Nat /\ n \in Nat
  BY LenProperties
<1>. HIDE DEF m, n
<1>3. \A k \in 1..m : k \in 1..m + n /\ (s \o t)[k] = s[k]
  BY <1>1, <1>2 DEF m, n
<1>4. \A k \in 1..n : m + k \in 1..m + n /\ (s \o t)[m + k] = t[k]
  <2>1. \A k \in 1..n : m + k \in 1..m + n /\ ~(m + k <= m) /\ m + k - m = k
    BY <1>2
  <2>. QED
    BY <1>1, <1>2, <2>1 DEF m, n
<1>5. \A k \in 1..m + n : k \in 1..m \/ (k - m \in 1..n /\ k = m + (k - m))
  BY <1>2
<1>. QED
  BY <1>1, <1>2, <1>3, <1>4, <1>5 DEF m, n

\* Writes that begin with the audit write, and writes of a set of records.
AfterAudit(s, S) == Len(s) >= 1 /\ s[1] = "audit" /\ \A k \in 2..Len(s) : s[k] \in S
Within(s, S) == \A k \in 1..Len(s) : s[k] \in S
Lists(s, S) == \A i \in S : \E k \in 1..Len(s) : s[k] = i

LEMMA Continued ==
  ASSUME NEW s \in Seq(WriteItem), NEW t \in Seq(WriteItem), NEW S, NEW T,
         AfterAudit(s, S), Lists(s, S), Within(t, T), Lists(t, T)
  PROVE  /\ s \o t \in Seq(WriteItem) /\ AfterAudit(s \o t, S \cup T) /\ Lists(s \o t, S \cup T)
<1>. DEFINE w == s \o t
<1>1. /\ w \in Seq(WriteItem) /\ Len(w) = Len(s) + Len(t) /\ Len(s) \in Nat /\ Len(t) \in Nat
      /\ \A k \in 1..Len(s) : k \in 1..Len(w) /\ w[k] = s[k]
      /\ \A k \in 1..Len(t) : Len(s) + k \in 1..Len(w) /\ w[Len(s) + k] = t[k]
      /\ \A k \in 1..Len(w) : k \in 1..Len(s) \/ \E j \in 1..Len(t) : k = Len(s) + j
  BY Concatenated
<1>. HIDE DEF w
<1>2. w[1] = "audit" /\ Len(w) >= 1
  BY <1>1 DEF AfterAudit
<1>3. ASSUME NEW k \in 2..Len(w)
      PROVE  w[k] \in S \cup T
  <2>1. k \in 1..Len(w)
    BY <1>1
  <2>2. CASE k \in 1..Len(s)
    BY <1>1, <2>2 DEF AfterAudit
  <2>3. CASE \E j \in 1..Len(t) : k = Len(s) + j
    BY <1>1, <2>3 DEF Within
  <2>. QED
    BY <1>1, <2>1, <2>2, <2>3
<1>4. ASSUME NEW i \in T
      PROVE  \E k \in 1..Len(w) : w[k] = i
  <2>1. PICK j \in 1..Len(t) : t[j] = i
    BY DEF Lists
  <2>2. Len(s) + j \in 1..Len(w) /\ w[Len(s) + j] = i
    BY <1>1, <2>1
  <2>. QED
    BY <2>2
<1>5. ASSUME NEW i \in S
      PROVE  \E k \in 1..Len(w) : w[k] = i
  <2>1. PICK j \in 1..Len(s) : s[j] = i
    BY DEF Lists
  <2>. QED
    BY <1>1, <2>1
<1>6. AfterAudit(w, S \cup T) /\ Lists(w, S \cup T)
  BY <1>2, <1>3, <1>4, <1>5 DEF AfterAudit, Lists
<1>. QED
  BY <1>1, <1>6 DEF w

\* The order of writes of a sync.
LEMMA SyncWrites ==
  ASSUME NEW C \in SUBSET GraphId, NEW G \in SUBSET GraphId, NEW run \in JobId,
         NEW entities \in Orders(C), NEW filed \in Orders(G), NEW written \in Versioned,
         \A i \in Id : written[i] # 0 <=> i \in C \cup G \cup {run}
  PROVE  Planned(<<"audit">> \o entities \o filed \o <<run, "state">>, written)
<1>. DEFINE a == <<"audit">>
            z == <<run, "state">>
            Z == {run, "state"}
            w == a \o entities \o filed \o z
<1>1. a \in Seq(WriteItem) /\ AfterAudit(a, {}) /\ Lists(a, {})
  BY DEF WriteItem, AfterAudit, Lists
<1>2. z \in Seq(WriteItem) /\ Within(z, Z) /\ Lists(z, Z)
  <2>1. z \in Seq(WriteItem) /\ Len(z) = 2 /\ z[1] = run /\ z[2] = "state"
    BY DEF WriteItem, Id
  <2>. HIDE DEF z
  <2>2. 1 \in 1..Len(z) /\ 2 \in 1..Len(z) /\ \A k \in 1..Len(z) : k = 1 \/ k = 2
    BY <2>1
  <2>. QED
    BY <2>1, <2>2 DEF Within, Lists
<1>. HIDE DEF a, z, Z
<1>3. entities \in Seq(WriteItem) /\ Within(entities, C) /\ Lists(entities, C)
  BY OrderMeaning DEF Within, Lists
<1>4. filed \in Seq(WriteItem) /\ Within(filed, G) /\ Lists(filed, G)
  BY OrderMeaning DEF Within, Lists
<1>5. /\ a \o entities \in Seq(WriteItem)
      /\ AfterAudit(a \o entities, {} \cup C) /\ Lists(a \o entities, {} \cup C)
  BY <1>1, <1>3, Continued
<1>6. /\ a \o entities \o filed \in Seq(WriteItem)
      /\ AfterAudit(a \o entities \o filed, {} \cup C \cup G)
      /\ Lists(a \o entities \o filed, {} \cup C \cup G)
  BY <1>4, <1>5, Continued
<1>7. w \in Seq(WriteItem) /\ AfterAudit(w, {} \cup C \cup G \cup Z) /\ Lists(w, {} \cup C \cup G \cup Z)
  BY <1>2, <1>6, Continued
<1>8. Len(w) \in Nat
  BY <1>7, LenProperties
<1>. HIDE DEF w
<1>9. C \cup G \cup {run} \subseteq Id /\ "state" \in Z /\ run \in Z /\ Z \subseteq {run, "state"}
  BY DEF Id, Z
<1>10. \A k \in 1..Len(w) : k = 1 \/ k \in 2..Len(w)
  BY <1>8
<1>11. Planned(w, written)
  BY <1>7, <1>8, <1>9, <1>10, ItemsDiffer DEF Planned, AfterAudit, Lists
<1>. QED
  BY <1>11 DEF a, z, w

\* A handler or the second half of a sync begins its writes: what the store holds from then
\* on, and what the repositories will be given.
Beginning ==
  \/ \E h \in Handler : Handle(h)
  \/ \E copy \in syncs, run \in RunId, grants, withdrawn \in SUBSET NativeGrant, complete \in BOOLEAN :
        FinishSync(copy, run, grants, withdrawn, complete)

\* The records, the writes and the withdrawals of a beginning against the state before it.
Begins(records, written, withdrawn) ==
  /\ \A i \in withdrawn : records[i] = 0
  /\ \A i \in Id :
       /\ undone'[i] = undone[i] \/ undone'[i] = clock + 1
       /\ \/ records[i] = clock + 1 \/ records[i] = store.rec[i]
          \/ records[i] = 0 /\ i \in NativeGrant /\ undone'[i] = clock + 1
       /\ \/ written[i] = 0 \/ written[i] = clock + 1
          \/ \E copy \in syncs : /\ written[i] = copy[i]
                                 /\ KeepsGraph /\ copy[i] < store.rec[i] => undone'[i] = clock + 1

LEMMA BeginningMeaning ==
  ASSUME WellTyped, HandlerInv, Beginning
  PROVE  \E kind \in Kind, records \in Versioned, written \in Versioned, withdrawn \in SUBSET Id :
           /\ RecordAudit(kind, records, written, withdrawn, todo')
           /\ Planned(todo', written)
           /\ Begins(records, written, withdrawn)
           /\ syncs' \subseteq syncs /\ undone' \in Versioned
<1>0. /\ store.rec \in Versioned /\ Absent \in Versioned /\ undone \in Versioned
      /\ \A i \in Id : Absent[i] = 0
  BY EmptyTyped DEF WellTyped, StoreState, Absent
<1>1. ASSUME NEW h \in Handler, Handle(h)
      PROVE  \E kind \in Kind, records \in Versioned, written \in Versioned, withdrawn \in SUBSET Id :
               /\ RecordAudit(kind, records, written, withdrawn, todo')
               /\ Planned(todo', written)
               /\ Begins(records, written, withdrawn)
               /\ syncs' \subseteq syncs /\ undone' \in Versioned
  <2>. DEFINE ids == {h.id} \cap Id
              records == Updated(store.rec, ids)
              written == Updated(Absent, ids)
  <2>1. /\ RecordAudit(h.kind, records, written, {}, Writes(h.kind, h.id))
        /\ syncs' = syncs /\ undone' = undone
    BY <1>1 DEF Handle
  <2>2. todo' = Writes(h.kind, h.id)
    BY <2>1 DEF RecordAudit
  <2>3. Planned(todo', written) /\ h.kind \in Kind
    BY <2>2, WritesMeaning DEF Kind
  <2>4. /\ records \in Versioned /\ written \in Versioned
        /\ \A i \in Id : records[i] = clock + 1 \/ records[i] = store.rec[i]
        /\ \A i \in Id : written[i] = clock + 1 \/ written[i] = 0
    BY <1>0, UpdatedTyped
  <2>. HIDE DEF records, written
  <2>5. Begins(records, written, {})
    BY <2>1, <2>4 DEF Begins
  <2>6. RecordAudit(h.kind, records, written, {}, todo')
    BY <2>1, <2>2
  <2>. QED
    BY <1>0, <2>1, <2>3, <2>4, <2>5, <2>6
<1>2. ASSUME NEW copy \in syncs, NEW run \in RunId, NEW grants \in SUBSET NativeGrant,
             NEW away \in SUBSET NativeGrant, NEW complete \in BOOLEAN,
             FinishSync(copy, run, grants, away, complete)
      PROVE  \E kind \in Kind, records \in Versioned, written \in Versioned, withdrawn \in SUBSET Id :
               /\ RecordAudit(kind, records, written, withdrawn, todo')
               /\ Planned(todo', written)
               /\ Begins(records, written, withdrawn)
               /\ syncs' \subseteq syncs /\ undone' \in Versioned
  <2>. DEFINE kept == IF complete THEN replaceNativeGrantsForConnector(store.rec, grants, away)
                      ELSE store.rec
              gone == IF complete THEN away ELSE {}
              older == {i \in Copied(copy) : KeepsGraph /\ copy[i] < store.rec[i]}
              records == Updated(kept, {run})
              written == Updated(copy, grants \cup {run})
  <2>1. PICK entities \in Orders(Copied(copy)), filed \in Orders(grants) :
          RecordAudit("sync", records, written, gone,
                      <<"audit">> \o entities \o filed \o <<run, "state">>)
    BY <1>2 DEF FinishSync
  <2>2. /\ syncs' = syncs \ {copy} /\ undone' = Updated(undone, gone \cup older)
        /\ \A i \in away : i \notin grants
    BY <1>2 DEF FinishSync
  <2>3. todo' = <<"audit">> \o entities \o filed \o <<run, "state">>
    BY <2>1 DEF RecordAudit
  <2>4. /\ run \in JobId /\ run \in Id /\ run \notin GraphId
        /\ NativeGrant \subseteq GraphId /\ GraphId \subseteq Id /\ gone \in SUBSET NativeGrant
    BY IdAssumption DEF Id
  <2>5. kept \in Versioned /\ \A i \in Id : /\ i \in gone => kept[i] = 0
                                           /\ \/ kept[i] = clock + 1 \/ kept[i] = store.rec[i]
                                              \/ kept[i] = 0 /\ i \in gone
    <3>1. CASE complete
      <4>1. \A i \in Id : kept[i] = IF i \in away THEN 0 ELSE Updated(store.rec, grants)[i]
        BY <3>1 DEF replaceNativeGrantsForConnector
      <4>2. /\ Updated(store.rec, grants) \in Versioned
            /\ \A i \in Id : Updated(store.rec, grants)[i] = IF i \in grants THEN clock + 1 ELSE store.rec[i]
        BY <1>0, UpdatedTyped
      <4>3. kept \in Versioned
        BY <3>1, <4>2 DEF replaceNativeGrantsForConnector, Versioned
      <4>. QED
        BY <3>1, <4>1, <4>2, <4>3
    <3>2. CASE ~complete
      BY <1>0, <3>2
    <3>. QED
      BY <3>1, <3>2
  <2>6. copy \in Versioned /\ Copied(copy) \in SUBSET (GraphId \ NativeGrant)
    BY DEF WellTyped, HandlerInv, Copied
  <2>. HIDE DEF kept
  <2>7. /\ records \in Versioned
        /\ \A i \in Id : records[i] = IF i = run THEN clock + 1 ELSE kept[i]
    BY <2>5, UpdatedTyped
  <2>8. /\ written \in Versioned
        /\ \A i \in Id : written[i] = IF i \in grants \cup {run} THEN clock + 1 ELSE copy[i]
        /\ clock \in Nat
    BY <2>6, UpdatedTyped
  <2>9. /\ undone' \in Versioned
        /\ \A i \in Id : undone'[i] = IF i \in gone \cup older THEN clock + 1 ELSE undone[i]
    BY <1>0, <2>2, UpdatedTyped
  <2>. HIDE DEF records, written
  <2>10. \A i \in Id : written[i] # 0 <=> i \in Copied(copy) \cup grants \cup {run}
    BY <2>4, <2>8 DEF Copied
  <2>11. Planned(todo', written)
    BY <2>3, <2>4, <2>6, <2>8, <2>10, SyncWrites
  <2>12. RecordAudit("sync", records, written, gone, todo')
    BY <2>1, <2>3
  <2>13. \A i \in gone : records[i] = 0
    BY <2>4, <2>5, <2>7
  <2>14. ASSUME NEW i \in Id
         PROVE  /\ undone'[i] = undone[i] \/ undone'[i] = clock + 1
                /\ \/ records[i] = clock + 1 \/ records[i] = store.rec[i]
                   \/ records[i] = 0 /\ i \in NativeGrant /\ undone'[i] = clock + 1
                /\ \/ written[i] = 0 \/ written[i] = clock + 1
                   \/ /\ written[i] = copy[i]
                      /\ KeepsGraph /\ copy[i] < store.rec[i] => undone'[i] = clock + 1
    <3>1. written[i] # 0 /\ written[i] # clock + 1 => written[i] = copy[i] /\ i \in Copied(copy)
      BY <2>8 DEF Copied
    <3>2. i \in Copied(copy) /\ KeepsGraph /\ copy[i] < store.rec[i] => i \in older
      OBVIOUS
    <3>. HIDE DEF older, gone
    <3>. QED
      BY <2>4, <2>5, <2>7, <2>9, <3>1, <3>2
  <2>15. Begins(records, written, gone)
    <3>. HIDE DEF older, gone
    <3>. QED
      BY <2>13, <2>14 DEF Begins
  <2>16. gone \in SUBSET Id /\ "sync" \in Kind /\ syncs' \subseteq syncs
    BY <2>2, <2>4 DEF Kind
  <2>. HIDE DEF gone, older
  <2>. QED
    BY <2>7, <2>8, <2>9, <2>11, <2>12, <2>15, <2>16
<1>. QED
  BY <1>1, <1>2 DEF Beginning

LEMMA TypeInit == Init => WellTyped
<1>1. <<>> \in Seq(WriteItem)
  BY EmptySeq
<1>2. [events |-> {}, rec |-> FallbackSeed, gone |-> Absent]
        \in [events : SUBSET Nat, rec : Versioned, gone : Versioned]
  BY EmptyTyped
<1>. SUFFICES ASSUME Init
              PROVE  WellTyped
  OBVIOUS
<1>3. disk \in [audit : Seq(Event), torn : BOOLEAN, state : StoreState \cup {None}, rec : Versioned]
  BY EmptyTyped DEF Init
<1>4. clock \in 1..MaxEvents + 1
  BY BoundAssumption DEF Init
<1>. QED
  BY <1>1, <1>2, <1>3, <1>4, EmptyTyped DEF Init, WellTyped

\* A receipt of the current list, and the copy of it in the store.
LEMMA DegradedTyped ==
  ASSUME WellTyped, NEW c \in Component, Degraded(c)
  PROVE  receipts' \in ReceiptList
BY DegradationKept DEF WellTyped, Degraded

LEMMA TodoTyped ==
  ASSUME WellTyped, todo # <<>>
  PROVE  /\ Tail(todo) \in Seq(WriteItem)
         /\ Len(Tail(todo)) = Len(todo) - 1 /\ Len(todo) > 0
         /\ \A k \in 1..Len(Tail(todo)) : Tail(todo)[k] = todo[k + 1]
         /\ Head(todo) = todo[1]
BY HeadTailProperties, EmptySeq DEF WellTyped

LEMMA TypeStep == WellTyped /\ HandlerInv /\ [Next]_vars => WellTyped'
<1>. SUFFICES ASSUME WellTyped, HandlerInv, [Next]_vars
              PROVE  WellTyped'
  OBVIOUS
<1>1. ASSUME Beginning
      PROVE  WellTyped'
  <2>. DEFINE e == Recorded(recorder)
  <2>0. PICK kind \in Kind, records \in Versioned, written \in Versioned, withdrawn \in SUBSET Id :
          /\ RecordAudit(kind, records, written, withdrawn, todo')
          /\ Planned(todo', written)
          /\ syncs' \subseteq syncs /\ undone' \in Versioned
    BY <1>1, BeginningMeaning
  <2>1. e \in Event /\ clock + 1 \in 1..MaxEvents + 1 /\ clock + 1 \in Nat
    BY <2>0, RecordedTyped, BoundAssumption DEF RecordAudit, WellTyped
  <2>2. /\ store.events \in Seq(Event) /\ store.rec \in Versioned /\ store.receipts \in ReceiptList
        /\ recorder \in Seq(Event)
    BY DEF WellTyped, StoreState
  <2>3. /\ recorder' = Append(recorder, e) /\ clock' = clock + 1
        /\ store' = [store EXCEPT !.events = Append(@, e), !.rec = records]
        /\ cur' = [kind |-> kind, rec |-> written, withdrawn |-> withdrawn,
                   version |-> clock + 1, degraded |-> FALSE]
        /\ UNCHANGED <<up, receipts, repo, disk, acked>>
    BY <2>0 DEF RecordAudit
  <2>. HIDE DEF e
  <2>4. recorder' \in Seq(Event) /\ Append(store.events, e) \in Seq(Event)
    BY <2>1, <2>2, <2>3, AppendProperties
  <2>5. store' \in StoreState
    BY <2>0, <2>2, <2>3, <2>4 DEF WellTyped, StoreState
  <2>6. cur' \in Current
    BY <2>0, <2>1, <2>3 DEF Current
  <2>7. todo' \in Seq(WriteItem) /\ syncs' \subseteq Versioned
    BY <2>0 DEF Planned, WellTyped
  <2>. QED
    BY <2>0, <2>1, <2>3, <2>4, <2>5, <2>6, <2>7 DEF WellTyped
<1>15. ASSUME NEW ids, StartSync(ids)
       PROVE  WellTyped'
  <2>1. /\ store' = [store EXCEPT !.rec = Updated(@, ids)] /\ syncs' = syncs \cup {Updated(Absent, ids)}
        /\ clock' = clock + 1 /\ clock < MaxEvents + 1
        /\ UNCHANGED <<up, todo, cur, recorder, receipts, repo, disk, acked, undone>>
    BY <1>15 DEF StartSync
  <2>2. /\ store \in StoreState /\ store.rec \in Versioned
        /\ Updated(store.rec, ids) \in Versioned /\ Updated(Absent, ids) \in Versioned
    BY EmptyTyped, UpdatedTyped DEF WellTyped, StoreState
  <2>3. store' \in StoreState
    BY <2>1, <2>2 DEF StoreState
  <2>4. clock' \in 1..MaxEvents + 1
    BY <2>1, BoundAssumption DEF WellTyped
  <2>. QED
    BY <2>1, <2>2, <2>3, <2>4 DEF WellTyped
<1>2. ASSUME WriteDone, todo # <<>>, receipts' \in ReceiptList,
             cur' \in Current \cup {None}, store' \in StoreState, repo' \in Versioned,
             disk' \in [audit : Seq(Event), torn : BOOLEAN, state : StoreState \cup {None}, rec : Versioned]
      PROVE  WellTyped'
  BY <1>2, TodoTyped DEF WellTyped, WriteDone
<1>3. todo # <<>> => cur \in Current /\ [cur EXCEPT !.degraded = TRUE] \in Current
  BY DEF Current, HandlerInv, WellTyped
<1>4. ASSUME appendAuditEvent
      PROVE  WellTyped'
  <2>1. todo # <<>> /\ WriteDone /\ UNCHANGED repo /\ store' = [store EXCEPT !.receipts = receipts']
    BY <1>4 DEF appendAuditEvent, Ready
  <2>2. receipts' \in ReceiptList
    BY <1>4, DegradedTyped DEF appendAuditEvent, SkipAppend, Component, WellTyped
  <2>3. store' \in StoreState
    BY <2>1, <2>2 DEF WellTyped, StoreState
  <2>4. cur' \in Current \cup {None}
    BY <1>4, <1>3, <2>1 DEF appendAuditEvent, SkipAppend, WellTyped
  <2>5. store.events[Len(store.events)] \in Event
    BY <2>1, ElementOfSeq DEF HandlerInv, WellTyped, StoreState
  <2>6. Append(disk.audit, store.events[Len(store.events)]) \in Seq(Event)
    BY <2>5, AppendProperties DEF WellTyped
  <2>7. disk' \in [audit : Seq(Event), torn : BOOLEAN, state : StoreState \cup {None}, rec : Versioned]
    BY <1>4, <2>6 DEF appendAuditEvent, SkipAppend, WellTyped
  <2>. QED
    BY <1>2, <2>1, <2>2, <2>3, <2>4, <2>7 DEF WellTyped
<1>5. ASSUME persistStoreSnapshot
      PROVE  WellTyped'
  <2>1. todo # <<>> /\ WriteDone /\ UNCHANGED repo
    BY <1>5 DEF persistStoreSnapshot, Ready
  <2>2. receipts' \in ReceiptList
    BY <1>5, DegradedTyped DEF persistStoreSnapshot, Component, WellTyped
  <2>3. store' \in StoreState
    BY <1>5, <2>2 DEF persistStoreSnapshot, WellTyped, StoreState
  <2>4. cur' \in Current \cup {None}
    BY <1>5, <1>3, <2>1 DEF persistStoreSnapshot, WellTyped
  <2>5. disk' \in [audit : Seq(Event), torn : BOOLEAN, state : StoreState \cup {None}, rec : Versioned]
    BY <1>5 DEF persistStoreSnapshot, WellTyped
  <2>. QED
    BY <1>2, <2>1, <2>2, <2>3, <2>4, <2>5 DEF WellTyped
<1>6. ASSUME NEW r \in {"graph", "job"}, persistRecord(r)
      PROVE  WellTyped'
  <2>1. todo # <<>> /\ WriteDone
    BY <1>6 DEF persistRecord
  <2>2. receipts' \in ReceiptList
    BY <1>6, DegradedTyped DEF persistRecord, Component, WellTyped
  <2>3. store' \in StoreState
    BY <1>6, <2>2 DEF persistRecord, WellTyped, StoreState
  <2>4. cur' \in Current \cup {None}
    BY <1>6, <1>3, <2>1 DEF persistRecord, WellTyped
  <2>. DEFINE changed == IF r = "graph" THEN GraphRecords(Head(todo)) ELSE JobRecords(Head(todo))
  <2>5. changed \in Versioned
    <3>1. repo \in Versioned /\ cur.rec \in Versioned
      BY <1>3, <2>1 DEF Current, WellTyped
    <3>2. Head(todo) \in Part(r) /\ Part(r) \subseteq Id
      BY <1>6 DEF persistRecord, Part, Id
    <3>3. upsertById(repo, Head(todo), cur.rec[Head(todo)]) \in Versioned
      BY <3>1, <3>2 DEF upsertById, Versioned
    <3>. QED
      BY <3>1, <3>3 DEF GraphRecords, JobRecords
  <2>6. repo' \in Versioned
    <3>1. repo' = repo \/ repo' = changed
      BY <1>6 DEF persistRecord
    <3>. QED
      BY <2>5, <3>1 DEF WellTyped
  <2>7. Persisted(r, changed) \in Versioned
    <3>. HIDE DEF changed
    <3>. QED
      BY <2>5 DEF Persisted, Versioned, WellTyped
  <2>8. disk' \in [audit : Seq(Event), torn : BOOLEAN, state : StoreState \cup {None}, rec : Versioned]
    <3>1. disk' = disk \/ disk' = [disk EXCEPT !.rec = Persisted(r, changed)]
      BY <1>6 DEF persistRecord
    <3>. HIDE DEF changed
    <3>. QED
      BY <2>7, <3>1 DEF WellTyped
  <2>. QED
    BY <1>2, <2>1, <2>2, <2>3, <2>4, <2>6, <2>8 DEF WellTyped
<1>7. ASSUME Answer
      PROVE  WellTyped'
  <2>1. cur \in Current
    BY <1>7 DEF Answer, WellTyped
  <2>2. acked' \in [events : SUBSET Nat, rec : Versioned, gone : Versioned]
    <3>1. CASE cur.degraded
      BY <1>7, <3>1 DEF Answer, WellTyped
    <3>2. CASE ~cur.degraded
      <4>. DEFINE rec == [i \in Id |-> IF acked.rec[i] < cur.rec[i] /\ cur.rec[i] <= store.rec[i]
                                       THEN cur.rec[i] ELSE acked.rec[i]]
                  gone == [i \in Id |-> IF i \in cur.withdrawn THEN cur.version ELSE acked.gone[i]]
      <4>1. acked' = [events |-> acked.events \cup {cur.version}, rec |-> rec, gone |-> gone]
        BY <1>7, <3>2 DEF Answer
      <4>2. /\ cur.version \in Nat /\ cur.rec \in Versioned
            /\ acked.events \in SUBSET Nat /\ acked.rec \in Versioned /\ acked.gone \in Versioned
        BY <2>1 DEF Current, WellTyped
      <4>3. rec \in Versioned /\ gone \in Versioned
        BY <4>2 DEF Versioned
      <4>. HIDE DEF rec, gone
      <4>. QED
        BY <4>1, <4>2, <4>3
    <3>. QED
      BY <3>1, <3>2
  <2>. QED
    BY <1>7, <2>2 DEF Answer, WellTyped
<1>8. ASSUME Crash
      PROVE  WellTyped'
  <2>1. <<>> \in Seq(WriteItem)
    BY EmptySeq
  <2>2. disk' \in [audit : Seq(Event), torn : BOOLEAN, state : StoreState \cup {None}, rec : Versioned]
    BY <1>8 DEF Crash, WellTyped
  <2>. QED
    BY <1>8, <2>1, <2>2, EmptyTyped DEF Crash, WellTyped
<1>9. ASSUME NEW written, disk' = [disk EXCEPT !.rec = Seeded(@, written, initialRuntimeSeed)]
      PROVE  disk' \in [audit : Seq(Event), torn : BOOLEAN, state : StoreState \cup {None}, rec : Versioned]
  <2>1. Seeded(disk.rec, written, initialRuntimeSeed) \in Versioned
    BY SeedTyped, SeededTyped DEF WellTyped
  <2>. QED
    BY <1>9, <2>1 DEF WellTyped
<1>10. \A written : Seeded(Opened, written, initialRuntimeSeed) \in Versioned
  BY SeedTyped, SeededTyped
<1>11. ASSUME Start
       PROVE  WellTyped'
  <2>1. disk' \in [audit : Seq(Event), torn : BOOLEAN, state : StoreState \cup {None}, rec : Versioned]
    BY <1>11, <1>9 DEF Start
  <2>2. initialRuntimeSeed.receipts \in ReceiptList
    BY SeedTyped DEF StoreState
  <2>3. repo' \in Versioned
    BY <1>11, <1>10 DEF Start
  <2>. QED
    BY <1>11, <2>1, <2>2, <2>3, SeedTyped DEF Start, WellTyped
<1>12. ASSUME NEW r \in {"graph", "job"}, StartDegraded(r)
       PROVE  WellTyped'
  <2>1. disk' \in [audit : Seq(Event), torn : BOOLEAN, state : StoreState \cup {None}, rec : Versioned]
    BY <1>12, <1>9 DEF StartDegraded
  <2>2. receipts' \in ReceiptList
    BY <1>12, SeedTyped, DegradationKept DEF StartDegraded, StoreState, Component
  <2>3. repo' \in Versioned
    BY <1>12, <1>10 DEF StartDegraded
  <2>4. store' \in StoreState
    BY <1>12, <2>2, SeedTyped DEF StartDegraded, StoreState
  <2>. QED
    BY <1>12, <2>1, <2>2, <2>3, <2>4, SeedTyped DEF StartDegraded, WellTyped
<1>13. ASSUME CrashWhileSeeding
       PROVE  WellTyped'
  <2>1. disk' \in [audit : Seq(Event), torn : BOOLEAN, state : StoreState \cup {None}, rec : Versioned]
    BY <1>13, <1>9 DEF CrashWhileSeeding
  <2>. QED
    BY <1>13, <2>1 DEF CrashWhileSeeding, WellTyped
<1>14. ASSUME UNCHANGED vars
       PROVE  WellTyped'
  BY <1>14 DEF vars, WellTyped
<1>. QED
  BY <1>1, <1>4, <1>5, <1>6, <1>7, <1>8, <1>11, <1>12, <1>13, <1>14, <1>15 DEF Next, Beginning

-----------------------------------------------------------------------------
(* The handler in progress *)

Write == \/ appendAuditEvent
         \/ persistStoreSnapshot
         \/ \E r \in {"graph", "job"} : persistRecord(r)

Starting == Start \/ \E r \in {"graph", "job"} : StartDegraded(r)

LEMMA NoneIsNoHandler == None \notin Current
BY NoneAssumption DEF Current, Kind, Versioned

\* A write changes neither the events in memory nor what the handler is about.
LEMMA WriteKeeps ==
  ASSUME WellTyped, HandlerInv, Write
  PROVE  /\ up /\ up' /\ todo # <<>> /\ todo' = Tail(todo)
         /\ cur \in Current /\ cur' \in Current /\ cur # None /\ cur' # None
         /\ cur'.rec = cur.rec /\ cur'.withdrawn = cur.withdrawn /\ cur'.version = cur.version
      /\ (cur.degraded => cur'.degraded)
         /\ store'.events = store.events /\ store'.rec = store.rec
         /\ UNCHANGED <<config, syncs, recorder, clock, acked, undone, halfSeeded>>
<1>1. /\ todo # <<>> /\ up /\ WriteDone
  BY DEF Write, appendAuditEvent, persistStoreSnapshot, persistRecord, Ready
<1>2. cur \in Current
  BY <1>1 DEF WellTyped, HandlerInv
<1>3. \/ cur' = cur
      \/ cur' = [cur EXCEPT !.degraded = TRUE]
  BY DEF Write, appendAuditEvent, persistStoreSnapshot, persistRecord, SkipAppend
<1>4. /\ cur' \in Current
      /\ cur'.rec = cur.rec /\ cur'.withdrawn = cur.withdrawn /\ cur'.version = cur.version
      /\ (cur.degraded => cur'.degraded)
  BY <1>2, <1>3 DEF Current
<1>5. store' = store \/ store' = [store EXCEPT !.receipts = receipts']
  BY DEF Write, appendAuditEvent, persistStoreSnapshot, persistRecord
<1>6. store'.events = store.events /\ store'.rec = store.rec
  BY <1>5 DEF WellTyped, StoreState
<1>. QED
  BY <1>1, <1>2, <1>4, <1>6, NoneIsNoHandler DEF WriteDone

\* What a beginning handler or sync leaves in memory, and what it is about to write.
LEMMA BeginningEffect ==
  ASSUME WellTyped, HandlerInv, Beginning
  PROVE  /\ up /\ up' /\ cur = None /\ todo = <<>> /\ clock' = clock + 1
         /\ Recorded(recorder) \in Event /\ Recorded(recorder).id = clock + 1
         /\ Recorded(recorder).prev = TailHash(recorder)
         /\ recorder' = Append(recorder, Recorded(recorder))
         /\ store'.events = Append(store.events, Recorded(recorder))
         /\ store'.receipts = store.receipts
         /\ cur' \in Current /\ cur' # None /\ ~cur'.degraded /\ cur'.version = clock + 1
         /\ Planned(todo', cur'.rec) /\ Begins(store'.rec, cur'.rec, cur'.withdrawn)
         /\ syncs' \subseteq syncs
         /\ UNCHANGED <<config, receipts, repo, disk, acked, halfSeeded>>
<1>1. PICK kind \in Kind, records \in Versioned, written \in Versioned, withdrawn \in SUBSET Id :
        /\ RecordAudit(kind, records, written, withdrawn, todo')
        /\ Planned(todo', written)
        /\ Begins(records, written, withdrawn)
        /\ syncs' \subseteq syncs
  BY BeginningMeaning
<1>2. /\ up /\ up' /\ cur = None /\ clock < MaxEvents + 1 /\ clock' = clock + 1
      /\ recorder' = Append(recorder, Recorded(recorder))
      /\ store' = [store EXCEPT !.events = Append(@, Recorded(recorder)), !.rec = records]
      /\ cur' = [kind |-> kind, rec |-> written, withdrawn |-> withdrawn,
                 version |-> clock + 1, degraded |-> FALSE]
      /\ UNCHANGED <<config, receipts, repo, disk, acked, halfSeeded>>
  BY <1>1 DEF RecordAudit
<1>3. /\ Recorded(recorder) \in Event /\ Recorded(recorder).id = clock + 1
      /\ Recorded(recorder).prev = TailHash(recorder)
  BY <1>2, RecordedTyped
<1>4. /\ store'.events = Append(store.events, Recorded(recorder))
      /\ store'.receipts = store.receipts /\ store'.rec = records
  BY <1>2 DEF WellTyped, StoreState
<1>5. /\ cur' \in Current /\ ~cur'.degraded /\ cur'.version = clock + 1
      /\ cur'.rec = written /\ cur'.withdrawn = withdrawn
  BY <1>1, <1>2, BoundAssumption DEF Current, WellTyped
<1>6. Planned(todo', cur'.rec) /\ Begins(store'.rec, cur'.rec, cur'.withdrawn)
  BY <1>1, <1>4, <1>5
<1>7. todo = <<>>
  BY <1>2 DEF HandlerInv
<1>. QED
  BY <1>1, <1>2, <1>3, <1>4, <1>5, <1>6, <1>7, NoneIsNoHandler

\* The audit write comes first; afterwards it is done.
LEMMA TailOfTodo ==
  ASSUME WellTyped, HandlerInv, todo # <<>>, todo' = Tail(todo)
  PROVE  /\ \A k \in 1..Len(todo') : todo'[k] # "audit"
         /\ ~AuditPending'
         /\ \A k \in 1..Len(todo') : k + 1 \in 1..Len(todo) /\ todo'[k] = todo[k + 1]
         /\ \A w \in WriteItem : Pending(w) => todo[1] = w \/ Pending(w)'
<1>1. /\ todo' \in Seq(WriteItem) /\ Len(todo') = Len(todo) - 1 /\ Len(todo) > 0
      /\ \A k \in 1..Len(todo') : todo'[k] = todo[k + 1]
  BY TodoTyped
<1>2. \A k \in 1..Len(todo') : k + 1 \in 2..Len(todo)
  BY <1>1, LenProperties DEF WellTyped
<1>3. \A k \in 1..Len(todo') : todo'[k] # "audit"
  BY <1>1, <1>2 DEF HandlerInv
<1>4. ~AuditPending'
  BY <1>1, <1>3, EmptySeq DEF AuditPending
<1>5. ASSUME NEW w \in WriteItem, Pending(w), todo[1] # w
      PROVE  Pending(w)'
  <2>1. PICK k \in 1..Len(todo) : todo[k] = w
    BY <1>5 DEF Pending
  <2>2. k - 1 \in 1..Len(todo') /\ todo'[k - 1] = w
    BY <1>1, <1>5, <2>1
  <2>. QED
    BY <2>2 DEF Pending
<1>. QED
  BY <1>1, <1>2, <1>3, <1>4, <1>5

LEMMA HandlerInit == Init => HandlerInv
BY EmptySeq DEF Init, HandlerInv

LEMMA HandlerStep == WellTyped /\ HandlerInv /\ [Next]_vars => HandlerInv'
<1>. SUFFICES ASSUME WellTyped, HandlerInv, [Next]_vars
              PROVE  HandlerInv'
  OBVIOUS
<1>1. ASSUME Beginning
      PROVE  HandlerInv'
  <2>. DEFINE e == Recorded(recorder)
  <2>1. /\ up /\ up' /\ cur' # None /\ clock' = clock + 1 /\ cur'.version = clock + 1
        /\ e \in Event /\ e.id = clock + 1 /\ recorder' = Append(recorder, e)
        /\ store'.events = Append(store.events, e)
        /\ Planned(todo', cur'.rec) /\ Begins(store'.rec, cur'.rec, cur'.withdrawn)
        /\ syncs' \subseteq syncs
    BY <1>1, BeginningEffect
  <2>. HIDE DEF e
  <2>2. /\ Len(recorder') = Len(recorder) + 1 /\ recorder'[Len(recorder')] = e
        /\ Len(recorder) \in Nat
    BY <2>1, AppendProperties, LenProperties DEF WellTyped
  <2>3. store.events \in Seq(Event)
    BY DEF WellTyped, StoreState
  <2>4. /\ Len(store'.events) = Len(store.events) + 1 /\ store'.events[Len(store'.events)] = e
        /\ Len(store.events) \in Nat
    BY <2>1, <2>3, AppendProperties, LenProperties
  <2>5. \A copy \in syncs : \A i \in Id :
          copy[i] <= clock /\ copy[i] \in Nat /\ (copy[i] # 0 => i \in GraphId \ NativeGrant)
    BY DEF HandlerInv, WellTyped, Versioned
  <2>6. clock \in Nat
    BY BoundAssumption DEF WellTyped
  <2>7. \A copy \in syncs' : \A i \in Id :
          copy[i] <= clock' /\ (copy[i] # 0 => i \in GraphId \ NativeGrant)
    BY <2>1, <2>5, <2>6
  <2>8. \A i \in Id : cur'.rec[i] <= clock'
    BY <2>1, <2>5, <2>6 DEF Begins
  <2>9. \A i \in cur'.withdrawn : store'.rec[i] = 0
    BY <2>1 DEF Begins
  <2>10. /\ \A k \in 2..Len(todo') : todo'[k] # "audit"
         /\ \A k \in 1..Len(todo') : todo'[k] \in Id => cur'.rec[todo'[k]] # 0
    BY <2>1 DEF Planned
  <2>. QED
    BY <2>1, <2>2, <2>4, <2>7, <2>8, <2>9, <2>10 DEF HandlerInv
<1>8. ASSUME NEW ids \in SUBSET (GraphId \ NativeGrant), StartSync(ids)
      PROVE  HandlerInv'
  <2>1. /\ up /\ up' /\ cur = None /\ cur' = None /\ todo' = todo /\ clock' = clock + 1
        /\ syncs' = syncs \cup {Updated(Absent, ids)}
    BY <1>8 DEF StartSync
  <2>2. /\ \A i \in Id : Updated(Absent, ids)[i] = IF i \in ids THEN clock + 1 ELSE 0
        /\ clock \in Nat
    BY EmptyTyped, UpdatedTyped DEF Absent
  <2>3. \A copy \in syncs : \A i \in Id :
          copy[i] <= clock /\ copy[i] \in Nat /\ (copy[i] # 0 => i \in GraphId \ NativeGrant)
    BY DEF HandlerInv, WellTyped, Versioned
  <2>4. \A copy \in syncs' : \A i \in Id :
          copy[i] <= clock' /\ (copy[i] # 0 => i \in GraphId \ NativeGrant)
    BY <2>1, <2>2, <2>3
  <2>. QED
    BY <2>1, <2>4 DEF HandlerInv
<1>2. ASSUME Write
      PROVE  HandlerInv'
  <2>1. /\ up' /\ todo # <<>> /\ todo' = Tail(todo) /\ cur # None /\ cur' # None
        /\ cur'.rec = cur.rec /\ cur'.withdrawn = cur.withdrawn /\ cur'.version = cur.version
        /\ store'.events = store.events /\ store'.rec = store.rec
        /\ UNCHANGED <<recorder, clock, syncs>>
    BY <1>2, WriteKeeps
  <2>2. /\ \A k \in 2..Len(todo') : todo'[k] # "audit"
        /\ \A k \in 1..Len(todo') : todo'[k] \in Id => cur'.rec[todo'[k]] # 0
    BY <2>1, TailOfTodo DEF HandlerInv
  <2>3. \A copy \in syncs' : \A i \in Id :
          copy[i] <= clock' /\ (copy[i] # 0 => i \in GraphId \ NativeGrant)
    BY <2>1 DEF HandlerInv
  <2>. QED
    BY <2>1, <2>2, <2>3 DEF HandlerInv
<1>3. ASSUME Answer
      PROVE  HandlerInv'
  BY <1>3, EmptySeq DEF Answer, HandlerInv
<1>4. ASSUME Crash
      PROVE  HandlerInv'
  BY <1>4, EmptySeq DEF Crash, HandlerInv
<1>5. ASSUME Starting
      PROVE  HandlerInv'
  <2>1. ~up /\ UNCHANGED <<todo, cur, syncs>> /\ up'
    BY <1>5 DEF Starting, Start, StartDegraded, Startable
  <2>2. cur' = None /\ todo' = <<>> /\ syncs' = {}
    BY <2>1 DEF HandlerInv
  <2>. QED
    BY <2>1, <2>2, EmptySeq DEF HandlerInv
<1>6. ASSUME CrashWhileSeeding
      PROVE  HandlerInv'
  BY <1>6 DEF CrashWhileSeeding, HandlerInv
<1>7. ASSUME UNCHANGED vars
      PROVE  HandlerInv'
  BY <1>7 DEF vars, HandlerInv
<1>. QED
  BY <1>1, <1>2, <1>3, <1>4, <1>5, <1>6, <1>7, <1>8 DEF Next, Beginning, Write, Starting

-----------------------------------------------------------------------------
(* The audit trail *)

LEMMA PrefixFacts ==
  ASSUME NEW p \in Seq(Event), NEW s \in Seq(Event)
  PROVE  /\ Prefix(s, s) /\ Prefix(<<>>, s)
         /\ Prefix(p, s) /\ Len(s) <= Len(p) => p = s
         /\ \A e \in Event : Prefix(p, s) => Prefix(p, Append(s, e))
         /\ \A t \in Seq(Event) : Prefix(p, s) /\ Prefix(s, t) => Prefix(p, t)
<1>. USE LenProperties
<1>1. Prefix(s, s) /\ Prefix(<<>>, s)
  BY EmptySeq DEF Prefix
<1>2. ASSUME Prefix(p, s), Len(s) <= Len(p)
      PROVE  p = s
  BY <1>2, SeqEqual DEF Prefix
<1>3. ASSUME NEW e \in Event, Prefix(p, s)
      PROVE  Prefix(p, Append(s, e))
  BY <1>3, AppendProperties DEF Prefix
<1>4. ASSUME NEW t \in Seq(Event), Prefix(p, s), Prefix(s, t)
      PROVE  Prefix(p, t)
  BY <1>4 DEF Prefix
<1>. QED
  BY <1>1, <1>2, <1>3, <1>4

LEMMA NoneIsNoStore == None \notin StoreState
BY NoneAssumption DEF StoreState, ReceiptList, Versioned, Component

LEMMA TrailTyped ==
  ASSUME WellTyped
  PROVE  /\ SnapshotEvents \in Seq(Event) /\ disk.audit \in Seq(Event)
         /\ store.events \in Seq(Event) /\ recorder \in Seq(Event)
         /\ receipts \in ReceiptList /\ store.receipts \in ReceiptList
         /\ Len(SnapshotEvents) \in Nat /\ Len(disk.audit) \in Nat /\ Len(store.events) \in Nat
<1>1. SnapshotEvents \in Seq(Event) /\ disk.audit \in Seq(Event) /\ store.events \in Seq(Event)
  BY EmptySeq DEF WellTyped, SnapshotEvents, StoreState
<1>. QED
  BY <1>1, LenProperties DEF WellTyped, StoreState

\* The events a start goes on with.
LEMMA StartEvents ==
  ASSUME WellTyped, TrailInv
  PROVE  LET seed == initialRuntimeSeed
         IN  /\ "state" \in config =>
                  /\ Prefix(SnapshotEvents, seed.events)
                  /\ initialAuditEvents(seed) = seed.events
             /\ Linked(initialAuditEvents(seed))
             /\ "state" \notin config /\ "audit" \in config => initialAuditEvents(seed) = disk.audit
             /\ BothKept =>
                  /\ Prefix(disk.audit, seed.events)
                  /\ disk.audit = seed.events \/ Tells(seed.receipts)
<1>. DEFINE base == BaseSeed
            seed == initialRuntimeSeed
<1>1. /\ base \in StoreState /\ seed.receipts = base.receipts
      /\ seed.events = recoverAppendOnlyAuditEvents(base)
  BY SeedTyped
<1>2. "state" \in config => base.events = SnapshotEvents
  BY DEF BaseSeed, SnapshotEvents
<1>3. "state" \notin config => base.events = <<>>
  BY DEF BaseSeed
<1>. HIDE DEF base, seed
<1>4. seed.events = base.events \/ (BothKept /\ seed.events = disk.audit)
  BY <1>1 DEF recoverAppendOnlyAuditEvents, BothKept
<1>5. CASE "state" \notin config
  <2>1. seed.events = <<>>
    BY <1>3, <1>4, <1>5 DEF BothKept
  <2>2. Linked(<<>>)
    BY EmptySeq DEF Linked
  <2>. QED
    BY <1>5, <2>1, <2>2 DEF initialAuditEvents, TrailInv, BothKept, seed
<1>6. CASE "state" \in config /\ "audit" \notin config
  <2>1. seed.events = SnapshotEvents
    BY <1>2, <1>4, <1>6 DEF BothKept
  <2>. QED
    BY <1>6, <2>1, TrailTyped, PrefixFacts DEF initialAuditEvents, TrailInv, BothKept, seed
<1>7. CASE BothKept
  <2>1. initialAuditEvents(seed) = seed.events
    BY <1>7 DEF initialAuditEvents, BothKept
  <2>2. CASE Len(disk.audit) > Len(SnapshotEvents)
    <3>1. Prefix(SnapshotEvents, disk.audit)
      BY <1>7, <2>2, TrailTyped DEF TrailInv, Prefix
    <3>2. StartsWith(disk.audit, base.events) /\ verifyAuditChain(disk.audit)
      BY <1>2, <1>7, <3>1, TrailTyped, StartsWithMeaning, VerifyMeaning DEF TrailInv, BothKept
    <3>3. seed.events = disk.audit
      BY <1>1, <1>2, <1>7, <2>2, <3>2 DEF recoverAppendOnlyAuditEvents, BothKept
    <3>. QED
      BY <1>7, <2>1, <3>1, <3>3, TrailTyped, PrefixFacts DEF TrailInv, BothKept, seed
  <2>3. CASE ~(Len(disk.audit) > Len(SnapshotEvents))
    <3>1. seed.events = SnapshotEvents
      BY <1>1, <1>2, <1>7, <2>3 DEF recoverAppendOnlyAuditEvents, BothKept
    <3>2. Prefix(disk.audit, SnapshotEvents)
      BY <1>7, <2>3, TrailTyped, PrefixFacts DEF TrailInv
    <3>3. disk.audit = SnapshotEvents \/ Len(disk.audit) < Len(SnapshotEvents)
      BY <3>2, TrailTyped, PrefixFacts
    <3>4. ASSUME Len(disk.audit) < Len(SnapshotEvents)
          PROVE  Tells(seed.receipts)
      <4>1. disk.state # None
        BY <3>4, TrailTyped, EmptySeq DEF SnapshotEvents
      <4>2. base.receipts = disk.state.receipts
        BY <1>7, <4>1 DEF base, BaseSeed, BothKept
      <4>. QED
        BY <1>1, <1>7, <3>4, <4>2 DEF TrailInv
    <3>. QED
      BY <1>7, <2>1, <3>1, <3>2, <3>3, <3>4, TrailTyped, PrefixFacts DEF TrailInv, BothKept, seed
  <2>. QED
    BY <2>2, <2>3
<1>. QED
  BY <1>5, <1>6, <1>7 DEF BothKept

\* The audit file grows by the handler's event or stays; with a snapshot it then holds
\* what the store holds, and if it stays the receipts tell.
LEMMA AppendEffect ==
  ASSUME WellTyped, HandlerInv, TrailInv, appendAuditEvent
  PROVE  LET e == store.events[Len(store.events)]
         IN  /\ disk'.state = disk.state /\ e \in Event
             /\ \/ /\ "audit" \in config /\ disk'.audit = Append(disk.audit, e) /\ Linked(disk'.audit)
                   /\ cur' = cur
                   /\ \A k \in 1..Len(disk.audit) : disk.audit[k].id # e.id
                   /\ e.prev = TailHash(disk.audit)
                   /\ BothKept => disk'.audit = store.events
                \/ /\ disk'.audit = disk.audit
                   /\ "audit" \in config => Tells(receipts') /\ Tells(store'.receipts) /\ cur'.degraded
<1>. DEFINE e == store.events[Len(store.events)]
<1>1. /\ Ready("audit") /\ store' = [store EXCEPT !.receipts = receipts'] /\ cur \in Current
  BY DEF appendAuditEvent, Ready, HandlerInv, WellTyped
<1>2. Len(store.events) > 0 /\ e \in Event /\ store.events # <<>>
  BY <1>1, TrailTyped, ElementOfSeq, EmptySeq DEF Ready, HandlerInv, WellTyped, StoreState
<1>3. store'.receipts = receipts'
  BY <1>1 DEF WellTyped, StoreState
<1>4. CASE "audit" \in config /\ AppendAccepted(e) /\ disk' = [disk EXCEPT !.audit = Append(@, e)] /\ cur' = cur
  <2>1. disk'.audit = Append(disk.audit, e) /\ disk'.state = disk.state
    BY <1>4 DEF WellTyped
  <2>2. e.prev = TailHash(disk.audit) /\ \A k \in 1..Len(disk.audit) : disk.audit[k].id # e.id
    BY <1>4 DEF AppendAccepted
  <2>3. Linked(disk'.audit)
    BY <1>2, <2>1, <2>2, TrailTyped, LinkedAppend DEF TrailInv
  <2>4. BothKept => disk'.audit = store.events
    <3>1. BothKept => disk.audit = Front(store.events)
      BY <1>4 DEF AppendAccepted, auditRepositoryMatches, BothKept
    <3>. QED
      BY <1>2, <2>1, <3>1, TrailTyped, FrontMeaning
  <2>. QED
    BY <1>2, <1>4, <2>1, <2>2, <2>3, <2>4
<1>5. CASE "audit" \in config /\ Degraded("audit") /\ cur' = [cur EXCEPT !.degraded = TRUE]
           /\ disk'.audit = disk.audit /\ disk'.state = disk.state
  <2>1. Tells(receipts')
    BY <1>5, TrailTyped, DegradationKept DEF Degraded, Component
  <2>2. cur'.degraded
    BY <1>1, <1>5 DEF Current
  <2>. QED
    BY <1>2, <1>3, <1>5, <2>1, <2>2
<1>6. CASE "audit" \notin config /\ disk' = disk
  BY <1>2, <1>6
<1>. QED
  BY <1>4, <1>5, <1>6 DEF appendAuditEvent, SkipAppend, WellTyped

LEMMA TrailInit == Init => TrailInv
<1>. SUFFICES ASSUME Init
              PROVE  TrailInv
  OBVIOUS
<1>1. recorder = <<>> /\ disk.audit = <<>> /\ disk.state = None /\ ~up
  BY DEF Init
<1>2. SnapshotEvents = <<>>
  BY <1>1 DEF SnapshotEvents
<1>3. Linked(<<>>) /\ Prefix(<<>>, <<>>) /\ Len(<<>>) = 0
  BY EmptySeq DEF Linked, Prefix
<1>. QED
  BY <1>1, <1>2, <1>3 DEF TrailInv

LEMMA TrailStep ==
  WellTyped /\ WellTyped' /\ HandlerInv /\ TrailInv /\ [Next]_vars => TrailInv'
<1>. SUFFICES ASSUME WellTyped, WellTyped', HandlerInv, TrailInv, [Next]_vars
              PROVE  TrailInv'
  OBVIOUS
<1>1. ASSUME Beginning
      PROVE  TrailInv'
  <2>. DEFINE e == Recorded(recorder)
  <2>1. /\ up /\ up' /\ recorder' = Append(recorder, e) /\ e \in Event /\ e.prev = TailHash(recorder)
        /\ store'.events = Append(store.events, e)
        /\ Planned(todo', cur'.rec) /\ UNCHANGED <<disk, config>>
    BY <1>1, BeginningEffect
  <2>. HIDE DEF e
  <2>2. Linked(recorder')
    BY <2>1, TrailTyped, LinkedAppend DEF TrailInv
  <2>3. AuditPending'
    BY <2>1, EmptySeq DEF AuditPending, Planned
  <2>4. UNCHANGED <<SnapshotEvents, BothKept>>
    BY <2>1 DEF SnapshotEvents, BothKept
  <2>5. /\ "state" \in config => Prefix(SnapshotEvents, Append(store.events, e))
        /\ BothKept => Prefix(disk.audit, Append(store.events, e))
    BY <2>1, TrailTyped, PrefixFacts DEF TrailInv, BothKept
  <2>. QED
    BY <2>1, <2>2, <2>3, <2>4, <2>5 DEF TrailInv
<1>10. ASSUME NEW ids, StartSync(ids)
       PROVE  TrailInv'
  <2>1. /\ store'.events = store.events /\ store'.receipts = store.receipts
        /\ UNCHANGED <<config, up, todo, cur, recorder, receipts, disk>>
    BY <1>10 DEF StartSync, WellTyped, StoreState
  <2>2. UNCHANGED <<SnapshotEvents, BothKept, AuditPending>>
    BY <2>1 DEF SnapshotEvents, BothKept, AuditPending
  <2>. QED
    BY <2>1, <2>2 DEF TrailInv
<1>2. ASSUME appendAuditEvent
      PROVE  TrailInv'
  <2>1. /\ up /\ up' /\ store'.events = store.events /\ UNCHANGED <<config, recorder>>
    BY <1>2, WriteKeeps DEF Write
  <2>2. disk'.state = disk.state
    BY <1>2, AppendEffect
  <2>3. UNCHANGED <<SnapshotEvents, BothKept>>
    BY <2>1, <2>2 DEF SnapshotEvents, BothKept
  <2>4. CASE disk'.audit = disk.audit
    <3>1. "audit" \in config => (Tells(receipts') /\ Tells(store'.receipts)) \/ disk'.audit = store.events
      BY <1>2, <2>4, AppendEffect DEF BothKept, TrailInv
    <3>. QED
      BY <2>1, <2>2, <2>3, <2>4, <3>1 DEF TrailInv, BothKept
  <2>5. CASE Linked(disk'.audit) /\ (BothKept => disk'.audit = store.events)
    <3>1. BothKept => Prefix(SnapshotEvents, disk'.audit) /\ Prefix(disk'.audit, store.events)
      BY <2>1, <2>5, TrailTyped, PrefixFacts DEF TrailInv, BothKept
    <3>2. BothKept => ~(Len(disk'.audit) < Len(SnapshotEvents))
      BY <3>1, <2>5, TrailTyped DEF Prefix
    <3>. QED
      BY <2>1, <2>2, <2>3, <2>5, <3>1, <3>2 DEF TrailInv
  <2>. QED
    BY <1>2, <2>4, <2>5, AppendEffect
<1>3. ASSUME persistStoreSnapshot
      PROVE  TrailInv'
  <2>1. /\ up /\ up' /\ store'.events = store.events /\ UNCHANGED <<config, recorder>>
        /\ todo # <<>> /\ todo' = Tail(todo)
    BY <1>3, WriteKeeps DEF Write
  <2>2. ~AuditPending
    BY <1>3, <2>1, TodoTyped DEF AuditPending, persistStoreSnapshot, Ready
  <2>3. CASE "state" \in config /\ disk' = [disk EXCEPT !.state = store] /\ UNCHANGED <<receipts, store>>
    <3>1. disk'.audit = disk.audit /\ disk'.state = store
      BY <2>3 DEF WellTyped
    <3>2. SnapshotEvents' = store.events /\ disk'.state # None
      BY <3>1, NoneIsNoStore DEF SnapshotEvents, WellTyped
    <3>3. recorder = store.events /\ (BothKept => Prefix(disk.audit, store.events))
      BY <2>1, <2>3 DEF TrailInv
    <3>4. BothKept /\ Len(disk.audit) < Len(store.events) => Tells(store.receipts)
      <4>1. disk.audit = store.events => Len(disk.audit) = Len(store.events)
        OBVIOUS
      <4>. QED
        BY <4>1, <2>1, <2>2, TrailTyped DEF TrailInv
    <3>5. Prefix(store.events, store.events)
      BY TrailTyped, PrefixFacts
    <3>6. BothKept' = BothKept
      BY <2>1 DEF BothKept
    <3>7. up' /\ BothKept' => disk'.audit = store'.events \/ (Tells(receipts') /\ Tells(store'.receipts))
      BY <2>1, <2>2, <2>3, <3>1, <3>6 DEF TrailInv
    <3>. QED
      BY <2>1, <2>3, <3>1, <3>2, <3>3, <3>4, <3>5, <3>6, <3>7 DEF TrailInv
  <2>4. CASE disk' = disk
    <3>1. UNCHANGED <<SnapshotEvents, BothKept>>
      BY <2>1, <2>4 DEF SnapshotEvents, BothKept
    <3>2. Tells(receipts) => Tells(receipts')
      BY <1>3, TrailTyped, DegradationKept DEF persistStoreSnapshot, Degraded, Component
    <3>3. store'.receipts = store.receipts \/ store'.receipts = receipts'
      BY <1>3 DEF persistStoreSnapshot, WellTyped, StoreState
    <3>. QED
      BY <2>1, <2>2, <2>4, <3>1, <3>2, <3>3 DEF TrailInv
  <2>. QED
    BY <1>3, <2>3, <2>4 DEF persistStoreSnapshot
<1>4. ASSUME NEW r \in {"graph", "job"}, persistRecord(r)
      PROVE  TrailInv'
  <2>1. /\ up /\ up' /\ store'.events = store.events /\ UNCHANGED <<config, recorder>>
        /\ todo # <<>> /\ todo' = Tail(todo)
    BY <1>4, WriteKeeps DEF Write
  <2>2. ~AuditPending
    BY <1>4, <2>1, TodoTyped, ItemsDiffer DEF AuditPending, persistRecord, Part, Id
  <2>3. disk'.audit = disk.audit /\ disk'.state = disk.state
    BY <1>4 DEF persistRecord, WellTyped
  <2>4. UNCHANGED <<SnapshotEvents, BothKept>>
    BY <2>1, <2>3 DEF SnapshotEvents, BothKept
  <2>5. Tells(receipts) => Tells(receipts')
    BY <1>4, TrailTyped, DegradationKept DEF persistRecord, Degraded, Component
  <2>6. store'.receipts = store.receipts \/ store'.receipts = receipts'
    BY <1>4 DEF persistRecord, WellTyped, StoreState
  <2>. QED
    BY <2>1, <2>2, <2>3, <2>4, <2>5, <2>6 DEF TrailInv
<1>5. ASSUME Answer
      PROVE  TrailInv'
  <2>1. UNCHANGED <<SnapshotEvents, BothKept, AuditPending>>
    BY <1>5 DEF Answer, SnapshotEvents, BothKept, AuditPending
  <2>. QED
    BY <1>5, <2>1 DEF Answer, TrailInv
<1>6. ASSUME Crash
      PROVE  TrailInv'
  <2>1. disk'.audit = disk.audit /\ disk'.state = disk.state /\ ~up' /\ recorder' = <<>> /\ config' = config
    BY <1>6 DEF Crash, WellTyped
  <2>2. UNCHANGED <<SnapshotEvents, BothKept>>
    BY <2>1 DEF SnapshotEvents, BothKept
  <2>3. Linked(<<>>)
    BY EmptySeq DEF Linked
  <2>. QED
    BY <2>1, <2>2, <2>3 DEF TrailInv
<1>7. ASSUME Starting
      PROVE  TrailInv'
  <2>. DEFINE seed == initialRuntimeSeed
  <2>1. /\ disk'.audit = disk.audit /\ disk'.state = disk.state /\ config' = config
        /\ store'.events = seed.events /\ recorder' = initialAuditEvents(seed)
    BY <1>7, SeedTyped DEF Starting, Start, StartDegraded, WellTyped, StoreState
  <2>2. UNCHANGED <<SnapshotEvents, BothKept>>
    BY <2>1 DEF SnapshotEvents, BothKept
  <2>3. store'.receipts = receipts'
    BY <1>7, SeedTyped DEF Starting, Start, StartDegraded, StoreState
  <2>4. Tells(seed.receipts) => Tells(receipts')
    BY <1>7, SeedTyped, DegradationKept DEF Starting, Start, StartDegraded, StoreState, Component
  <2>5. /\ "state" \in config => Prefix(SnapshotEvents, seed.events) /\ recorder' = seed.events
        /\ Linked(recorder')
        /\ BothKept => Prefix(disk.audit, seed.events) /\ (disk.audit = seed.events \/ Tells(seed.receipts))
    BY <2>1, StartEvents
  <2>. HIDE DEF seed
  <2>. QED
    BY <2>1, <2>2, <2>3, <2>4, <2>5 DEF TrailInv
<1>8. ASSUME CrashWhileSeeding
      PROVE  TrailInv'
  <2>1. /\ disk'.audit = disk.audit /\ disk'.state = disk.state /\ ~up'
        /\ UNCHANGED <<config, recorder>>
    BY <1>8 DEF CrashWhileSeeding, Startable, WellTyped
  <2>2. UNCHANGED <<SnapshotEvents, BothKept>>
    BY <2>1 DEF SnapshotEvents, BothKept
  <2>. QED
    BY <2>1, <2>2 DEF TrailInv
<1>9. ASSUME UNCHANGED vars
      PROVE  TrailInv'
  <2>1. UNCHANGED <<SnapshotEvents, BothKept, AuditPending>>
    BY <1>9 DEF vars, SnapshotEvents, BothKept, AuditPending
  <2>. QED
    BY <1>9, <2>1 DEF vars, TrailInv
<1>. QED
  BY <1>1, <1>2, <1>3, <1>4, <1>5, <1>6, <1>7, <1>8, <1>9, <1>10 DEF Next, Beginning, Starting

TrailInvariant == WellTyped /\ HandlerInv /\ TrailInv

LEMMA TrailInvariance == Spec => []TrailInvariant
<1>1. Init => TrailInvariant
  BY TypeInit, HandlerInit, TrailInit DEF TrailInvariant
<1>2. TrailInvariant /\ [Next]_vars => TrailInvariant'
  BY TypeStep, HandlerStep, TrailStep DEF TrailInvariant
<1>. QED
  BY <1>1, <1>2, PTL DEF Spec

\* The audit file and the events in memory stay one history, or their difference is told:
\* with a snapshot and an audit file the file is a prefix of the store's events and a
\* lag between handlers has its receipt (or the list is full), and the recorder's events
\* verify, whatever writes fail and wherever the process ends.
THEOREM AuditTrailHolds == Spec => []AuditTrailIsSound
<1>1. ASSUME TrailInvariant
      PROVE  AuditTrailIsSound
  <2>1. AuditFileNeverForks
    <3>1. up /\ {"state", "audit"} \subseteq config => Prefix(disk.audit, store.events)
      BY <1>1 DEF TrailInvariant, TrailInv, BothKept
    <3>. QED
      BY <1>1, <3>1, TrailTyped, StartsWithMeaning DEF AuditFileNeverForks, TrailInvariant
  <2>2. DivergenceIsReported
    BY <1>1 DEF DivergenceIsReported, TrailInvariant, HandlerInv, TrailInv, BothKept, AuditPending, Tells
  <2>3. RuntimeChainVerifies
    BY <1>1, TrailTyped, VerifyMeaning DEF RuntimeChainVerifies, TrailInvariant, TrailInv
  <2>. QED
    BY <2>1, <2>2, <2>3 DEF AuditTrailIsSound
<1>. QED
  BY <1>1, TrailInvariance, PTL

\* The audit file implements the append-only ledger: it only ever grows at its end, by an
\* event that is new and names the one before it (appendAuditEvent).
THEOREM AuditFileIsALedger == Spec => ImplementsAuditLedger
<1>1. Init => Ledger!Init
  BY DEF Init, Ledger!Init
<1>2. ASSUME TrailInvariant, [Next]_vars
      PROVE  [Ledger!Next]_(disk.audit)
  <2>1. CASE appendAuditEvent
    <3>. DEFINE e == store.events[Len(store.events)]
    <3>1. \/ disk'.audit = disk.audit
          \/ /\ disk'.audit = Append(disk.audit, e) /\ e \in Event
             /\ \A k \in 1..Len(disk.audit) : disk.audit[k].id # e.id
             /\ e.prev = TailHash(disk.audit)
      BY <1>2, <2>1, AppendEffect DEF TrailInvariant
    <3>2. TailHash(disk.audit) = Ledger!TailHash(disk.audit)
      BY DEF TailHash, Ledger!TailHash, auditEventHash
    <3>. HIDE DEF e
    <3>. QED
      BY <3>1, <3>2 DEF Ledger!Next, Ledger!Append1
  <2>2. CASE \/ UNCHANGED vars \/ CrashWhileSeeding \/ Starting \/ Crash \/ Answer \/ persistStoreSnapshot
             \/ \E r \in {"graph", "job"} : persistRecord(r)
             \/ Beginning
             \/ \E ids \in SUBSET (GraphId \ NativeGrant) : StartSync(ids)
    <3>1. disk.audit \in Seq(Event) /\ disk \in [audit : Seq(Event), torn : BOOLEAN,
                                                 state : StoreState \cup {None}, rec : Versioned]
      BY <1>2 DEF TrailInvariant, WellTyped
    <3>2. Beginning => disk' = disk
      BY <1>2, BeginningEffect DEF TrailInvariant
    <3>. QED
      BY <2>2, <3>1, <3>2 DEF vars, CrashWhileSeeding, Starting, Start, StartDegraded, Crash, Answer,
                              persistStoreSnapshot, persistRecord, StartSync
  <2>. QED
    BY <1>2, <2>1, <2>2 DEF Next, Beginning, Starting
<1>. QED
  BY <1>1, <1>2, TrailInvariance, PTL DEF Spec, ImplementsAuditLedger, Ledger!Spec

-----------------------------------------------------------------------------
(* Acknowledged events *)

LEMMA HoldsFacts ==
  ASSUME NEW p \in Seq(Event), NEW s \in Seq(Event), NEW v
  PROVE  /\ Prefix(p, s) /\ Holds(p, v) => Holds(s, v)
         /\ \A e \in Event : /\ Holds(s, v) => Holds(Append(s, e), v)
                             /\ Holds(Append(s, e), e.id)
         /\ Len(s) > 0 => Holds(s, s[Len(s)].id)
<1>1. Len(p) \in Nat /\ Len(s) \in Nat
  BY LenProperties
<1>2. Prefix(p, s) /\ Holds(p, v) => Holds(s, v)
  BY <1>1 DEF Prefix, Holds
<1>3. ASSUME NEW e \in Event
      PROVE  /\ Holds(s, v) => Holds(Append(s, e), v)
             /\ Holds(Append(s, e), e.id)
  <2>1. /\ Len(Append(s, e)) = Len(s) + 1
        /\ \A k \in 1..Len(s) : Append(s, e)[k] = s[k] /\ k \in 1..Len(Append(s, e))
        /\ Append(s, e)[Len(s) + 1] = e /\ Len(s) + 1 \in 1..Len(Append(s, e))
    BY <1>1, AppendProperties
  <2>. QED
    BY <2>1 DEF Holds
<1>4. Len(s) > 0 => Holds(s, s[Len(s)].id)
  BY <1>1 DEF Holds
<1>. QED
  BY <1>2, <1>3, <1>4

LEMMA AckInit == Init => AckInv
BY EmptySeq DEF Init, AckInv

LEMMA AckStep ==
  WellTyped /\ WellTyped' /\ HandlerInv /\ HandlerInv' /\ TrailInv /\ TrailInv' /\ AckInv /\ [Next]_vars => AckInv'
<1>. SUFFICES ASSUME WellTyped, WellTyped', HandlerInv, HandlerInv', TrailInv, TrailInv', AckInv, [Next]_vars
              PROVE  AckInv'
  OBVIOUS
<1>1. ASSUME Beginning
      PROVE  AckInv'
  <2>1. /\ recorder' = Append(recorder, Recorded(recorder)) /\ up /\ up'
        /\ Planned(todo', cur'.rec) /\ UNCHANGED <<disk, config, acked>>
    BY <1>1, BeginningEffect
  <2>2. Recorded(recorder) \in Event
    BY <1>1, BeginningEffect
  <2>3. AuditPending' /\ Pending("state")'
    BY <2>1, EmptySeq DEF AuditPending, Pending, Planned
  <2>4. SnapshotEvents' = SnapshotEvents
    BY <2>1 DEF SnapshotEvents
  <2>5. \A j \in 1..Len(recorder) : recorder'[j] = recorder[j] /\ j \in 1..Len(recorder')
    BY <2>1, <2>2, AppendProperties, LenProperties DEF WellTyped
  <2>6. (\A k \in 1..Len(disk.audit) : \E j \in 1..Len(recorder) : recorder[j] = disk.audit[k])
          => (\A k \in 1..Len(disk.audit) : \E j \in 1..Len(recorder') : recorder'[j] = disk.audit[k])
    BY <2>5
  <2>. QED
    BY <2>1, <2>3, <2>4, <2>6 DEF AckInv
<1>2. ASSUME appendAuditEvent
      PROVE  AckInv'
  <2>. DEFINE e == store.events[Len(store.events)]
  <2>1. /\ up /\ up' /\ cur # None /\ cur' # None /\ cur'.version = cur.version /\ todo # <<>> /\ todo' = Tail(todo)
        /\ (cur.degraded => cur'.degraded) /\ UNCHANGED <<config, recorder, acked>>
    BY <1>2, WriteKeeps DEF Write
  <2>2. disk'.state = disk.state /\ e \in Event
    BY <1>2, AppendEffect
  <2>3. SnapshotEvents' = SnapshotEvents
    BY <2>2 DEF SnapshotEvents
  <2>4. ~Pending("state")' => ~Pending("state")
    BY <1>2, <2>1, TailOfTodo, TodoTyped DEF appendAuditEvent, Ready, WriteItem
  <2>5. e.id = cur.version /\ Len(recorder) \in 1..Len(recorder) /\ recorder[Len(recorder)] = e
    BY <2>1, LenProperties DEF HandlerInv, WellTyped
  <2>6. CASE disk'.audit = Append(disk.audit, e)
    <3>. HIDE DEF e
    <3>1. /\ \A v \in acked.events : Holds(disk.audit, v) => Holds(disk'.audit, v)
          /\ Holds(disk'.audit, cur.version)
      <4>1. disk.audit \in Seq(Event)
        BY TrailTyped
      <4>2. ASSUME NEW v
            PROVE  /\ Holds(disk.audit, v) => Holds(Append(disk.audit, e), v)
                   /\ Holds(Append(disk.audit, e), e.id)
        BY <2>2, <4>1, HoldsFacts
      <4>. QED
        BY <2>5, <2>6, <4>2
    <3>2. /\ Len(disk'.audit) = Len(disk.audit) + 1 /\ Len(disk.audit) \in Nat
          /\ \A k \in 1..Len(disk.audit) : disk'.audit[k] = disk.audit[k]
          /\ disk'.audit[Len(disk.audit) + 1] = e
      BY <2>2, <2>6, TrailTyped, AppendProperties
    <3>3. ASSUME \A k \in 1..Len(disk.audit) : \E j \in 1..Len(recorder) : recorder[j] = disk.audit[k],
                 NEW k \in 1..Len(disk'.audit)
          PROVE  \E j \in 1..Len(recorder) : recorder[j] = disk'.audit[k]
      <4>1. CASE k \in 1..Len(disk.audit)
        BY <3>2, <3>3, <4>1
      <4>2. CASE k = Len(disk.audit) + 1
        BY <2>5, <3>2, <4>2
      <4>. QED
        BY <3>2, <3>3, <4>1, <4>2
    <3>. QED
      BY <2>1, <2>3, <2>4, <3>1, <3>3 DEF AckInv
  <2>7. CASE disk'.audit = disk.audit /\ ("audit" \in config => cur'.degraded)
    BY <2>1, <2>3, <2>4, <2>7 DEF AckInv
  <2>. QED
    BY <1>2, <2>6, <2>7, AppendEffect
<1>3. ASSUME persistStoreSnapshot
      PROVE  AckInv'
  <2>1. /\ up /\ up' /\ cur # None /\ cur' # None /\ cur'.version = cur.version /\ todo # <<>> /\ todo' = Tail(todo)
        /\ (cur.degraded => cur'.degraded) /\ UNCHANGED <<config, recorder, acked>>
    BY <1>3, WriteKeeps DEF Write
  <2>2. ~AuditPending
    BY <1>3, <2>1, TodoTyped DEF AuditPending, persistStoreSnapshot, Ready
  <2>3. disk'.audit = disk.audit
    BY <1>3 DEF persistStoreSnapshot, WellTyped
  <2>4. CASE "state" \in config /\ disk' = [disk EXCEPT !.state = store]
    <3>1. SnapshotEvents' = store.events
      BY <2>4, NoneIsNoStore DEF SnapshotEvents, WellTyped
    <3>2. \A v : Holds(SnapshotEvents, v) => Holds(store.events, v)
      BY <2>1, <2>4, TrailTyped, HoldsFacts DEF TrailInv
    <3>3. Holds(store.events, cur.version)
      BY <2>1, TrailTyped, HoldsFacts DEF HandlerInv
    <3>. QED
      BY <2>1, <2>4, <3>1, <3>2, <3>3 DEF AckInv
  <2>5. CASE disk' = disk /\ ("state" \in config => cur'.degraded)
    <3>1. SnapshotEvents' = SnapshotEvents
      BY <2>5 DEF SnapshotEvents
    <3>. QED
      BY <2>1, <2>2, <2>5, <3>1 DEF AckInv
  <2>6. "state" \in config /\ disk' = disk /\ cur' = [cur EXCEPT !.degraded = TRUE] => cur'.degraded
    BY <2>1 DEF WellTyped, Current
  <2>. QED
    BY <1>3, <2>4, <2>5, <2>6 DEF persistStoreSnapshot
<1>4. ASSUME NEW r \in {"graph", "job"}, persistRecord(r)
      PROVE  AckInv'
  <2>1. /\ up /\ up' /\ cur # None /\ cur' # None /\ cur'.version = cur.version /\ todo # <<>> /\ todo' = Tail(todo)
        /\ (cur.degraded => cur'.degraded) /\ UNCHANGED <<config, recorder, acked>>
    BY <1>4, WriteKeeps DEF Write
  <2>2. ~AuditPending
    BY <1>4, <2>1, TodoTyped, ItemsDiffer DEF AuditPending, persistRecord, Part, Id
  <2>3. disk'.audit = disk.audit /\ disk'.state = disk.state
    BY <1>4 DEF persistRecord, WellTyped
  <2>4. SnapshotEvents' = SnapshotEvents
    BY <2>3 DEF SnapshotEvents
  <2>5. ~Pending("state")' => ~Pending("state")
    BY <1>4, <2>1, TailOfTodo, TodoTyped, ItemsDiffer DEF persistRecord, Part, Id, WriteItem
  <2>. QED
    BY <2>1, <2>2, <2>3, <2>4, <2>5 DEF AckInv
<1>5. ASSUME Answer
      PROVE  AckInv'
  <2>1. /\ up /\ cur # None /\ todo = <<>> /\ cur' = None /\ UNCHANGED <<config, up, recorder, disk>>
        /\ acked'.events \subseteq acked.events \cup (IF cur.degraded THEN {} ELSE {cur.version})
    BY <1>5 DEF Answer, WellTyped
  <2>2. ~AuditPending /\ ~Pending("state") /\ SnapshotEvents' = SnapshotEvents
    BY <2>1, EmptySeq DEF AuditPending, Pending, SnapshotEvents
  <2>. QED
    BY <2>1, <2>2 DEF AckInv
<1>6. ASSUME Crash
      PROVE  AckInv'
  <2>1. /\ disk'.audit = disk.audit /\ disk'.state = disk.state /\ ~up' /\ cur' = None
        /\ UNCHANGED <<config, acked>>
    BY <1>6 DEF Crash, WellTyped
  <2>2. SnapshotEvents' = SnapshotEvents
    BY <2>1 DEF SnapshotEvents
  <2>. QED
    BY <2>1, <2>2 DEF AckInv
<1>7. ASSUME Starting
      PROVE  AckInv'
  <2>1. /\ disk'.audit = disk.audit /\ disk'.state = disk.state /\ cur' = None
        /\ UNCHANGED <<config, acked>> /\ recorder' = initialAuditEvents(initialRuntimeSeed)
    BY <1>7 DEF Starting, Start, StartDegraded, Startable, HandlerInv, WellTyped
  <2>2. SnapshotEvents' = SnapshotEvents
    BY <2>1 DEF SnapshotEvents
  <2>3. "state" \notin config /\ "audit" \in config => recorder' = disk.audit
    BY <2>1, StartEvents
  <2>. QED
    BY <2>1, <2>2, <2>3 DEF AckInv
<1>8. ASSUME CrashWhileSeeding
      PROVE  AckInv'
  <2>1. /\ disk'.audit = disk.audit /\ disk'.state = disk.state /\ ~up' /\ cur' = None
        /\ UNCHANGED <<config, acked>>
    BY <1>8 DEF CrashWhileSeeding, Startable, HandlerInv, WellTyped
  <2>2. SnapshotEvents' = SnapshotEvents
    BY <2>1 DEF SnapshotEvents
  <2>. QED
    BY <2>1, <2>2 DEF AckInv
<1>9. ASSUME UNCHANGED vars
      PROVE  AckInv'
  BY <1>9 DEF vars, AckInv, SnapshotEvents, AuditPending, Pending
<1>10. ASSUME NEW ids, StartSync(ids)
       PROVE  AckInv'
  <2>1. UNCHANGED <<config, up, todo, cur, recorder, disk, acked>>
    BY <1>10 DEF StartSync
  <2>. QED
    BY <2>1 DEF AckInv, SnapshotEvents, AuditPending, Pending
<1>. QED
  BY <1>1, <1>2, <1>3, <1>4, <1>5, <1>6, <1>7, <1>8, <1>9, <1>10 DEF Next, Beginning, Starting

LEMMA AckInvariance == Spec => []AckInv
<1>1. Init => AckInv
  BY AckInit
<1>2. TrailInvariant /\ TrailInvariant' /\ AckInv /\ [Next]_vars => AckInv'
  BY AckStep DEF TrailInvariant
<1>. QED
  BY <1>1, <1>2, TrailInvariance, PTL DEF Spec

\* An event whose handler was answered without a receipt is known after every restart, for
\* every app with a snapshot or an audit file: the recorder always holds it.
THEOREM AcknowledgedEventsKept == Spec => []AcknowledgedEventSurvives
<1>1. ASSUME TrailInvariant, AckInv
      PROVE  AcknowledgedEventSurvives
  <2>1. ASSUME up, "state" \in config, NEW v \in acked.events
        PROVE  Holds(recorder, v)
    BY <1>1, <2>1, TrailTyped, HoldsFacts DEF TrailInvariant, TrailInv, AckInv
  <2>2. ASSUME up, "state" \notin config, "audit" \in config, NEW v \in acked.events
        PROVE  Holds(recorder, v)
    <3>1. PICK k \in 1..Len(disk.audit) : disk.audit[k].id = v
      BY <1>1, <2>2 DEF AckInv, Holds
    <3>2. \E j \in 1..Len(recorder) : recorder[j] = disk.audit[k]
      BY <1>1, <2>2 DEF AckInv
    <3>. QED
      BY <3>1, <3>2 DEF Holds
  <2>. QED
    BY <2>1, <2>2 DEF AcknowledgedEventSurvives, Holds
<1>. QED
  BY <1>1, TrailInvariance, AckInvariance, PTL

-----------------------------------------------------------------------------
(* Acknowledged records *)

LEMMA PartFacts ==
  /\ Part("graph") = GraphId /\ Part("job") = JobId
  /\ \A r \in {"graph", "job"} : Part(r) \subseteq Id
  /\ \A i \in Id : i \in Part("graph") \/ i \in Part("job")
  /\ \A i \in Part("graph") : i \notin Part("job")
BY IdAssumption DEF Part, Id

LEMMA RecordTyped ==
  ASSUME WellTyped
  PROVE  /\ \A i \in Id : /\ disk.rec[i] \in Nat /\ acked.rec[i] \in Nat /\ repo[i] \in Nat
                          /\ store.rec[i] \in Nat /\ SnapshotRecords[i] \in Nat
                          /\ undone[i] \in Nat /\ FallbackSeed[i] \in {0, 1}
         /\ clock \in Nat /\ clock >= 1
<1>1. SnapshotRecords \in Versioned
  BY EmptyTyped DEF SnapshotRecords, WellTyped, StoreState
<1>2. \A i \in Id : FallbackSeed[i] \in {0, 1}
  BY DEF FallbackSeed
<1>. QED
  BY <1>1, <1>2, BoundAssumption DEF WellTyped, StoreState, Versioned

\* What is not older than what was acknowledged stays so while nothing is answered.
LEMMA NotOlderStays ==
  ASSUME WellTyped, AckedInRange, acked' = acked,
         \A i \in Id : undone'[i] = undone[i] \/ undone'[i] = clock + 1
  PROVE  /\ \A i \in Id : \A v \in Nat : NotOlder(i, v) => acked'.rec[i] <= v \/ acked'.rec[i] < undone'[i]
         /\ \A i \in Id : acked'.rec[i] <= clock + 1
         /\ \A i \in Id : undone'[i] = clock + 1 => acked'.rec[i] < undone'[i]
BY RecordTyped DEF NotOlder, AckedInRange

\* What a start makes of the snapshot and the files.
LEMMA StartRecords ==
  ASSUME WellTyped, RecordInv, ~up, NEW r \in {"graph", "job"}, NEW i \in Part(r)
  PROVE  LET seed == initialRuntimeSeed
         IN  /\ "state" \in config \/ (Filed(r) /\ r \notin halfSeeded) => NotOlder(i, seed.rec[i])
             /\ Filed(r) => Opened[i] = disk.rec[i]
             /\ i \in ToSeed(r, seed) => /\ seed.rec[i] # 0
                                         /\ Filed(r) => NotOlder(i, seed.rec[i])
             /\ Filed(r) /\ "state" \notin config /\ r \notin halfSeeded /\ acked.rec[i] # 0 /\ disk.rec[i] = 0
                  => i \in ToSeed(r, seed)
<1>. DEFINE seed == initialRuntimeSeed
            base == BaseSeed
<1>1. i \in Id /\ (i \in GraphId <=> r = "graph") /\ (i \in JobId <=> r = "job")
  BY PartFacts
<1>2. /\ shouldUsePersisted(r, base) => seed.rec[i] = Opened[i]
      /\ ~shouldUsePersisted(r, base) => seed.rec[i] = base.rec[i]
  BY <1>1 DEF initialRuntimeSeed
<1>3. \A j \in Part(r) : Filed(r) => Opened[j] = disk.rec[j]
  <2>1. ASSUME NEW j \in Part(r), Filed(r)
        PROVE  Opened[j] = disk.rec[j]
    <3>1. j \in Id /\ (j \in GraphId <=> r = "graph") /\ (j \in JobId <=> r = "job")
      BY PartFacts
    <3>. QED
      BY <2>1, <3>1 DEF Opened, Filed
  <2>. QED
    BY <2>1
<1>4. ASSUME HasRecords(r, Opened)
      PROVE  ~InMemory
  BY <1>4, PartFacts DEF HasRecords, Opened
<1>5. /\ "state" \in config => base.rec = SnapshotRecords
      /\ "state" \notin config => base.rec = FallbackSeed
  BY DEF BaseSeed, SnapshotRecords
<1>6. shouldUsePersisted(r, base) => Filed(r)
  BY <1>4 DEF shouldUsePersisted, Filed
<1>7. ~HasRecords(r, Opened) => seed.rec[i] = base.rec[i]
  BY <1>2 DEF shouldUsePersisted
<1>8. shouldUsePersisted(r, base) /\ base.rec[i] # 0 => Opened[i] # 0
  BY DEF shouldUsePersisted
<1>9. Filed(r) /\ ~shouldUsePersisted(r, base) /\ HasRecords(r, Opened) => \E j \in Part(r) : base.rec[j] # 0 /\ Opened[j] = 0
  BY DEF shouldUsePersisted, Filed
<1>10. Filed(r) /\ ~HasRecords(r, Opened) => \A j \in Part(r) : disk.rec[j] = 0
  BY <1>3 DEF HasRecords
<1>11. i \in ToSeed(r, seed) <=> r \in config /\ ~HasRecords(r, Opened) /\ seed.rec[i] # 0
  BY DEF ToSeed
<1>. HIDE DEF seed, base
<1>12. "state" \in config => NotOlder(i, seed.rec[i])
  <2>1. "state" \in config => NotOlder(i, base.rec[i])
    BY <1>1, <1>5 DEF RecordInv, SnapshotCovers
  <2>2. CASE shouldUsePersisted(r, base)
    <3>1. Filed(r) /\ seed.rec[i] = disk.rec[i] /\ (disk.rec[i] = 0 \/ NotOlder(i, disk.rec[i]))
      <4>1. Filed(r) /\ FileCovers(r)
        BY <1>6, <2>2 DEF RecordInv
      <4>2. seed.rec[i] = disk.rec[i]
        BY <1>2, <1>3, <2>2, <4>1
      <4>. QED
        BY <4>1, <4>2 DEF FileCovers
    <3>2. "state" \in config /\ disk.rec[i] = 0 => base.rec[i] = 0
      BY <1>3, <1>8, <2>2, <3>1
    <3>. QED
      BY <1>1, <2>1, <3>1, <3>2, RecordTyped
  <2>. QED
    BY <1>2, <2>1, <2>2
<1>13. ASSUME Filed(r), "state" \notin config, r \notin halfSeeded
       PROVE  /\ NotOlder(i, seed.rec[i])
              /\ acked.rec[i] # 0 /\ disk.rec[i] = 0 => i \in ToSeed(r, initialRuntimeSeed)
  <2>1. CASE \A j \in Part(r) : disk.rec[j] = 0
    <3>1. ~HasRecords(r, Opened)
      BY <1>3, <1>13, <2>1 DEF HasRecords
    <3>2. seed.rec[i] = FallbackSeed[i] /\ acked.rec[i] = FallbackSeed[i]
      BY <1>5, <1>7, <1>13, <2>1, <3>1 DEF RecordInv, FileCovers
    <3>. QED
      BY <1>1, <1>11, <1>13, <3>1, <3>2, RecordTyped DEF Filed, seed, NotOlder
  <2>2. CASE \A j \in Part(r) : acked.rec[j] # 0 => disk.rec[j] # 0
    <3>1. \A j \in Part(r) : FallbackSeed[j] # 0 => disk.rec[j] # 0
      <4>1. \A j \in Part(r) : j \in Id /\ FallbackSeed[j] <= acked.rec[j]
        BY PartFacts DEF RecordInv, AckedInRange
      <4>. QED
        BY <2>2, <4>1, RecordTyped
    <3>2. ~(Filed(r) /\ ~shouldUsePersisted(r, base) /\ HasRecords(r, Opened))
      BY <1>3, <1>5, <1>9, <1>13, <3>1
    <3>3. CASE shouldUsePersisted(r, base)
      <4>1. Filed(r) /\ FileCovers(r)
        BY <1>13 DEF RecordInv
      <4>2. seed.rec[i] = disk.rec[i]
        BY <1>2, <1>3, <3>3, <4>1
      <4>. QED
        BY <1>1, <2>2, <4>1, <4>2, RecordTyped DEF FileCovers, NotOlder
    <3>4. CASE ~HasRecords(r, Opened)
      BY <1>10, <1>13, <2>1, <3>4
    <3>. QED
      BY <1>13, <3>2, <3>3, <3>4
  <2>. QED
    BY <1>13, <2>1, <2>2 DEF RecordInv, FileIsWhole
<1>14. ASSUME i \in ToSeed(r, seed), Filed(r)
       PROVE  NotOlder(i, seed.rec[i])
  <2>1. CASE "state" \in config
    BY <1>12, <2>1
  <2>2. CASE "state" \notin config
    <3>1. seed.rec[i] = FallbackSeed[i] /\ disk.rec[i] = 0
      BY <1>5, <1>7, <1>10, <1>11, <1>14, <2>2
    <3>. QED
      BY <1>1, <1>14, <3>1, RecordTyped DEF RecordInv, FileCovers, NotOlder
  <2>. QED
    BY <2>1, <2>2
<1>. QED
  BY <1>3, <1>11, <1>12, <1>13, <1>14 DEF seed

LEMMA RecordInit == Init => RecordInv
<1>. SUFFICES ASSUME Init
              PROVE  RecordInv
  OBVIOUS
<1>1. WellTyped
  BY TypeInit
<1>2. /\ ~up /\ cur = None /\ clock = 1 /\ acked.rec = FallbackSeed /\ acked.gone = Absent /\ disk.rec = Absent /\ disk.state = None
      /\ syncs = {}
  BY DEF Init
<1>3. \A i \in Id : Absent[i] = 0
  BY DEF Absent
<1>4. SnapshotRecords = FallbackSeed
  BY <1>2 DEF SnapshotRecords
<1>5. AckedInRange /\ SnapshotCovers /\ CopiesCover
  BY <1>1, <1>2, <1>3, <1>4, RecordTyped DEF AckedInRange, SnapshotCovers, CopiesCover, NotOlder
<1>6. ASSUME NEW r \in {"graph", "job"}
      PROVE  FileCovers(r) /\ FileIsWhole(r) /\ MemoryCovers(r)
  BY <1>2, <1>3, PartFacts DEF FileCovers, FileIsWhole, MemoryCovers
<1>. QED
  BY <1>5, <1>6 DEF RecordInv

\* What a write does to the files, seen from the repository of r2.
LEMMA PersistRecordEffect ==
  ASSUME WellTyped, HandlerInv, NEW r \in {"graph", "job"}, persistRecord(r), NEW r2 \in {"graph", "job"},
         r2 \in config
  PROVE  \/ /\ \A i \in Part(r2) : repo'[i] = repo[i] /\ disk'.rec[i] = disk.rec[i]
            /\ r2 # r \/ cur'.degraded
         \/ /\ r2 = r /\ todo[1] \in Part(r)
            /\ \A i \in Part(r) : repo'[i] = IF i = todo[1] THEN cur.rec[i] ELSE repo[i]
            /\ \/ \A i \in Part(r) : disk'.rec[i] = repo'[i]
               \/ cur'.degraded /\ \A i \in Part(r) : disk'.rec[i] = disk.rec[i]
<1>. DEFINE item == todo[1]
<1>1. /\ todo # <<>> /\ cur \in Current /\ cur # None
  BY WriteKeeps DEF Write
<1>2. item \in Part(r) /\ item \in Id /\ Head(todo) = item
  BY <1>1, TodoTyped, PartFacts DEF persistRecord
<1>3. [cur EXCEPT !.degraded = TRUE].degraded
  BY <1>1 DEF Current
<1>. HIDE DEF item
<1>4. CASE r \notin config /\ repo' = repo /\ disk' = disk
  BY <1>4
<1>5. CASE repo' = repo /\ disk' = disk /\ cur' = [cur EXCEPT !.degraded = TRUE]
  BY <1>3, <1>5
<1>6. ASSUME ~appendUniqueRefuses(item)
      PROVE  \A i \in Id : /\ GraphRecords(item)[i] = IF i = item THEN cur.rec[i] ELSE repo[i]
                           /\ JobRecords(item)[i] = IF i = item THEN cur.rec[i] ELSE repo[i]
  BY <1>2, <1>6 DEF GraphRecords, JobRecords, upsertById, WellTyped, Versioned
<1>7. CASE r \in config /\ ~appendUniqueRefuses(item)
  <2>. DEFINE changed == IF r = "graph" THEN GraphRecords(item) ELSE JobRecords(item)
  <2>1. \A i \in Id : changed[i] = IF i = item THEN cur.rec[i] ELSE repo[i]
    BY <1>6, <1>7
  <2>2. repo' = changed
    BY <1>2, <1>7 DEF persistRecord
  <2>3. \/ disk' = [disk EXCEPT !.rec = Persisted(r, changed)]
        \/ disk' = disk /\ cur' = [cur EXCEPT !.degraded = TRUE]
    BY <1>2, <1>7 DEF persistRecord
  <2>. HIDE DEF changed
  <2>4. CASE disk' = [disk EXCEPT !.rec = Persisted(r, changed)]
    <3>1. \A i \in Id : disk'.rec[i] = IF i \in Part(r) THEN changed[i] ELSE disk.rec[i]
      BY <2>4 DEF Persisted, WellTyped
    <3>2. CASE r2 = r
      BY <1>2, <2>1, <2>2, <3>1, <3>2, PartFacts DEF item
    <3>3. CASE r2 # r
      <4>1. \A i \in Part(r2) : i \in Id /\ i \notin Part(r) /\ i # item
        BY <1>2, <3>3, PartFacts
      <4>. QED
        BY <2>1, <2>2, <3>1, <3>3, <4>1
    <3>. QED
      BY <3>2, <3>3
  <2>5. CASE disk' = disk /\ cur' = [cur EXCEPT !.degraded = TRUE]
    <3>2. CASE r2 = r
      BY <1>2, <1>3, <2>1, <2>2, <2>5, <3>2, PartFacts DEF item
    <3>3. CASE r2 # r
      <4>1. \A i \in Part(r2) : i \in Id /\ i \notin Part(r) /\ i # item
        BY <1>2, <3>3, PartFacts
      <4>. QED
        BY <2>1, <2>2, <2>5, <3>3, <4>1
    <3>. QED
      BY <3>2, <3>3
  <2>. QED
    BY <2>3, <2>4, <2>5
<1>. QED
  BY <1>2, <1>4, <1>5, <1>7 DEF persistRecord

\* What a seeding does to a file: some of the records that were to be written are.
LEMMA SeedingEffect ==
  ASSUME NEW seed, NEW written \in SUBSET (ToSeed("graph", seed) \cup ToSeed("job", seed)),
         NEW records, NEW r \in {"graph", "job"}, NEW i \in Part(r)
  PROVE  /\ i \in written => i \in ToSeed(r, seed) /\ Seeded(records, written, seed)[i] = seed.rec[i]
         /\ i \notin written => Seeded(records, written, seed)[i] = records[i]
<1>1. i \in written => i \in ToSeed(r, seed)
  BY PartFacts DEF ToSeed
<1>2. i \in Id
  BY PartFacts
<1>. QED
  BY <1>1, <1>2 DEF Seeded

\* The part of a repository that a seeding writes to.
LEMMA SeedingKeeps ==
  ASSUME WellTyped, RecordInv, ~up, cur' = None, UNCHANGED <<config, acked>>,
         NEW r \in {"graph", "job"},
         NEW written \in SUBSET (ToSeed("graph", initialRuntimeSeed) \cup ToSeed("job", initialRuntimeSeed)),
         disk'.rec = Seeded(disk.rec, written, initialRuntimeSeed)
  PROVE  /\ Filed(r) => \A i \in Part(r) :
              /\ disk'.rec[i] = 0 \/ NotOlder(i, disk'.rec[i])
              /\ disk'.rec[i] = 0 => acked.rec[i] = FallbackSeed[i]
         /\ Filed(r) /\ "state" \notin config /\ r \notin halfSeeded /\ ToSeed(r, initialRuntimeSeed) \subseteq written =>
              \A i \in Part(r) : acked.rec[i] # 0 => disk'.rec[i] # 0
<1>. DEFINE seed == initialRuntimeSeed
<1>0. \A i \in Part(r) :
        /\ i \in written => i \in ToSeed(r, seed) /\ disk'.rec[i] = seed.rec[i]
        /\ i \notin written => disk'.rec[i] = disk.rec[i]
  <2>1. written \in SUBSET (ToSeed("graph", seed) \cup ToSeed("job", seed))
    OBVIOUS
  <2>2. disk'.rec = Seeded(disk.rec, written, seed)
    OBVIOUS
  <2>. HIDE DEF seed
  <2>3. ASSUME NEW i \in Part(r)
        PROVE  /\ i \in written => /\ i \in ToSeed(r, seed)
                                   /\ Seeded(disk.rec, written, seed)[i] = seed.rec[i]
               /\ i \notin written => Seeded(disk.rec, written, seed)[i] = disk.rec[i]
    BY <2>1, SeedingEffect
  <2>. QED
    BY <2>2, <2>3
<1>1. ASSUME Filed(r), NEW i \in Part(r)
      PROVE  /\ disk'.rec[i] = 0 \/ NotOlder(i, disk'.rec[i])
             /\ disk'.rec[i] = 0 => acked.rec[i] = FallbackSeed[i]
  <2>1. CASE i \in written
    <3>1. i \in ToSeed(r, seed) /\ disk'.rec[i] = seed.rec[i]
      BY <1>0, <2>1
    <3>2. seed.rec[i] # 0 /\ NotOlder(i, seed.rec[i])
      BY <1>1, <3>1, StartRecords
    <3>. QED
      BY <3>1, <3>2
  <2>2. CASE i \notin written
    <3>1. disk'.rec[i] = disk.rec[i]
      BY <1>0, <2>2
    <3>2. FileCovers(r)
      BY DEF RecordInv
    <3>. QED
      BY <1>1, <3>1, <3>2 DEF FileCovers
  <2>. QED
    BY <2>1, <2>2
<1>2. ASSUME Filed(r), "state" \notin config, r \notin halfSeeded, ToSeed(r, seed) \subseteq written,
             NEW i \in Part(r), acked.rec[i] # 0
      PROVE  disk'.rec[i] # 0
  <2>1. CASE i \in written
    <3>1. i \in ToSeed(r, seed) /\ disk'.rec[i] = seed.rec[i]
      BY <1>0, <2>1
    <3>. QED
      BY <3>1, StartRecords
  <2>2. CASE i \notin written
    <3>1. disk'.rec[i] = disk.rec[i]
      BY <1>0, <2>2
    <3>. QED
      BY <1>2, <2>2, <3>1, StartRecords
  <2>. QED
    BY <2>1, <2>2
<1>. QED
  BY <1>1, <1>2

LEMMA RecordStep ==
  WellTyped /\ WellTyped' /\ HandlerInv /\ HandlerInv' /\ RecordInv /\ [Next]_vars => RecordInv'
<1>. SUFFICES ASSUME WellTyped, WellTyped', HandlerInv, HandlerInv', RecordInv, [Next]_vars
              PROVE  RecordInv'
  OBVIOUS
<1>. USE PartFacts
<1>1. ASSUME Beginning
      PROVE  RecordInv'
  <2>1. /\ up /\ up' /\ clock' = clock + 1 /\ cur' # None
        /\ Planned(todo', cur'.rec) /\ Begins(store'.rec, cur'.rec, cur'.withdrawn)
        /\ syncs' \subseteq syncs /\ UNCHANGED <<config, repo, disk, acked, halfSeeded>>
    BY <1>1, BeginningEffect
  <2>2. Pending("state")' /\ \A i \in Id : cur'.rec[i] # 0 => Pending(i)'
    BY <2>1 DEF Pending, Planned
  <2>3. UNCHANGED SnapshotRecords /\ \A r : Filed(r)' = Filed(r)
    BY <2>1 DEF SnapshotRecords, Filed, InMemory
  <2>4. /\ \A i \in Id : \A v \in Nat : NotOlder(i, v) => acked'.rec[i] <= v \/ acked'.rec[i] < undone'[i]
        /\ \A i \in Id : acked'.rec[i] <= clock + 1
        /\ \A i \in Id : undone'[i] = clock + 1 => acked'.rec[i] < undone'[i]
    BY <2>1, NotOlderStays DEF RecordInv, Begins
  <2>5. AckedInRange'
    BY <2>1, RecordTyped DEF RecordInv, AckedInRange, WellTyped, Versioned
  <2>6. SnapshotCovers'
    BY <2>1, <2>2, <2>3, <2>4, RecordTyped DEF RecordInv, SnapshotCovers, NotOlder
  <2>7. \A copy \in syncs : \A i \in Id :
          copy[i] \in Nat /\ copy[i] <= clock /\ (copy[i] # 0 => i \in GraphId \ NativeGrant)
    BY DEF HandlerInv, WellTyped, Versioned
  <2>8. ASSUME NEW copy \in syncs', NEW i \in Id, copy[i] # 0
        PROVE  acked'.rec[i] <= copy[i] \/ acked'.rec[i] < undone'[i] \/ copy[i] < store'.rec[i]
    <3>1. copy \in syncs
      BY <2>1, <2>8
    <3>2. NotOlder(i, copy[i]) \/ copy[i] < store.rec[i]
      BY <2>8, <3>1 DEF RecordInv, CopiesCover
    <3>3. store'.rec[i] = clock + 1 \/ store'.rec[i] = store.rec[i]
      BY <2>1, <2>7, <2>8, <3>1 DEF Begins
    <3>. QED
      BY <2>4, <2>7, <3>1, <3>2, <3>3, RecordTyped
  <2>9. CopiesCover'
    BY <2>8 DEF CopiesCover, NotOlder
  <2>10. ASSUME NEW r \in {"graph", "job"}
         PROVE  (FileCovers(r) /\ FileIsWhole(r) /\ MemoryCovers(r))'
    <3>1. FileCovers(r) /\ FileIsWhole(r) /\ MemoryCovers(r)
      BY DEF RecordInv
    <3>2. ASSUME Filed(r), NEW i \in Part(r), cur'.rec[i] # 0
          PROVE  acked'.rec[i] <= cur'.rec[i] \/ acked'.rec[i] < undone'[i]
      <4>1. CASE cur'.rec[i] = clock + 1
        BY <2>4, <4>1
      <4>2. CASE cur'.rec[i] # clock + 1
        <5>1. PICK copy \in syncs : /\ cur'.rec[i] = copy[i]
                                    /\ KeepsGraph /\ copy[i] < store.rec[i] => undone'[i] = clock + 1
          BY <2>1, <3>2, <4>2 DEF Begins
        <5>2. NotOlder(i, copy[i]) \/ copy[i] < store.rec[i]
          BY <3>2, <5>1 DEF RecordInv, CopiesCover
        <5>3. r = "graph"
          BY <2>7, <3>2, <5>1, IdAssumption
        <5>4. KeepsGraph
          BY <3>2, <5>3 DEF KeepsGraph, Filed, InMemory
        <5>. QED
          BY <2>4, <2>7, <5>1, <5>2, <5>4
      <4>. QED
        BY <4>1, <4>2
    <3>3. FileCovers(r)'
      BY <2>1, <2>2, <2>3, <2>4, <3>1, <3>2, RecordTyped DEF FileCovers, NotOlder
    <3>4. FileIsWhole(r)'
      BY <2>1, <2>3, <3>1 DEF FileIsWhole
    <3>5. MemoryCovers(r)'
      <4>1. \A i \in Id : \/ store'.rec[i] = clock + 1 \/ store'.rec[i] = store.rec[i]
                          \/ undone'[i] = clock + 1
        BY <2>1 DEF Begins
      <4>. QED
        BY <2>1, <2>3, <2>4, <3>1, <4>1, RecordTyped DEF MemoryCovers, NotOlder
    <3>. QED
      BY <3>3, <3>4, <3>5
  <2>. QED
    BY <2>5, <2>6, <2>9, <2>10 DEF RecordInv
<1>8. ASSUME NEW ids \in SUBSET (GraphId \ NativeGrant), StartSync(ids)
      PROVE  RecordInv'
  <2>1. /\ up /\ up' /\ clock' = clock + 1 /\ cur = None /\ cur' = None
        /\ store' = [store EXCEPT !.rec = Updated(@, ids)] /\ syncs' = syncs \cup {Updated(Absent, ids)}
        /\ UNCHANGED <<config, repo, disk, acked, undone, halfSeeded>>
    BY <1>8 DEF StartSync
  <2>2. UNCHANGED SnapshotRecords /\ \A r : Filed(r)' = Filed(r)
    BY <2>1 DEF SnapshotRecords, Filed, InMemory
  <2>3. /\ \A i \in Id : store'.rec[i] = IF i \in ids THEN clock + 1 ELSE store.rec[i]
        /\ \A i \in Id : Updated(Absent, ids)[i] = IF i \in ids THEN clock + 1 ELSE 0
    <3>1. store.rec \in Versioned /\ store'.rec = Updated(store.rec, ids)
      BY <2>1 DEF WellTyped, StoreState
    <3>. QED
      BY <3>1, UpdatedTyped, EmptyTyped DEF Absent
  <2>4. \A i \in Id : acked.rec[i] <= clock /\ acked.gone[i] <= clock /\ acked.gone[i] \in Nat
    BY DEF RecordInv, AckedInRange, WellTyped, Versioned
  <2>5. AckedInRange'
    BY <2>1, <2>4, RecordTyped DEF RecordInv, AckedInRange
  <2>6. SnapshotCovers'
    BY <2>1, <2>2 DEF RecordInv, SnapshotCovers, NotOlder
  <2>7. \A copy \in syncs : \A i \in Id : copy[i] \in Nat /\ copy[i] <= clock
    BY DEF HandlerInv, WellTyped, Versioned
  <2>8. CopiesCover'
    <3>1. ASSUME NEW copy \in syncs', NEW i \in Id, copy[i] # 0
          PROVE  acked.rec[i] <= copy[i] \/ acked.rec[i] < undone[i] \/ copy[i] < store'.rec[i]
      <4>1. CASE copy \in syncs
        <5>1. NotOlder(i, copy[i]) \/ copy[i] < store.rec[i]
          BY <3>1, <4>1 DEF RecordInv, CopiesCover
        <5>. QED
          BY <2>3, <2>7, <4>1, <5>1, RecordTyped DEF NotOlder
      <4>2. CASE copy = Updated(Absent, ids)
        BY <2>3, <2>4, <3>1, <4>2, RecordTyped
      <4>. QED
        BY <2>1, <3>1, <4>1, <4>2
    <3>. QED
      BY <2>1, <3>1 DEF CopiesCover, NotOlder
  <2>9. ASSUME NEW r \in {"graph", "job"}
        PROVE  (FileCovers(r) /\ FileIsWhole(r) /\ MemoryCovers(r))'
    <3>1. FileCovers(r) /\ FileIsWhole(r) /\ MemoryCovers(r)
      BY DEF RecordInv
    <3>2. FileCovers(r)' /\ FileIsWhole(r)'
      BY <2>1, <2>2, <3>1 DEF FileCovers, FileIsWhole, NotOlder
    <3>3. MemoryCovers(r)'
      BY <2>1, <2>2, <2>3, <2>4, <3>1, RecordTyped DEF MemoryCovers, NotOlder
    <3>. QED
      BY <3>2, <3>3
  <2>. QED
    BY <2>5, <2>6, <2>8, <2>9 DEF RecordInv
<1>2. ASSUME Write
      PROVE  RecordInv'
  <2>1. /\ up /\ up' /\ cur # None /\ cur' # None /\ cur'.version = cur.version /\ cur'.rec = cur.rec
        /\ todo # <<>> /\ todo' = Tail(todo) /\ (cur.degraded => cur'.degraded)
        /\ store'.rec = store.rec /\ UNCHANGED <<config, clock, syncs, acked, undone, halfSeeded>>
    BY <1>2, WriteKeeps
  <2>2. \A w \in WriteItem : ~Pending(w)' => ~Pending(w) \/ todo[1] = w
    BY <2>1, TailOfTodo
  <2>3. todo[1] = Head(todo) /\ 1 \in 1..Len(todo)
    BY <2>1, TodoTyped, LenProperties DEF WellTyped
  <2>4. AckedInRange' /\ CopiesCover' /\ \A r \in {"graph", "job"} : MemoryCovers(r)' /\ Filed(r)' = Filed(r)
    BY <2>1 DEF RecordInv, AckedInRange, CopiesCover, MemoryCovers, Filed, InMemory, NotOlder
  <2>5. "state" \in WriteItem /\ \A r \in {"graph", "job"} : Part(r) \subseteq WriteItem
    BY DEF WriteItem
  <2>6. ASSUME UNCHANGED SnapshotRecords, todo[1] # "state" \/ cur'.degraded
        PROVE  SnapshotCovers'
    BY <2>1, <2>2, <2>5, <2>6 DEF RecordInv, SnapshotCovers, NotOlder
  <2>7. ASSUME UNCHANGED repo, disk'.rec = disk.rec, NEW r \in {"graph", "job"}, todo[1] \notin Part(r)
        PROVE  FileCovers(r)' /\ FileIsWhole(r)'
    <3>1. FileCovers(r) /\ FileIsWhole(r) /\ Filed(r)' = Filed(r)
      BY <2>4 DEF RecordInv
    <3>. QED
      BY <2>1, <2>2, <2>5, <2>7, <3>1 DEF FileCovers, FileIsWhole, NotOlder
  <2>8. CASE appendAuditEvent
    <3>1. disk'.rec = disk.rec /\ disk'.state = disk.state /\ repo' = repo /\ todo[1] = "audit"
      BY <2>3, <2>8 DEF appendAuditEvent, SkipAppend, WellTyped, Ready
    <3>2. UNCHANGED SnapshotRecords
      BY <3>1 DEF SnapshotRecords
    <3>3. \A r \in {"graph", "job"} : todo[1] \notin Part(r)
      BY <3>1, ItemsDiffer
    <3>. QED
      BY <2>4, <2>6, <2>7, <3>1, <3>2, <3>3 DEF RecordInv
  <2>9. CASE persistStoreSnapshot
    <3>1. disk'.rec = disk.rec /\ repo' = repo /\ todo[1] = "state"
      BY <2>3, <2>9 DEF persistStoreSnapshot, WellTyped, Ready
    <3>4. \A r \in {"graph", "job"} : todo[1] \notin Part(r)
      BY <3>1, ItemsDiffer
    <3>2. CASE "state" \in config /\ disk' = [disk EXCEPT !.state = store]
      <4>1. SnapshotRecords' = store.rec
        BY <3>2, NoneIsNoStore DEF SnapshotRecords, WellTyped
      <4>2. \A i \in Id : NotOlder(i, store.rec[i])
        BY <2>1, <3>2 DEF RecordInv, MemoryCovers
      <4>3. SnapshotCovers'
        BY <2>1, <4>1, <4>2 DEF SnapshotCovers, NotOlder
      <4>. QED
        BY <2>4, <2>7, <3>1, <3>4, <4>3 DEF RecordInv
    <3>3. CASE disk' = disk /\ ("state" \notin config \/ cur' = [cur EXCEPT !.degraded = TRUE])
      <4>1. UNCHANGED SnapshotRecords
        BY <3>3 DEF SnapshotRecords
      <4>2. "state" \in config => cur'.degraded
        BY <2>1, <3>3 DEF WellTyped, Current
      <4>3. SnapshotCovers'
        BY <2>1, <2>6, <4>1, <4>2 DEF SnapshotCovers
      <4>. QED
        BY <2>4, <2>7, <3>1, <3>4, <4>3 DEF RecordInv
    <3>. QED
      BY <2>9, <3>2, <3>3 DEF persistStoreSnapshot
  <2>10. ASSUME NEW r \in {"graph", "job"}, persistRecord(r)
         PROVE  RecordInv'
    <3>1. disk'.state = disk.state /\ todo[1] \in Part(r) /\ todo[1] # "state"
      BY <2>3, <2>10, ItemsDiffer DEF persistRecord, WellTyped
    <3>2. SnapshotCovers'
      BY <2>6, <3>1 DEF SnapshotRecords
    <3>3. ASSUME NEW r2 \in {"graph", "job"}
          PROVE  FileCovers(r2)' /\ FileIsWhole(r2)'
      <4>1. FileCovers(r2) /\ FileIsWhole(r2) /\ Filed(r2)' = Filed(r2)
        BY <2>4 DEF RecordInv
      <4>2. Filed(r2) => r2 \in config
        BY DEF Filed
      <4>6. r2 # r => todo[1] \notin Part(r2)
        BY <3>1
      <4>3. CASE ~Filed(r2)
        BY <4>1, <4>3 DEF FileCovers, FileIsWhole
      <4>4. CASE /\ \A i \in Part(r2) : repo'[i] = repo[i] /\ disk'.rec[i] = disk.rec[i]
                 /\ r2 # r \/ cur'.degraded
        BY <2>1, <2>2, <2>5, <4>1, <4>4, <4>6 DEF FileCovers, FileIsWhole, NotOlder
      <4>5. CASE /\ Filed(r2) /\ r2 = r
                 /\ \A i \in Part(r) : repo'[i] = IF i = todo[1] THEN cur.rec[i] ELSE repo[i]
                 /\ \/ \A i \in Part(r) : disk'.rec[i] = repo'[i]
                    \/ cur'.degraded /\ \A i \in Part(r) : disk'.rec[i] = disk.rec[i]
        <5>1. cur.rec[todo[1]] # 0 /\ NotOlder(todo[1], cur.rec[todo[1]])
          BY <2>1, <2>3, <3>1, <4>1, <4>5 DEF HandlerInv, FileCovers
        <5>2. \A i \in Part(r) : /\ repo'[i] = 0 \/ NotOlder(i, repo'[i])
                                 /\ repo'[i] = 0 => repo[i] = 0 /\ disk.rec[i] = 0
          BY <2>1, <4>1, <4>5, <5>1 DEF FileCovers
        <5>3. \A i \in Part(r) : /\ disk'.rec[i] = 0 \/ NotOlder(i, disk'.rec[i])
                                 /\ disk'.rec[i] = 0 => disk.rec[i] = 0
                                 /\ repo'[i] = 0 => disk'.rec[i] = 0
          BY <2>1, <4>1, <4>5, <5>2 DEF FileCovers
        <5>4. ASSUME ~cur'.degraded, NEW i \in Part(r), cur.rec[i] # 0, ~Pending(i)'
              PROVE  disk'.rec[i] = cur.rec[i] /\ repo'[i] = cur.rec[i]
          <6>1. i = todo[1] \/ ~Pending(i)
            BY <2>2, <2>5, <5>4
          <6>. QED
            BY <2>1, <4>1, <4>5, <5>4, <6>1 DEF FileCovers
        <5>5. FileCovers(r)'
          BY <2>1, <4>1, <4>5, <5>2, <5>3, <5>4 DEF FileCovers, NotOlder
        <5>6. FileIsWhole(r)'
          BY <2>1, <4>1, <4>5, <5>3 DEF FileIsWhole
        <5>. QED
          BY <4>5, <5>5, <5>6
      <4>. QED
        BY <2>10, <4>2, <4>3, <4>4, <4>5, PersistRecordEffect
    <3>. QED
      BY <2>4, <3>2, <3>3 DEF RecordInv
  <2>. QED
    BY <1>2, <2>8, <2>9, <2>10 DEF Write
<1>3. ASSUME Answer
      PROVE  RecordInv'
  <2>1. /\ up /\ up' /\ cur # None /\ todo = <<>> /\ cur' = None /\ cur \in Current
        /\ UNCHANGED <<config, disk, repo, store, clock, syncs, undone, halfSeeded>>
    BY <1>3 DEF Answer, WellTyped
  <2>2. \A w : ~Pending(w)
    BY <2>1, EmptySeq DEF Pending
  <2>3. UNCHANGED SnapshotRecords /\ \A r : Filed(r)' = Filed(r)
    BY <2>1 DEF SnapshotRecords, Filed, InMemory
  <2>4. \A i \in Id : cur.rec[i] \in Nat /\ cur.rec[i] <= clock
    BY <2>1 DEF HandlerInv, Current, Versioned
  <2>5. ASSUME NEW i \in Id
        PROVE  \/ acked'.rec[i] = acked.rec[i]
               \/ /\ ~cur.degraded /\ acked'.rec[i] = cur.rec[i] /\ acked.rec[i] < cur.rec[i]
                  /\ cur.rec[i] <= store.rec[i]
    BY <1>3 DEF Answer
  <2>6. \A i \in Id : acked'.gone[i] = acked.gone[i] \/ acked'.gone[i] = clock
    BY <1>3, <2>1 DEF Answer, HandlerInv
  <2>7. AckedInRange'
    BY <2>1, <2>4, <2>5, <2>6, RecordTyped DEF RecordInv, AckedInRange
  <2>8. SnapshotCovers'
    BY <2>1, <2>2, <2>3, <2>4, <2>5, RecordTyped DEF RecordInv, SnapshotCovers, NotOlder
  <2>9. CopiesCover'
    <3>1. ASSUME NEW copy \in syncs, NEW i \in Id, copy[i] # 0
          PROVE  acked'.rec[i] <= copy[i] \/ acked'.rec[i] < undone[i] \/ copy[i] < store.rec[i]
      <4>1. NotOlder(i, copy[i]) \/ copy[i] < store.rec[i]
        BY <3>1 DEF RecordInv, CopiesCover
      <4>2. copy[i] \in Nat
        BY DEF WellTyped, Versioned
      <4>. QED
        BY <2>4, <2>5, <4>1, <4>2, RecordTyped DEF NotOlder
    <3>. QED
      BY <2>1, <3>1 DEF CopiesCover, NotOlder
  <2>10. ASSUME NEW r \in {"graph", "job"}
         PROVE  (FileCovers(r) /\ FileIsWhole(r) /\ MemoryCovers(r))'
    <3>1. FileCovers(r) /\ FileIsWhole(r) /\ MemoryCovers(r)
      BY DEF RecordInv
    <3>2. ASSUME NEW i \in Part(r), acked'.rec[i] # acked.rec[i]
          PROVE  /\ acked'.rec[i] = cur.rec[i] /\ cur.rec[i] # 0 /\ cur.rec[i] <= store.rec[i]
                 /\ Filed(r) => disk.rec[i] = cur.rec[i] /\ repo[i] = cur.rec[i]
      <4>1. /\ ~cur.degraded /\ acked'.rec[i] = cur.rec[i] /\ cur.rec[i] # 0
            /\ cur.rec[i] <= store.rec[i]
        BY <2>4, <2>5, <3>2, RecordTyped
      <4>. QED
        BY <2>1, <2>2, <3>1, <4>1 DEF FileCovers
    <3>3. FileCovers(r)'
      BY <2>1, <2>3, <2>4, <3>1, <3>2 DEF FileCovers, NotOlder
    <3>4. FileIsWhole(r)'
      BY <2>1, <2>3, <3>1, <3>2 DEF FileIsWhole
    <3>5. MemoryCovers(r)'
      BY <2>1, <2>3, <3>1, <3>2 DEF MemoryCovers, NotOlder
    <3>. QED
      BY <3>3, <3>4, <3>5
  <2>. QED
    BY <2>7, <2>8, <2>9, <2>10 DEF RecordInv
<1>4. ASSUME Crash
      PROVE  RecordInv'
  <2>1. /\ up /\ ~up' /\ cur' = None /\ disk'.rec = disk.rec /\ disk'.state = disk.state
        /\ syncs' = {} /\ UNCHANGED <<config, clock, acked, undone, halfSeeded>>
    BY <1>4 DEF Crash, WellTyped
  <2>2. UNCHANGED SnapshotRecords /\ \A r : Filed(r)' = Filed(r)
    BY <2>1 DEF SnapshotRecords, Filed, InMemory
  <2>3. AckedInRange' /\ SnapshotCovers' /\ CopiesCover'
    BY <2>1, <2>2 DEF RecordInv, AckedInRange, SnapshotCovers, CopiesCover, NotOlder
  <2>4. ASSUME NEW r \in {"graph", "job"}
        PROVE  (FileCovers(r) /\ FileIsWhole(r) /\ MemoryCovers(r))'
    <3>1. FileCovers(r) /\ FileIsWhole(r)
      BY DEF RecordInv
    <3>. QED
      BY <2>1, <2>2, <3>1 DEF FileCovers, FileIsWhole, MemoryCovers, NotOlder
  <2>. QED
    BY <2>3, <2>4 DEF RecordInv
<1>5. ASSUME Starting
      PROVE  RecordInv'
  <2>. DEFINE seed == initialRuntimeSeed
              all == ToSeed("graph", seed) \cup ToSeed("job", seed)
  <2>1. /\ ~up /\ up' /\ cur = None /\ cur' = None /\ disk'.state = disk.state /\ store'.rec = seed.rec
        /\ halfSeeded \subseteq halfSeeded' /\ syncs' = {} /\ UNCHANGED <<config, clock, acked, undone>>
    BY <1>5, SeedTyped DEF Starting, Start, StartDegraded, Startable, HandlerInv, WellTyped, StoreState
  <2>2. UNCHANGED SnapshotRecords /\ \A r : Filed(r)' = Filed(r)
    BY <2>1 DEF SnapshotRecords, Filed, InMemory
  <2>3. AckedInRange' /\ SnapshotCovers' /\ CopiesCover'
    BY <2>1, <2>2 DEF RecordInv, AckedInRange, SnapshotCovers, CopiesCover, NotOlder
  <2>4. \E written, held \in SUBSET all :
          /\ written \subseteq held
          /\ disk'.rec = Seeded(disk.rec, written, seed)
          /\ repo' = Seeded(Opened, held, seed)
          /\ \A r \in {"graph", "job"} : r \notin halfSeeded' => ToSeed(r, seed) \subseteq written
    <3>1. CASE Start
      <4>1. disk'.rec = Seeded(disk.rec, all, seed) /\ repo' = Seeded(Opened, all, seed)
        BY <3>1 DEF Start, WellTyped
      <4>2. all \in SUBSET all /\ \A r \in {"graph", "job"} : ToSeed(r, seed) \subseteq all
        OBVIOUS
      <4>. QED
        BY <4>1, <4>2
    <3>2. ASSUME NEW r0 \in {"graph", "job"}, StartDegraded(r0)
          PROVE  \E written, held \in SUBSET all :
                   /\ written \subseteq held
                   /\ disk'.rec = Seeded(disk.rec, written, seed)
                   /\ repo' = Seeded(Opened, held, seed)
                   /\ \A r \in {"graph", "job"} : r \notin halfSeeded' => ToSeed(r, seed) \subseteq written
      <4>. DEFINE other == ToSeed(IF r0 = "graph" THEN "job" ELSE "graph", seed)
      <4>1. PICK failing \in ToSeed(r0, seed), done \in SUBSET ToSeed(r0, seed) :
              /\ repo' = Seeded(Opened, other \cup done \cup {failing}, seed)
              /\ disk' = [disk EXCEPT !.rec = Seeded(@, other \cup done, seed)]
        BY <3>2 DEF StartDegraded
      <4>2. disk'.rec = Seeded(disk.rec, other \cup done, seed) /\ halfSeeded' = halfSeeded \cup {r0}
        BY <3>2, <4>1 DEF StartDegraded, WellTyped
      <4>3. /\ other \cup done \in SUBSET all /\ other \cup done \cup {failing} \in SUBSET all
            /\ \A r \in {"graph", "job"} : r # r0 => ToSeed(r, seed) \subseteq other \cup done
        OBVIOUS
      <4>. HIDE DEF seed, all, other
      <4>4. \A r \in {"graph", "job"} : r \notin halfSeeded' => ToSeed(r, seed) \subseteq other \cup done
        BY <4>2, <4>3
      <4>5. \E written \in SUBSET all : \E held \in SUBSET all :
              /\ written \subseteq held
              /\ disk'.rec = Seeded(disk.rec, written, seed)
              /\ repo' = Seeded(Opened, held, seed)
              /\ \A r \in {"graph", "job"} : r \notin halfSeeded' => ToSeed(r, seed) \subseteq written
        <5>. DEFINE w == other \cup done
                    held0 == other \cup done \cup {failing}
        <5>1. /\ w \in SUBSET all /\ held0 \in SUBSET all
              /\ w \subseteq held0
              /\ disk'.rec = Seeded(disk.rec, w, seed)
              /\ repo' = Seeded(Opened, held0, seed)
              /\ \A r \in {"graph", "job"} : r \notin halfSeeded' => ToSeed(r, seed) \subseteq w
          BY <4>1, <4>2, <4>3, <4>4
        <5>. HIDE DEF w, held0
        <5>. QED
          BY <5>1
      <4>. QED
        BY <4>5
    <3>. QED
      BY <1>5, <3>1, <3>2 DEF Starting
  <2>5. PICK written \in SUBSET all, held \in SUBSET all :
          /\ written \subseteq held
          /\ disk'.rec = Seeded(disk.rec, written, seed)
          /\ repo' = Seeded(Opened, held, seed)
          /\ \A r \in {"graph", "job"} : r \notin halfSeeded' => ToSeed(r, seed) \subseteq written
    BY <2>4
  <2>6. ASSUME NEW r \in {"graph", "job"}
        PROVE  (FileCovers(r) /\ FileIsWhole(r) /\ MemoryCovers(r))'
    <3>1. /\ Filed(r) => \A i \in Part(r) :
               /\ disk'.rec[i] = 0 \/ NotOlder(i, disk'.rec[i])
               /\ disk'.rec[i] = 0 => acked.rec[i] = FallbackSeed[i]
          /\ Filed(r) /\ "state" \notin config /\ r \notin halfSeeded' =>
               \A i \in Part(r) : acked.rec[i] # 0 => disk'.rec[i] # 0
      BY <2>1, <2>5, SeedingKeeps
    <3>2. ASSUME Filed(r), NEW i \in Part(r)
          PROVE  /\ repo'[i] = 0 \/ NotOlder(i, repo'[i])
                 /\ repo'[i] = 0 => disk'.rec[i] = 0
      <4>1. /\ i \in held => i \in ToSeed(r, seed) /\ repo'[i] = seed.rec[i]
            /\ i \notin held => repo'[i] = Opened[i]
        <5>. HIDE DEF seed
        <5>1. /\ i \in held => i \in ToSeed(r, seed) /\ Seeded(Opened, held, seed)[i] = seed.rec[i]
              /\ i \notin held => Seeded(Opened, held, seed)[i] = Opened[i]
          BY SeedingEffect
        <5>. QED
          BY <2>5, <5>1
      <4>2. i \notin written => disk'.rec[i] = disk.rec[i]
        <5>. HIDE DEF seed
        <5>1. i \notin written => Seeded(disk.rec, written, seed)[i] = disk.rec[i]
          BY SeedingEffect
        <5>. QED
          BY <2>5, <5>1
      <4>3. /\ Opened[i] = disk.rec[i]
            /\ i \in ToSeed(r, seed) => seed.rec[i] # 0 /\ NotOlder(i, seed.rec[i])
        BY <2>1, <3>2, StartRecords
      <4>4. disk.rec[i] = 0 \/ NotOlder(i, disk.rec[i])
        BY <3>2 DEF RecordInv, FileCovers
      <4>. HIDE DEF seed, all
      <4>. QED
        BY <2>5, <4>1, <4>2, <4>3, <4>4
    <3>3. "state" \in config \/ (Filed(r) /\ r \notin halfSeeded') => \A i \in Part(r) : NotOlder(i, seed.rec[i])
      BY <2>1, StartRecords
    <3>. HIDE DEF seed, all
    <3>4. FileCovers(r)'
      BY <2>1, <2>2, <3>1, <3>2 DEF FileCovers, NotOlder
    <3>5. FileIsWhole(r)'
      BY <2>1, <2>2, <3>1 DEF FileIsWhole
    <3>6. MemoryCovers(r)'
      BY <2>1, <2>2, <3>3 DEF MemoryCovers, NotOlder
    <3>. QED
      BY <3>4, <3>5, <3>6
  <2>. QED
    BY <2>3, <2>6 DEF RecordInv
<1>6. ASSUME CrashWhileSeeding
      PROVE  RecordInv'
  <2>. DEFINE seed == initialRuntimeSeed
              graph == ToSeed("graph", seed)
              all == graph \cup ToSeed("job", seed)
  <2>1. /\ ~up /\ ~up' /\ cur = None /\ cur' = None /\ disk'.state = disk.state
        /\ syncs' = {} /\ UNCHANGED <<config, clock, acked, undone>>
    BY <1>6 DEF CrashWhileSeeding, Startable, HandlerInv, WellTyped
  <2>2. UNCHANGED SnapshotRecords /\ \A r : Filed(r)' = Filed(r)
    BY <2>1 DEF SnapshotRecords, Filed, InMemory
  <2>3. AckedInRange' /\ SnapshotCovers' /\ CopiesCover'
    BY <2>1, <2>2 DEF RecordInv, AckedInRange, SnapshotCovers, CopiesCover, NotOlder
  <2>4. PICK done \in SUBSET all :
          /\ done \cap JobId # {} => graph \subseteq done
          /\ disk'.rec = Seeded(disk.rec, done, seed)
          /\ halfSeeded' = halfSeeded \cup (IF graph \subseteq done THEN {"job"} ELSE {"graph"})
    BY <1>6 DEF CrashWhileSeeding, WellTyped
  <2>5. ASSUME NEW r \in {"graph", "job"}
        PROVE  (FileCovers(r) /\ FileIsWhole(r) /\ MemoryCovers(r))'
    <3>1. /\ Filed(r) => \A i \in Part(r) :
               /\ disk'.rec[i] = 0 \/ NotOlder(i, disk'.rec[i])
               /\ disk'.rec[i] = 0 => acked.rec[i] = FallbackSeed[i]
          /\ Filed(r) /\ "state" \notin config /\ r \notin halfSeeded /\ ToSeed(r, seed) \subseteq done =>
               \A i \in Part(r) : acked.rec[i] # 0 => disk'.rec[i] # 0
      BY <2>1, <2>4, SeedingKeeps
    <3>2. r \notin halfSeeded' => /\ r \notin halfSeeded
                                  /\ \/ ToSeed(r, seed) \subseteq done
                                     \/ \A i \in Part(r) : i \notin done
      <4>1. CASE r = "graph"
        BY <2>4, <4>1
      <4>2. CASE r = "job"
        BY <2>4, <4>2
      <4>. QED
        BY <4>1, <4>2
    <3>3. ASSUME \A i \in Part(r) : i \notin done
          PROVE  \A i \in Part(r) : disk'.rec[i] = disk.rec[i]
      <4>. HIDE DEF seed
      <4>1. \A i \in Part(r) : Seeded(disk.rec, done, seed)[i] = disk.rec[i]
        BY <3>3 DEF Seeded
      <4>. QED
        BY <2>4, <4>1
    <3>4. FileIsWhole(r)
      BY DEF RecordInv
    <3>. HIDE DEF seed, graph, all
    <3>5. FileCovers(r)'
      BY <2>1, <2>2, <3>1 DEF FileCovers, NotOlder
    <3>6. FileIsWhole(r)'
      BY <2>1, <2>2, <3>1, <3>2, <3>3, <3>4 DEF FileIsWhole
    <3>7. MemoryCovers(r)'
      BY <2>1 DEF MemoryCovers
    <3>. QED
      BY <3>5, <3>6, <3>7
  <2>. QED
    BY <2>3, <2>5 DEF RecordInv
<1>7. ASSUME UNCHANGED vars
      PROVE  RecordInv'
  <2>1. AckedInRange' /\ SnapshotCovers' /\ CopiesCover'
    BY <1>7 DEF vars, RecordInv, AckedInRange, SnapshotCovers, SnapshotRecords, CopiesCover, NotOlder, Pending
  <2>2. ASSUME NEW r \in {"graph", "job"}
        PROVE  (FileCovers(r) /\ FileIsWhole(r) /\ MemoryCovers(r))'
    <3>1. FileCovers(r) /\ FileIsWhole(r) /\ MemoryCovers(r)
      BY DEF RecordInv
    <3>. QED
      BY <1>7, <3>1 DEF vars, FileCovers, FileIsWhole, MemoryCovers, NotOlder, Filed, InMemory, Pending
  <2>. QED
    BY <2>1, <2>2 DEF RecordInv
<1>. QED
  BY <1>1, <1>2, <1>3, <1>4, <1>5, <1>6, <1>7, <1>8 DEF Next, Beginning, Write, Starting

LEMMA RecordInvariance == Spec => []RecordInv
<1>1. Init => RecordInv
  BY RecordInit
<1>2. TrailInvariant /\ TrailInvariant' /\ RecordInv /\ [Next]_vars => RecordInv'
  BY RecordStep DEF TrailInvariant
<1>. QED
  BY <1>1, <1>2, TrailInvariance, PTL DEF Spec

\* What a repository has found when it was opened stays there: no write removes a record.
LEMMA FilesKeep ==
  ASSUME WellTyped, HandlerInv, RecordInv, [Next]_vars, NEW i \in Id, Opened[i] # 0
  PROVE  Opened'[i] # 0
<1>1. config' = config
  <2>1. Beginning => config' = config
    BY BeginningEffect
  <2>2. Write => config' = config
    BY WriteKeeps
  <2>. QED
    BY <2>1, <2>2 DEF Next, Beginning, Write, vars, StartSync, StartDegraded, Answer, Crash, Start, CrashWhileSeeding
<1>2. /\ ~InMemory /\ (i \in GraphId => "graph" \in config) /\ (i \in JobId => "job" \in config)
      /\ disk.rec[i] # 0
  BY DEF Opened
<1>3. disk'.rec[i] # 0 => Opened'[i] # 0
  BY <1>1, <1>2 DEF Opened, InMemory
<1>4. CASE disk'.rec = disk.rec
  BY <1>2, <1>3, <1>4
<1>5. ASSUME NEW r \in {"graph", "job"}, persistRecord(r)
      PROVE  disk'.rec[i] # 0
  <2>1. PICK r2 \in {"graph", "job"} : i \in Part(r2)
    BY PartFacts
  <2>2. Filed(r2) /\ r2 \in config
    BY <1>2, <2>1, PartFacts DEF Filed
  <2>3. up /\ cur # None /\ 1 \in 1..Len(todo) /\ todo[1] \in Part(r) /\ Part(r) \subseteq Id
    BY <1>5, WriteKeeps, TodoTyped, LenProperties, PartFacts DEF Write, persistRecord, WellTyped
  <2>4. cur.rec[todo[1]] # 0 /\ repo[i] # 0
    BY <1>2, <2>1, <2>2, <2>3 DEF HandlerInv, RecordInv, FileCovers
  <2>. QED
    BY <1>2, <1>5, <2>1, <2>2, <2>4, PersistRecordEffect
<1>6. ASSUME NEW written \in SUBSET (ToSeed("graph", initialRuntimeSeed) \cup ToSeed("job", initialRuntimeSeed)),
             disk'.rec = Seeded(disk.rec, written, initialRuntimeSeed)
      PROVE  disk'.rec[i] # 0
  <2>. DEFINE seed == initialRuntimeSeed
  <2>1. \A j \in written : seed.rec[j] # 0
    BY <1>6 DEF ToSeed
  <2>2. disk'.rec = Seeded(disk.rec, written, seed)
    BY <1>6
  <2>. HIDE DEF seed
  <2>. QED
    BY <1>2, <2>1, <2>2 DEF Seeded
<1>7. ASSUME Start
      PROVE  disk'.rec[i] # 0
  <2>1. disk'.rec = Seeded(disk.rec, ToSeed("graph", initialRuntimeSeed) \cup ToSeed("job", initialRuntimeSeed),
                           initialRuntimeSeed)
    BY <1>7 DEF Start, WellTyped
  <2>. QED
    BY <1>6, <2>1
<1>8. ASSUME NEW r \in {"graph", "job"}, StartDegraded(r)
      PROVE  disk'.rec[i] # 0
  <2>. DEFINE seed == initialRuntimeSeed
              other == ToSeed(IF r = "graph" THEN "job" ELSE "graph", seed)
  <2>1. PICK done \in SUBSET ToSeed(r, seed) : disk' = [disk EXCEPT !.rec = Seeded(@, other \cup done, seed)]
    BY <1>8 DEF StartDegraded
  <2>2. disk'.rec = Seeded(disk.rec, other \cup done, seed)
    BY <2>1 DEF WellTyped
  <2>3. other \cup done \in SUBSET (ToSeed("graph", seed) \cup ToSeed("job", seed))
    OBVIOUS
  <2>. QED
    BY <1>6, <2>2, <2>3
<1>9. ASSUME CrashWhileSeeding
      PROVE  disk'.rec[i] # 0
  <2>1. PICK done \in SUBSET (ToSeed("graph", initialRuntimeSeed) \cup ToSeed("job", initialRuntimeSeed)) :
          disk'.rec = Seeded(disk.rec, done, initialRuntimeSeed)
    BY <1>9 DEF CrashWhileSeeding, WellTyped
  <2>. QED
    BY <1>6, <2>1
<1>10. CASE \/ Beginning \/ \E ids \in SUBSET (GraphId \ NativeGrant) : StartSync(ids)
            \/ Answer \/ Crash \/ appendAuditEvent \/ persistStoreSnapshot \/ UNCHANGED vars
  <2>1. Beginning => disk' = disk
    BY BeginningEffect
  <2>2. disk'.rec = disk.rec
    BY <1>10, <2>1 DEF StartSync, Answer, Crash, appendAuditEvent, SkipAppend, persistStoreSnapshot, vars,
                       WellTyped
  <2>. QED
    BY <1>4, <2>2
<1>. QED
  BY <1>3, <1>5, <1>7, <1>8, <1>9, <1>10 DEF Next, Beginning

LEMMA WithdrawnInit == Init => WithdrawnInv
BY DEF Init, WithdrawnInv, Absent

LEMMA WithdrawnStep ==
  WellTyped /\ WellTyped' /\ HandlerInv /\ RecordInv /\ WithdrawnInv /\ [Next]_vars => WithdrawnInv'
<1>. SUFFICES ASSUME WellTyped, WellTyped', HandlerInv, RecordInv, WithdrawnInv, [Next]_vars
              PROVE  WithdrawnInv'
  OBVIOUS
<1>0. \A i \in Id : Opened[i] # 0 => Opened'[i] # 0
  BY FilesKeep
<1>1. ASSUME Beginning \/ \E ids \in SUBSET (GraphId \ NativeGrant) : StartSync(ids)
      PROVE  WithdrawnInv'
  <2>1. /\ up /\ UNCHANGED <<config, disk, acked>>
        /\ \A i \in Id : \/ store'.rec[i] = clock + 1 \/ store'.rec[i] = store.rec[i]
                         \/ store'.rec[i] = 0
    <3>1. CASE Beginning
      BY <3>1, BeginningEffect DEF Begins
    <3>2. ASSUME NEW ids, StartSync(ids)
          PROVE  \A i \in Id : store'.rec[i] = clock + 1 \/ store'.rec[i] = store.rec[i]
      <4>1. store.rec \in Versioned /\ store'.rec = Updated(store.rec, ids)
        BY <3>2 DEF StartSync, WellTyped, StoreState
      <4>. QED
        BY <4>1, UpdatedTyped
    <3>. QED
      BY <1>1, <3>1, <3>2 DEF StartSync
  <2>2. \A i \in Id : acked.gone[i] \in Nat /\ acked.gone[i] < clock + 1
    <3>1. \A i \in Id : acked.gone[i] \in Nat
      BY DEF WellTyped, Versioned
    <3>2. \A i \in Id : acked.gone[i] <= clock
      BY DEF RecordInv, AckedInRange
    <3>. QED
      BY <3>1, <3>2, RecordTyped
  <2>3. SnapshotRecords' = SnapshotRecords
    BY <2>1 DEF SnapshotRecords
  <2>. QED
    BY <1>0, <2>1, <2>2, <2>3 DEF WithdrawnInv, Away
<1>2. ASSUME Write
      PROVE  WithdrawnInv'
  <2>1. up /\ store'.rec = store.rec /\ UNCHANGED <<config, acked>>
    BY <1>2, WriteKeeps
  <2>2. SnapshotRecords' = SnapshotRecords \/ SnapshotRecords' = store.rec
    <3>1. CASE disk'.state = disk.state
      BY <3>1 DEF SnapshotRecords
    <3>2. CASE disk' = [disk EXCEPT !.state = store]
      BY <3>2, NoneIsNoStore DEF SnapshotRecords, WellTyped
    <3>. QED
      BY <1>2, <3>1, <3>2 DEF Write, appendAuditEvent, SkipAppend, persistStoreSnapshot, persistRecord, WellTyped
  <2>. QED
    BY <1>0, <2>1, <2>2 DEF WithdrawnInv, Away
<1>3. ASSUME Answer
      PROVE  WithdrawnInv'
  <2>1. /\ up /\ cur # None /\ todo = <<>> /\ UNCHANGED <<config, disk, store>>
    BY <1>3 DEF Answer
  <2>2. ~Pending("state") /\ SnapshotRecords' = SnapshotRecords /\ Opened' = Opened
    BY <2>1, EmptySeq DEF Pending, SnapshotRecords, Opened, InMemory
  <2>3. ASSUME NEW i \in Id, "state" \in config
        PROVE  \/ acked'.gone[i] = acked.gone[i]
               \/ store.rec[i] = 0 /\ SnapshotRecords[i] = 0
    <3>1. acked'.gone[i] = acked.gone[i] \/ (~cur.degraded /\ i \in cur.withdrawn)
      BY <1>3 DEF Answer
    <3>. QED
      BY <2>1, <2>2, <2>3, <3>1 DEF HandlerInv, RecordInv, SnapshotCovers
  <2>. QED
    BY <2>1, <2>2, <2>3 DEF WithdrawnInv, Away
<1>4. ASSUME Crash \/ CrashWhileSeeding
      PROVE  WithdrawnInv'
  <2>1. ~up' /\ disk'.state = disk.state /\ UNCHANGED <<config, acked>>
    BY <1>4 DEF Crash, CrashWhileSeeding, Startable, WellTyped
  <2>2. SnapshotRecords' = SnapshotRecords
    BY <2>1 DEF SnapshotRecords
  <2>. QED
    BY <1>0, <2>1, <2>2 DEF WithdrawnInv, Away
<1>5. ASSUME Starting
      PROVE  WithdrawnInv'
  <2>. DEFINE seed == initialRuntimeSeed
  <2>1. store'.rec = seed.rec /\ disk'.state = disk.state /\ UNCHANGED <<config, acked>>
    BY <1>5, SeedTyped DEF Starting, Start, StartDegraded, WellTyped, StoreState
  <2>2. SnapshotRecords' = SnapshotRecords
    BY <2>1 DEF SnapshotRecords
  <2>3. "state" \in config => BaseSeed.rec = SnapshotRecords
    BY DEF BaseSeed, SnapshotRecords
  <2>4. \A i \in Id : seed.rec[i] = Opened[i] \/ seed.rec[i] = BaseSeed.rec[i]
    <3>1. seed.rec = [i \in Id |->
                        IF shouldUsePersisted(IF i \in GraphId THEN "graph" ELSE "job", BaseSeed)
                        THEN Opened[i] ELSE BaseSeed.rec[i]]
      BY DEF initialRuntimeSeed
    <3>. HIDE DEF seed
    <3>. QED
      BY <3>1
  <2>. HIDE DEF seed
  <2>. QED
    BY <1>0, <2>1, <2>2, <2>3, <2>4 DEF WithdrawnInv, Away
<1>6. ASSUME UNCHANGED vars
      PROVE  WithdrawnInv'
  BY <1>0, <1>6 DEF vars, WithdrawnInv, Away, SnapshotRecords
<1>. QED
  BY <1>1, <1>2, <1>3, <1>4, <1>5, <1>6 DEF Next, Beginning, Write, Starting

LEMMA WithdrawnInvariance == Spec => []WithdrawnInv
<1>1. Init => WithdrawnInv
  BY WithdrawnInit
<1>2. TrailInvariant /\ TrailInvariant' /\ RecordInv /\ WithdrawnInv /\ [Next]_vars => WithdrawnInv'
  BY WithdrawnStep DEF TrailInvariant
<1>. QED
  BY <1>1, <1>2, TrailInvariance, RecordInvariance, PTL DEF Spec

\* A record whose handler was answered without a receipt is never found in an older
\* version after a restart, and no record of the seed is lost, if there is a snapshot, or
\* a file whose first seeding was not cut short (initialRuntimeSeed); unless a sync has
\* withdrawn it or written an older copy of it to the graph file since then. A native grant
\* that a sync withdrew comes back only out of the graph file, from which nothing is removed.
THEOREM AcknowledgedRecordsKept == Spec => []AcknowledgedRecordSurvives
<1>1. ASSUME TrailInvariant, RecordInv
      PROVE  RecordSurvives
  <2>1. ASSUME up, NEW r \in {"graph", "job"}, "state" \in config \/ (r \in config \ halfSeeded /\ ~InMemory),
               NEW i \in Part(r)
        PROVE  store.rec[i] >= acked.rec[i] \/ undone[i] > acked.rec[i]
    <3>1. NotOlder(i, store.rec[i])
      BY <1>1, <2>1 DEF RecordInv, MemoryCovers, Filed
    <3>2. i \in Id
      BY PartFacts
    <3>. QED
      BY <1>1, <3>1, <3>2, RecordTyped DEF TrailInvariant, NotOlder
  <2>. QED
    BY <2>1 DEF RecordSurvives
<1>2. WithdrawnInv => WithdrawnStaysAway
  BY DEF WithdrawnInv, WithdrawnStaysAway, Away
<1>. QED
  BY <1>1, <1>2, TrailInvariance, RecordInvariance, WithdrawnInvariance, PTL DEF AcknowledgedRecordSurvives
=============================================================================

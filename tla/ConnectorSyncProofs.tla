------------------------ MODULE ConnectorSyncProofs ------------------------
(***************************************************************************)
(* Proofs of the safety properties of module ConnectorSync, for any number *)
(* of calls, users, applications and grants, any page and retry limit, and *)
(* whatever the provider does.                                             *)
(***************************************************************************)
EXTENDS ConnectorSync, TLAPS

-----------------------------------------------------------------------------
(* The invariant *)

\* The records of the reader and of the requests are well-formed, and a read belongs to a
\* request that loads.
TypeInv ==
  /\ deltas \in BOOLEAN
  /\ live \subseteq Item
  /\ log \in Seq(Item)
  /\ token \in [Path -> Nat \cup {None}]
  /\ DOMAIN cache = Path
  /\ \A path \in Path : cache[path] \in Values(path) \cup {None}
  /\ rd \in [Caller -> Read \cup {None}]
  /\ \A c \in Caller : rd[c] # None =>
       /\ rd[c].values \in Values(rd[c].path)
       /\ rd[c].base \in Values(rd[c].path) \cup {None}
  /\ snapshot \in Snapshot \cup {None}
  /\ call \in [Caller -> RequestState \cup {None}]
  /\ complete \in BOOLEAN /\ overlapped \in BOOLEAN /\ rejected \in BOOLEAN
  /\ \A c \in Caller : call[c] # None /\ call[c].load # None => call[c].step # "findings"
  /\ \A c \in Caller : rd[c] # None => call[c] # None /\ call[c].load # None

\* Unless calls overlapped, there is one at most.
AloneInv == \A c, d \in Caller : call[c] # None /\ call[d] # None => c = d

\* The values tell of every item that did not change since the position whether it exists.
Right(path, values, position) ==
  \A i \in Items(path) : Steady(position, i) => (values[i] = "live" <=> i \in live)

\* A kept token comes with a cache that is right at its position.
TokenInv ==
  \A path \in Path : token[path] # None =>
    /\ path \in DeltaPath
    /\ token[path] <= Len(log)
    /\ cache[path] # None
    /\ Right(path, cache[path], token[path])

\* What a read would answer with what it has: item i of its cache brought up to date.
ResultOf(f, i) == IF f.base # None /\ f.values[i] = "none" THEN f.base[i] ELSE f.values[i]

\* A read under way is right about every item that it does not wait for any more, a full
\* one is not made while there is a token, and a completed one is right.
ReadInv(f) ==
  /\ f.start <= Len(log)
  /\ ~f.done =>
       /\ f.base = None => token[f.path] = None
       /\ f.base # None => f.path \in DeltaPath
       /\ \A i \in Items(f.path) : i \in f.left => f.values[i] = "none"
       /\ \A i \in Items(f.path) \ f.left :
            Steady(f.start, i) => (ResultOf(f, i) = "live" <=> i \in live)
  /\ f.done /\ f.completed => Right(f.path, f.values, f.start)

DeltaInv ==
  /\ AloneInv
  /\ TokenInv
  /\ \A c \in Caller : rd[c] # None => ReadInv(rd[c])

-----------------------------------------------------------------------------

\* The members of a collection that were there all the time since the position are known.
Knows(path, known, position) ==
  \A i \in Items(path) : Steady(position, i) /\ i \in live => i \in known

\* The grants are those that were there all the time, or changed.
RightGrants(stored, position) ==
  /\ \A g \in Grants : SteadyGrant(position, g) /\ {g, principalOf[g], targetOf[g]} \subseteq live
                         => g \in stored
  /\ \A g \in stored : Steady(position, g) => g \in live

\* The grants are on the applications.
On(stored, applications) == \A g \in stored : g \in Grants /\ targetOf[g] \in applications

\* A load: as long as there is no warning, what it has read so far is known.
LoadInv(c) ==
  LET load == call[c].load
  IN  /\ call[c].step \in {"subjects", "drift"}
      /\ snapshot = None
      /\ load.from <= Len(log)
      /\ rd[c] # None =>
           /\ call[c].got = {}
           /\ load.from <= rd[c].start
           /\ rd[c].path \in {"users", "sps", "assignments"}
           /\ rd[c].path = "assignments" => \A i \in Grants : rd[c].values[i] # "deleted"
           /\ rd[c].done /\ ~rd[c].completed => warnings # {}
           /\ warnings = {} /\ rd[c].path # "users" => Knows("users", load.users, load.from)
           /\ warnings = {} /\ rd[c].path = "assignments" => Knows("sps", load.sps, load.from)
      /\ rd[c] = None =>
           /\ On(call[c].got, load.sps)
           /\ warnings = {} => RightGrants(call[c].got, load.from)

\* A request between two calls of the connector has the grants of the applications behind it.
RequestInv(c) ==
  /\ call[c].step \in {"subjects", "resources", "relationships", "drift"} => call[c].got = {}
  /\ call[c].step \in {"resources", "relationships", "access"} => snapshot # None
  /\ call[c].step = "relationships" => call[c].todo = snapshot.resources
  /\ call[c].step = "access" =>
       /\ call[c].from = snapshot.from
       /\ \A g \in call[c].got : g \in snapshot.grants
       /\ \A g \in snapshot.grants : targetOf[g] \notin call[c].todo => g \in call[c].got

Loads == \E c \in Caller : call[c] # None /\ call[c].load # None

\* Without a warning the snapshot is right.
SnapshotInv ==
  snapshot # None =>
    /\ On(snapshot.grants, snapshot.resources)
    /\ snapshot.from <= Len(log)
    /\ warnings = {} => RightGrants(snapshot.grants, snapshot.from)

\* Without a warning the readback counts as complete, and so it does before the first load:
\* a load by detectDrift does not reset it.
LossInv ==
  /\ run.missed \/ run.stale => run.warned
  /\ snapshot = None /\ ~Loads => complete
  /\ warnings = {} => complete
  /\ SnapshotInv
  /\ \A c \in Caller : call[c] # None =>
       /\ call[c].load # None => LoadInv(c)
       /\ call[c].load = None => RequestInv(c)

IInv ==
  /\ TypeInv
  /\ ~overlapped => DeltaInv
  /\ ~overlapped /\ ~rejected => LossInv


-----------------------------------------------------------------------------
(* The operators of the reader *)

\* A change at the provider unsettles the item that changed, and no other.
LEMMA SteadyAfterChange ==
  ASSUME log \in Seq(Item), NEW i \in Item, log' = Append(log, i),
         NEW position \in Nat, position <= Len(log), NEW j
  PROVE  Steady(position, j)' <=> Steady(position, j) /\ j # i
  <1>1. Len(log') = Len(log) + 1 /\ log'[Len(log) + 1] = i /\ Len(log) \in Nat
    OBVIOUS
  <1>2. \A k \in 1 .. Len(log) : log'[k] = log[k]
    OBVIOUS
  <1>3. position + 1 .. Len(log') = (position + 1 .. Len(log)) \cup {Len(log) + 1}
    BY <1>1
  <1>4. \A k \in position + 1 .. Len(log) : log'[k] = log[k]
    BY <1>1, <1>2
  <1> QED
    BY <1>1, <1>3, <1>4 DEF Steady

\* What did not change since an earlier position did not change since a later one.
LEMMA SteadyLater ==
  ASSUME log \in Seq(Item), NEW p \in Nat, NEW q \in Nat, p <= q, NEW j, Steady(p, j)
  PROVE  Steady(q, j)
  <1>1. Len(log) \in Nat
    OBVIOUS
  <1>2. \A k \in q + 1 .. Len(log) : k \in p + 1 .. Len(log)
    BY <1>1
  <1> QED
    BY <1>2 DEF Steady

\* The first frame of a read is a read (#readCollectionPages).
LEMMA FrameIsRead ==
  ASSUME live \subseteq Item, log \in Seq(Item), NEW path \in Path,
         NEW base \in Values(path) \cup {None}, NEW position
  PROVE  Frame(path, base, position) \in Read
  <1> DEFINE left == IF base = None THEN live \cap Items(path) ELSE ChangedSince(path, position)
  <1>1. left \subseteq Item
    BY DEF ChangedSince, Items
  <1>2. NoValues(path) \in Values(path)
    BY DEF NoValues, Values
  <1>3. NoValues(path) \in AnyValues /\ base \in AnyValues \cup {None}
    BY <1>2 DEF AnyValues
  <1>4. Len(log) \in Nat
    OBVIOUS
  <1>5. Frame(path, base, position)
          = [path |-> path, base |-> base, left |-> left, start |-> Len(log), pages |-> 0,
             retries |-> 0, values |-> NoValues(path), done |-> FALSE, completed |-> FALSE]
    BY DEF Frame
  <1> HIDE DEF left
  <1> QED
    BY <1>1, <1>3, <1>4, <1>5 DEF Read

\* It is of its path, with its base, and has no values yet.
LEMMA FrameFields ==
  ASSUME NEW path, NEW base, NEW position
  PROVE  /\ Frame(path, base, position).path = path
         /\ Frame(path, base, position).base = base
         /\ Frame(path, base, position).values \in Values(path)
         /\ Frame(path, base, position).start = Len(log)
         /\ ~Frame(path, base, position).done
         /\ ~Frame(path, base, position).completed
         /\ \A i \in Items(path) : Frame(path, base, position).values[i] = "none"
         /\ base = None => Frame(path, base, position).left = live \cap Items(path)
         /\ base # None => Frame(path, base, position).left = ChangedSince(path, position)
  <1>1. NoValues(path) \in Values(path) /\ \A i \in Items(path) : NoValues(path)[i] = "none"
    BY DEF NoValues, Values
  <1> QED
    BY <1>1 DEF Frame

\* A read that has ended is the read with its result.
LEMMA DoneIsRead ==
  ASSUME NEW f \in Read, NEW values \in Values(f.path), NEW completed \in BOOLEAN
  PROVE  LET g == Done(f, values, completed)
         IN  /\ g \in Read
             /\ g.path = f.path /\ g.base = f.base /\ g.start = f.start
             /\ g.values = values /\ g.done /\ g.completed = completed
  <1>1. values \in AnyValues
    BY DEF AnyValues, Read
  <1> QED
    BY <1>1 DEF Done, Read

\* A warning added to the warnings leaves some.
LEMMA WarningStays ==
  ASSUME NEW ws, NEW new
  PROVE  pushWarning(ws, new) # {}
  BY DEF pushWarning

\* The items that changed are those that are not steady.
LEMMA ChangedIsNotSteady ==
  ASSUME NEW path, NEW position, NEW i \in Items(path)
  PROVE  i \in ChangedSince(path, position) <=> ~Steady(position, i)
  BY DEF ChangedSince, Steady

-----------------------------------------------------------------------------
(* The steps of a read *)

\* The values of a read after a page with the items of s.
Taken(f, s) ==
  [i \in DOMAIN f.values |->
     IF i \in s /\ (f.base # None \/ i \in live) THEN Delivered(i) ELSE f.values[i]]

\* A read goes on with what a page brought, or with nothing.
GoesOn(c) ==
  \E s \in SUBSET rd[c].left, f \in Read :
    /\ f.path = rd[c].path /\ f.base = rd[c].base /\ f.start = rd[c].start
    /\ f.left = rd[c].left \ s /\ f.values = Taken(rd[c], s) /\ ~f.done
    /\ rd' = [rd EXCEPT ![c] = f]
    /\ warnings' = {} => warnings = {}
    /\ UNCHANGED <<token, cache>>

\* An incremental read starts again as a full one.
StartsAgain(c) ==
  /\ rd[c].base # None
  /\ rd' = [rd EXCEPT ![c] = Frame(rd[c].path, None, 0)]
  /\ token' = [token EXCEPT ![rd[c].path] = None]
  /\ warnings' # {}
  /\ UNCHANGED cache

\* A full read ends early.
EndsEarly(c) ==
  \E s \in SUBSET rd[c].left :
    /\ rd[c].base = None
    /\ rd' = [rd EXCEPT ![c] = Done(rd[c], Taken(rd[c], s), FALSE)]
    /\ cache' = cacheCollection(rd[c].path, Taken(rd[c], s))
    /\ warnings' # {}
    /\ UNCHANGED token

Merged(f) ==
  LET values == Taken(f, f.left)
  IN  IF f.base = None THEN values ELSE applyGraphDeltaChanges(f.base, values)

\* A read ends with everything.
EndsWell(c) ==
  \E delta \in BOOLEAN :
    /\ rd[c].base # None => delta
    /\ delta => rd[c].path \in DeltaPath /\ deltas
    /\ rd' = [rd EXCEPT ![c] = Done(rd[c], Merged(rd[c]), TRUE)]
    /\ token' = IF delta THEN [token EXCEPT ![rd[c].path] = rd[c].start] ELSE token
    /\ cache' = cacheCollection(rd[c].path, Merged(rd[c]))
    /\ UNCHANGED warnings


\* What is delivered of a collection is a list of it.
LEMMA TakenIsValues ==
  ASSUME NEW f \in Read, f.values \in Values(f.path), NEW s
  PROVE  Taken(f, s) \in Values(f.path) /\ Taken(f, s)
           = [i \in Items(f.path) |->
                IF i \in s /\ (f.base # None \/ i \in live) THEN Delivered(i) ELSE f.values[i]]
  BY DEF Taken, Values, Delivered

\* Nothing delivered, nothing changed.
LEMMA TakenNothing ==
  ASSUME NEW f \in Read, f.values \in Values(f.path)
  PROVE  Taken(f, {}) = f.values
  BY DEF Taken, Values

LEMMA MergedIsValues ==
  ASSUME NEW f \in Read, f.values \in Values(f.path), f.base \in Values(f.path) \cup {None}
  PROVE  Merged(f) \in Values(f.path)
  <1>1. Taken(f, f.left) \in Values(f.path)
    BY TakenIsValues
  <1>2. CASE f.base = None
    BY <1>1, <1>2 DEF Merged
  <1>3. CASE f.base # None
    BY <1>1, <1>3 DEF Merged, applyGraphDeltaChanges, Values
  <1> QED
    BY <1>2, <1>3

\* A read that cannot go on starts again or ends early.
LEMMA AbandonCases ==
  ASSUME NEW c \in Caller, rd[c] \in Read, NEW s \in SUBSET rd[c].left, NEW code,
         Abandon(c, Taken(rd[c], s), code)
  PROVE  StartsAgain(c) \/ EndsEarly(c)
  <1>1. CASE rd[c].base # None
    BY <1>1, WarningStays DEF Abandon, StartsAgain, discardToken, RestartFull
  <1>2. CASE rd[c].base = None
    <2>1. StopWarning(c, code) # {}
      BY WarningStays DEF StopWarning
    <2> QED
      BY <1>2, <2>1 DEF Abandon, EndsEarly
  <1> QED
    BY <1>1, <1>2

\* A page, a throttled request and a refused one do to a read one of four things.
LEMMA ReaderCases ==
  ASSUME NEW c \in Caller, rd[c] # None => rd[c] \in Read /\ rd[c].values \in Values(rd[c].path),
         ReaderStep(c)
  PROVE  /\ Reading(c)
         /\ UNCHANGED <<deltas, live, log>>
         /\ GoesOn(c) \/ StartsAgain(c) \/ EndsEarly(c) \/ EndsWell(c)
  <1>1. Reading(c) /\ UNCHANGED <<deltas, live, log>>
    BY DEF ReaderStep, Page, Throttled, Refused
  <1>2. rd[c] \in Read /\ rd[c].values \in Values(rd[c].path)
    BY <1>1 DEF Reading
  <1>3. rd[c].values = Taken(rd[c], {}) /\ {} \in SUBSET rd[c].left
    BY <1>2, TakenNothing
  <1>4. CASE Refused(c)
    BY <1>2, <1>3, <1>4, AbandonCases DEF Refused
  <1>5. CASE Throttled(c)
    <2>1. CASE rd[c].retries < MaxRetries
      <3> DEFINE f == [rd[c] EXCEPT !.retries = @ + 1]
      <3>1. /\ f \in Read /\ f.path = rd[c].path /\ f.base = rd[c].base /\ f.start = rd[c].start
            /\ f.left = rd[c].left \ {} /\ f.values = rd[c].values /\ f.done = rd[c].done
        BY <1>2 DEF Read
      <3>2. /\ rd' = [rd EXCEPT ![c] = f] /\ UNCHANGED <<token, cache>>
            /\ warnings' # {}
        BY <1>5, <2>1, WarningStays DEF Throttled
      <3> QED
        BY <1>1, <1>3, <3>1, <3>2 DEF GoesOn, Reading
    <2>2. CASE ~(rd[c].retries < MaxRetries)
      BY <1>2, <1>3, <1>5, <2>2, AbandonCases DEF Throttled
    <2> QED
      BY <2>1, <2>2
  <1>6. CASE Page(c)
    <2>1. PICK s \in SUBSET rd[c].left, next \in BOOLEAN, delta \in BOOLEAN :
            /\ s # rd[c].left => next
            /\ delta => ~next /\ deltas /\ rd[c].path \in DeltaPath
            /\ IF ~next THEN Complete(c, Taken(rd[c], s), delta)
               ELSE IF PageLimitReached(rd[c].pages + 1)
               THEN Abandon(c, Taken(rd[c], s), "COVERAGE")
               ELSE /\ rd' = [rd EXCEPT ![c] = [rd[c] EXCEPT !.pages = @ + 1, !.retries = 0,
                                !.left = @ \ s, !.values = Taken(rd[c], s)]]
                    /\ UNCHANGED <<token, cache, warnings>>
      BY <1>6 DEF Page, Taken
    <2>2. CASE next /\ PageLimitReached(rd[c].pages + 1)
      BY <1>1, <1>2, <2>1, <2>2, AbandonCases
    <2>3. CASE next /\ ~PageLimitReached(rd[c].pages + 1)
      <3> DEFINE f == [rd[c] EXCEPT !.pages = @ + 1, !.retries = 0, !.left = @ \ s,
                                    !.values = Taken(rd[c], s)]
      <3>1. Taken(rd[c], s) \in AnyValues
        BY <1>2, TakenIsValues DEF Read, AnyValues
      <3>2. rd[c].pages + 1 \in Nat /\ rd[c].left \ s \in SUBSET Item
        BY <1>2 DEF Read
      <3>3. f \in Read
        BY <1>2, <3>1, <3>2 DEF Read
      <3>4. /\ f.path = rd[c].path /\ f.base = rd[c].base /\ f.start = rd[c].start
            /\ f.left = rd[c].left \ s /\ f.values = Taken(rd[c], s) /\ f.done = rd[c].done
        BY <1>2 DEF Read
      <3> QED
        BY <1>1, <2>1, <2>3, <3>3, <3>4 DEF GoesOn, Reading
    <2>4. CASE ~next
      <3>1. s = rd[c].left /\ Complete(c, Taken(rd[c], s), delta)
        BY <2>1, <2>4
      <3>2. CASE rd[c].base # None /\ ~delta
        BY <1>1, <1>2, <3>1, <3>2, AbandonCases DEF Complete
      <3>3. CASE ~(rd[c].base # None /\ ~delta)
        BY <1>1, <2>1, <3>1, <3>3 DEF Complete, EndsWell, Merged
      <3> QED
        BY <3>2, <3>3
    <2> QED
      BY <2>2, <2>3, <2>4
  <1> QED
    BY <1>1, <1>4, <1>5, <1>6 DEF ReaderStep


-----------------------------------------------------------------------------
(* Types *)

\* A new read from the token and the cache is a read.
LEMMA ReadIsRead ==
  ASSUME TypeInv, NEW path \in Path
  PROVE  LET f == readCollectionResult(path)
         IN  f \in Read /\ f.path = path /\ f.values \in Values(path) /\ f.base \in Values(path) \cup {None}
  <1>1. cache[path] \in Values(path) \cup {None} /\ live \subseteq Item /\ log \in Seq(Item)
    BY DEF TypeInv
  <1>2. CASE token[path] # None /\ cache[path] # None
    <2>1. readCollectionResult(path) = Frame(path, cache[path], token[path])
      BY <1>2 DEF readCollectionResult
    <2> QED
      BY <1>1, <2>1, FrameIsRead, FrameFields
  <1>3. CASE ~(token[path] # None /\ cache[path] # None)
    <2>1. readCollectionResult(path) = Frame(path, None, 0)
      BY <1>3 DEF readCollectionResult
    <2>2. None \in Values(path) \cup {None}
      OBVIOUS
    <2> QED
      BY <1>1, <2>1, <2>2, FrameIsRead, FrameFields
  <1> QED
    BY <1>2, <1>3

\* A step of a read keeps the reader's records well-formed.
LEMMA ReaderType ==
  ASSUME TypeInv, NEW c \in Caller, Provider(c)
  PROVE  TypeInv'
  <1>1. rd[c] # None => rd[c] \in Read /\ rd[c].values \in Values(rd[c].path)
                        /\ rd[c].base \in Values(rd[c].path) \cup {None}
    BY DEF TypeInv
  <1>2. /\ Reading(c) /\ UNCHANGED <<deltas, live, log>> /\ UNCHANGED syncVars
        /\ GoesOn(c) \/ StartsAgain(c) \/ EndsEarly(c) \/ EndsWell(c)
    BY <1>1, ReaderCases DEF Provider
  <1> DEFINE f == rd[c]
  <1>3. /\ f # None /\ f \in Read /\ f.values \in Values(f.path)
        /\ f.base \in Values(f.path) \cup {None} /\ f.path \in Path /\ f.start \in Nat
    BY <1>1, <1>2 DEF Reading, Read
  <1> SUFFICES /\ token' \in [Path -> Nat \cup {None}]
               /\ DOMAIN cache' = Path
               /\ \A path \in Path : cache'[path] \in Values(path) \cup {None}
               /\ \E g \in Read : /\ rd' = [rd EXCEPT ![c] = g]
                                  /\ g.values \in Values(g.path)
                                  /\ g.base \in Values(g.path) \cup {None}
    BY <1>2, <1>3 DEF TypeInv, syncVars
  <1>4. ASSUME NEW values \in Values(f.path), cache' = cacheCollection(f.path, values)
        PROVE  /\ DOMAIN cache' = Path
               /\ \A path \in Path : cache'[path] \in Values(path) \cup {None}
    BY <1>3, <1>4 DEF TypeInv, cacheCollection
  <1>5. CASE GoesOn(c)
    <2>1. PICK s \in SUBSET f.left, g \in Read :
            /\ g.path = f.path /\ g.base = f.base /\ g.values = Taken(f, s)
            /\ rd' = [rd EXCEPT ![c] = g] /\ UNCHANGED <<token, cache>>
      BY <1>5 DEF GoesOn
    <2>2. g.values \in Values(g.path) /\ g.base \in Values(g.path) \cup {None}
      BY <1>3, <2>1, TakenIsValues
    <2> QED
      BY <2>1, <2>2 DEF TypeInv
  <1>6. CASE StartsAgain(c)
    <2> DEFINE g == Frame(f.path, None, 0)
    <2>1. g \in Read /\ g.values \in Values(g.path) /\ g.base \in Values(g.path) \cup {None}
      <3>1. live \subseteq Item /\ log \in Seq(Item) /\ None \in Values(f.path) \cup {None}
        BY DEF TypeInv
      <3> QED
        BY <1>3, <3>1, FrameIsRead, FrameFields
    <2> HIDE DEF g
    <2>2. /\ rd' = [rd EXCEPT ![c] = g] /\ cache' = cache
          /\ token' = [token EXCEPT ![f.path] = None]
      BY <1>6 DEF StartsAgain, g
    <2> QED
      BY <1>3, <2>1, <2>2 DEF TypeInv
  <1>7. CASE EndsEarly(c)
    <2>1. PICK s \in SUBSET f.left :
            /\ rd' = [rd EXCEPT ![c] = Done(f, Taken(f, s), FALSE)]
            /\ cache' = cacheCollection(f.path, Taken(f, s))
            /\ token' = token
      BY <1>7 DEF EndsEarly
    <2>2. Taken(f, s) \in Values(f.path)
      BY <1>3, TakenIsValues
    <2> DEFINE g == Done(f, Taken(f, s), FALSE)
    <2>3. g \in Read /\ g.values \in Values(g.path) /\ g.base \in Values(g.path) \cup {None}
      BY <1>3, <2>2, DoneIsRead
    <2> HIDE DEF f, g
    <2> QED
      BY <1>4, <2>1, <2>2, <2>3 DEF TypeInv, g
  <1>8. CASE EndsWell(c)
    <2>1. /\ rd' = [rd EXCEPT ![c] = Done(f, Merged(f), TRUE)]
          /\ cache' = cacheCollection(f.path, Merged(f))
          /\ token' = token \/ token' = [token EXCEPT ![f.path] = f.start]
      BY <1>8 DEF EndsWell
    <2>2. Merged(f) \in Values(f.path)
      BY <1>3, MergedIsValues
    <2> DEFINE g == Done(f, Merged(f), TRUE)
    <2>3. g \in Read /\ g.values \in Values(g.path) /\ g.base \in Values(g.path) \cup {None}
      BY <1>3, <2>2, DoneIsRead
    <2>4. token' \in [Path -> Nat \cup {None}]
      BY <1>3, <2>1 DEF TypeInv
    <2> HIDE DEF f, g
    <2> QED
      BY <1>4, <2>1, <2>2, <2>3, <2>4 DEF g
  <1> QED
    BY <1>2, <1>5, <1>6, <1>7, <1>8

\* What a request does with a snapshot leaves a request that does not load.
LEMMA UseIsRequest ==
  ASSUME NEW r \in RequestState, r.step # "findings", NEW s \in Snapshot, NEW u, u = Use(r, s)
  PROVE  /\ u \in RequestState /\ u.load = None
         /\ r.step = "subjects" => u.step = "resources" /\ u.got = r.got
         /\ r.step = "resources" =>
              u.step = "relationships" /\ u.got = r.got /\ u.todo = s.resources
         /\ r.step = "relationships" =>
              u.step = "access" /\ u.got = r.got /\ u.todo = r.todo /\ u.from = s.from
         /\ r.step = "access" => u.step = "access" /\ u.from = s.from
         /\ r.step = "drift" => u.step = "findings"
  <1>1. CASE r.step = "subjects"
    BY <1>1 DEF Use, RequestState, Step
  <1>2. CASE r.step = "resources"
    BY <1>2 DEF Use, RequestState, Step, Snapshot
  <1>3. CASE r.step = "relationships"
    BY <1>3 DEF Use, RequestState, Step, Snapshot
  <1>4. CASE r.step = "access"
    <2> DEFINE x == CHOOSE x \in r.todo : TRUE
    <2>1. u = [r EXCEPT !.todo = @ \ {x}, !.load = None, !.from = s.from,
                        !.got = @ \cup {g \in s.grants : targetOf[g] = x}]
      BY <1>4 DEF Use
    <2> HIDE DEF x
    <2>2. s.from \in Nat /\ s.grants \subseteq Item
      BY DEF Snapshot
    <2>3. u \in RequestState /\ u.load = None /\ u.step = "access" /\ u.from = s.from
      BY <1>4, <2>1, <2>2 DEF RequestState
    <2> QED
      BY <1>4, <2>3
  <1>5. CASE r.step = "drift"
    BY <1>5 DEF Use, RequestState, Step, Snapshot
  <1> QED
    BY <1>1, <1>2, <1>3, <1>4, <1>5 DEF RequestState, Step

\* From r to u, the request has taken the grants of application x.
TakesGrants(r, s, u, x) ==
  /\ u.todo = r.todo \ {x}
  /\ \A g : g \in u.got <=> g \in r.got \/ (g \in s.grants /\ targetOf[g] = x)

\* Of an application, it takes the grants.
LEMMA UseTakesGrants ==
  ASSUME NEW r \in RequestState, r.step = "access", NEW s \in Snapshot, NEW u, u = Use(r, s)
  PROVE  \E x : TakesGrants(r, s, u, x)
  <1> DEFINE x == CHOOSE x \in r.todo : TRUE
  <1>1. u = [r EXCEPT !.todo = @ \ {x}, !.load = None, !.from = s.from,
                      !.got = @ \cup {g \in s.grants : targetOf[g] = x}]
    BY DEF Use
  <1> HIDE DEF x
  <1>2. u.todo = r.todo \ {x} /\ u.got = r.got \cup {g \in s.grants : targetOf[g] = x}
    BY <1>1 DEF RequestState
  <1> QED
    BY <1>2 DEF TakesGrants


\* Where no read is changed, the requests are well-formed if the one that changed is.
LEMMA RequestType ==
  ASSUME TypeInv, NEW c \in Caller, NEW r \in RequestState \cup {None},
         call' = [call EXCEPT ![c] = r],
         r # None /\ r.load # None => r.step # "findings",
         rd[c] = None,
         UNCHANGED <<deltas, live, log, token, cache, rd>>,
         snapshot' \in Snapshot \cup {None},
         complete' \in BOOLEAN, overlapped' \in BOOLEAN, rejected' \in BOOLEAN
  PROVE  TypeInv'
  BY DEF TypeInv

\* The same where the request begins a read, or goes on with the next one.
LEMMA LoadType ==
  ASSUME TypeInv, NEW c \in Caller, NEW r \in RequestState,
         call' = [call EXCEPT ![c] = r], r.load # None, r.step # "findings",
         NEW f \in Read, f.values \in Values(f.path), f.base \in Values(f.path) \cup {None},
         rd' = [rd EXCEPT ![c] = f] \/ rd' = [rd EXCEPT ![c] = None],
         UNCHANGED <<deltas, live, log, token, cache>>,
         snapshot' \in Snapshot \cup {None},
         complete' \in BOOLEAN, overlapped' \in BOOLEAN, rejected' \in BOOLEAN
  PROVE  TypeInv'
  <1>1. call' \in [Caller -> RequestState \cup {None}]
    BY DEF TypeInv
  <1>2. /\ \A d \in Caller : d # c => call'[d] = call[d] /\ rd'[d] = rd[d]
        /\ call'[c] = r
    BY DEF TypeInv
  <1>3. r # None
    BY UnsetAssumption
  <1>4. rd' \in [Caller -> Read \cup {None}] /\ rd'[c] \in {f, None}
    BY DEF TypeInv
  <1>5. \A d \in Caller : rd'[d] # None =>
          rd'[d].values \in Values(rd'[d].path) /\ rd'[d].base \in Values(rd'[d].path) \cup {None}
    BY <1>2, <1>4 DEF TypeInv
  <1>6. \A d \in Caller : call'[d] # None /\ call'[d].load # None => call'[d].step # "findings"
    BY <1>2 DEF TypeInv
  <1>7. \A d \in Caller : rd'[d] # None => call'[d] # None /\ call'[d].load # None
    BY <1>2, <1>3 DEF TypeInv
  <1> QED
    BY <1>1, <1>4, <1>5, <1>6, <1>7 DEF TypeInv

\* What a request that asks is.
LEMMA AskingRequest ==
  ASSUME TypeInv, NEW c \in Caller, Asks(c)
  PROVE  /\ call[c] \in RequestState /\ call[c].load = None /\ call[c].step # "findings"
         /\ rd[c] = None
  BY DEF Asks, Waits, TypeInv

\* What a request is whose read has ended.
LEMMA FinishedRead ==
  ASSUME TypeInv, NEW c \in Caller, NEW path, Finished(c, path)
  PROVE  /\ call[c] \in RequestState /\ call[c].load \in LoadState /\ call[c].step # "findings"
         /\ rd[c] # None /\ rd[c] \in Read /\ rd[c].done /\ rd[c].path = path
         /\ rd[c].values \in Values(path) /\ rd[c].completed \in BOOLEAN
         /\ Present(rd[c].values) \subseteq Items(path)
  <1>1. /\ call[c] \in RequestState /\ call[c].load # None /\ call[c].step # "findings"
        /\ rd[c] # None /\ rd[c] \in Read /\ rd[c].done /\ rd[c].path = path
        /\ rd[c].values \in Values(path)
    BY DEF Finished, TypeInv
  <1>2. call[c].load \in LoadState /\ rd[c].completed \in BOOLEAN
    BY <1>1 DEF RequestState, Read
  <1>3. Present(rd[c].values) \subseteq Items(path)
    BY <1>1 DEF Present, Values
  <1> QED
    BY <1>1, <1>2, <1>3

\* The request after its users are in.
LEMMA UsersReadRequest ==
  ASSUME TypeInv, NEW c \in Caller, UsersRead(c)
  PROVE  \E r \in RequestState :
           /\ call' = [call EXCEPT ![c] = r]
           /\ r.load # None /\ r.load.users = Present(rd[c].values) /\ r.load.from = call[c].load.from
           /\ r.step = call[c].step /\ r.got = call[c].got /\ r.step # "findings"
  <1> DEFINE load == [call[c].load EXCEPT !.users = Present(rd[c].values),
                                          !.partial = @ \/ ~rd[c].completed]
             r == [call[c] EXCEPT !.load = load]
  <1>1. /\ call[c] \in RequestState /\ call[c].load \in LoadState /\ call[c].step # "findings"
        /\ rd[c].completed \in BOOLEAN /\ Present(rd[c].values) \subseteq Items("users")
    BY FinishedRead DEF UsersRead
  <1>2. Present(rd[c].values) \subseteq Item
    BY <1>1 DEF Items
  <1>3. load \in LoadState /\ load.users = Present(rd[c].values) /\ load.from = call[c].load.from
    BY <1>1, <1>2 DEF LoadState
  <1>4. load # None
    BY <1>3, UnsetAssumption
  <1>5. call' = [call EXCEPT ![c] = r]
    BY <1>1 DEF UsersRead, TypeInv
  <1> HIDE DEF load
  <1>6. r \in RequestState /\ r.load = load /\ r.step = call[c].step /\ r.got = call[c].got
    BY <1>1, <1>3 DEF RequestState
  <1> QED
    BY <1>1, <1>3, <1>4, <1>5, <1>6

\* The request after its applications are in.
LEMMA ApplicationsReadRequest ==
  ASSUME TypeInv, NEW c \in Caller, ApplicationsRead(c)
  PROVE  \E r \in RequestState :
           /\ call' = [call EXCEPT ![c] = r]
           /\ r.load # None /\ r.load.sps = Present(rd[c].values) /\ r.load.from = call[c].load.from
           /\ r.load.users = call[c].load.users
           /\ r.step = call[c].step /\ r.got = call[c].got /\ r.step # "findings"
  <1> DEFINE load == [call[c].load EXCEPT !.sps = Present(rd[c].values),
                                          !.partial = @ \/ ~rd[c].completed]
             r == [call[c] EXCEPT !.load = load]
  <1>1. /\ call[c] \in RequestState /\ call[c].load \in LoadState /\ call[c].step # "findings"
        /\ rd[c].completed \in BOOLEAN /\ Present(rd[c].values) \subseteq Items("sps")
    BY FinishedRead DEF ApplicationsRead
  <1>2. Present(rd[c].values) \subseteq Item
    BY <1>1 DEF Items
  <1>3. /\ load \in LoadState /\ load.sps = Present(rd[c].values) /\ load.from = call[c].load.from
        /\ load.users = call[c].load.users
    BY <1>1, <1>2 DEF LoadState
  <1>4. load # None
    BY <1>3, UnsetAssumption
  <1>5. call' = [call EXCEPT ![c] = r]
    BY <1>1 DEF ApplicationsRead, TypeInv
  <1> HIDE DEF load
  <1>6. r \in RequestState /\ r.load = load /\ r.step = call[c].step /\ r.got = call[c].got
    BY <1>1, <1>3 DEF RequestState
  <1> QED
    BY <1>1, <1>3, <1>4, <1>5, <1>6

\* The grants read, and those of them that are kept.
ReadGrants(c) == {g \in Present(rd[c].values) : targetOf[g] \in call[c].load.sps}
KeptGrants(c) == {g \in ReadGrants(c) : principalOf[g] \in call[c].load.users}

\* The request after its grants are in.
LEMMA AssignmentsReadRequest ==
  ASSUME TypeInv, NEW c \in Caller, AssignmentsRead(c)
  PROVE  \E r \in RequestState :
           /\ call' = [call EXCEPT ![c] = r]
           /\ r.load # None /\ r.load.sps = call[c].load.sps /\ r.load.from = call[c].load.from
           /\ r.step = call[c].step /\ r.got = KeptGrants(c) /\ r.step # "findings"
  <1> DEFINE load == [call[c].load EXCEPT !.partial = @ \/ ~rd[c].completed]
             r == [call[c] EXCEPT !.got = KeptGrants(c), !.load = load]
  <1>1. /\ call[c] \in RequestState /\ call[c].load \in LoadState /\ call[c].step # "findings"
        /\ rd[c].completed \in BOOLEAN /\ Present(rd[c].values) \subseteq Items("assignments")
    BY FinishedRead DEF AssignmentsRead
  <1>2. KeptGrants(c) \subseteq Item
    BY <1>1 DEF Items, KeptGrants, ReadGrants
  <1>3. load \in LoadState /\ load.sps = call[c].load.sps /\ load.from = call[c].load.from
    BY <1>1 DEF LoadState
  <1>4. load # None
    BY <1>3, UnsetAssumption
  <1>5. call' = [call EXCEPT ![c] = r]
    BY <1>1 DEF AssignmentsRead, TypeInv, KeptGrants, ReadGrants
  <1> HIDE DEF load
  <1>6. /\ r \in RequestState /\ r.load = load /\ r.step = call[c].step /\ r.got = KeptGrants(c)
    BY <1>1, <1>2, <1>3 DEF RequestState
  <1> QED
    BY <1>1, <1>3, <1>4, <1>5, <1>6


\* A load that begins: its request, and its first read.
LEMMA LoadRequest ==
  ASSUME TypeInv, NEW c \in Caller, Load(c)
  PROVE  \E r \in RequestState :
           /\ call' = [call EXCEPT ![c] = r]
           /\ r.load = Loaded /\ r.load # None /\ r.load.from = Len(log)
           /\ r.step = call[c].step /\ r.got = call[c].got /\ r.step # "findings"
           /\ rd' = [rd EXCEPT ![c] = readCollectionResult("users")]
           /\ warnings' = {} /\ UNCHANGED <<deltas, live, log, token, cache, run, overlapped, rejected>>
           /\ snapshot' = None
           /\ complete' \in BOOLEAN
           /\ complete' \/ (complete' = complete /\ snapshot = None)
           /\ snapshot = None \/ call[c].step = "subjects"
  <1> DEFINE r == [call[c] EXCEPT !.load = Loaded]
  <1>1. call[c] \in RequestState /\ call[c].step # "findings"
    BY AskingRequest DEF Load
  <1>2. Loaded \in LoadState /\ Loaded.from = Len(log)
    BY DEF Loaded, LoadState, TypeInv
  <1>3. Loaded # None
    BY <1>2, UnsetAssumption
  <1>4. r \in RequestState /\ r.load = Loaded /\ r.step = call[c].step /\ r.got = call[c].got
    BY <1>1, <1>2 DEF RequestState
  <1>5. /\ call' = [call EXCEPT ![c] = r] /\ rd' = [rd EXCEPT ![c] = readCollectionResult("users")]
        /\ warnings' = {} /\ snapshot' = None
        /\ UNCHANGED <<deltas, live, log, token, cache, run, overlapped, rejected>>
    BY DEF Load, LoadSnapshot, ResetAndLoad
  <1>6. /\ complete' \in BOOLEAN
        /\ complete' \/ (complete' = complete /\ snapshot = None)
        /\ snapshot = None \/ call[c].step = "subjects"
    <2>1. CASE StartsAfresh(c) /\ ResetAndLoad(c, call[c])
      BY <2>1 DEF StartsAfresh, ResetAndLoad
    <2>2. CASE snapshot = None /\ LoadSnapshot(c, call[c])
      BY <2>2 DEF LoadSnapshot, TypeInv
    <2> QED
      BY <2>1, <2>2 DEF Load
  <1> HIDE DEF r
  <1> QED
    BY <1>1, <1>2, <1>3, <1>4, <1>5, <1>6

\* The snapshot that a load makes.
Built(c) == [resources |-> call[c].load.sps, grants |-> call[c].got,
             from |-> call[c].load.from, partial |-> call[c].load.partial]

\* A load that ends: its snapshot, and its request.
LEMMA BuildRequest ==
  ASSUME TypeInv, NEW c \in Caller, BuildSnapshot(c)
  PROVE  LET q == [call[c] EXCEPT !.got = {}]
         IN  /\ Built(c) \in Snapshot /\ Built(c) # None /\ snapshot' = Built(c)
             /\ q \in RequestState /\ q.step = call[c].step /\ q.step # "findings" /\ q.got = {}
             /\ call' = [call EXCEPT ![c] = Use(q, Built(c))]
             /\ rd[c] = None
             /\ UNCHANGED <<readerVars, complete, run, overlapped, rejected>>
  <1>1. call[c] \in RequestState /\ call[c].load # None /\ call[c].step # "findings" /\ rd[c] = None
    BY DEF BuildSnapshot, Settling, TypeInv
  <1>2. call[c].load \in LoadState /\ call[c].got \subseteq Item
    BY <1>1 DEF RequestState
  <1>3. Built(c) \in Snapshot
    BY <1>2 DEF Built, Snapshot, LoadState
  <1>4. Built(c) # None
    BY <1>3, UnsetAssumption
  <1> DEFINE q == [call[c] EXCEPT !.got = {}]
  <1>5. q \in RequestState /\ q.step = call[c].step /\ q.got = {}
    BY <1>1 DEF RequestState
  <1>6. /\ call' = [call EXCEPT ![c] = Use(q, Built(c))] /\ snapshot' = Built(c)
        /\ UNCHANGED <<readerVars, complete, run, overlapped, rejected>>
    BY DEF BuildSnapshot, Built, TypeInv
  <1> QED
    BY <1>1, <1>3, <1>4, <1>5, <1>6

\* Every step keeps the records well-formed.
LEMMA TypeStep ==
  ASSUME TypeInv, [Next]_vars
  PROVE  TypeInv'
  <1>1. ASSUME NEW c \in Caller, Start(c)
        PROVE  TypeInv'
    <2>1. PICK op \in {"sync", "drift"} : call' = [call EXCEPT ![c] = Request(op)]
      BY <1>1 DEF Start
    <2>2. Request(op) \in RequestState /\ Request(op).load = None
      BY DEF Request, RequestState, Step
    <2>3. rd[c] = None
      BY <1>1 DEF Start, TypeInv
    <2>4. /\ UNCHANGED <<deltas, live, log, token, cache, rd>> /\ snapshot' = snapshot
          /\ complete' = complete /\ rejected' = rejected /\ overlapped' \in BOOLEAN
      BY <1>1 DEF Start, readerVars
    <2>5. snapshot' \in Snapshot \cup {None} /\ complete' \in BOOLEAN /\ rejected' \in BOOLEAN
      BY <2>4 DEF TypeInv
    <2> HIDE DEF Request
    <2> QED
      BY <2>1, <2>2, <2>3, <2>4, <2>5, RequestType
  <1>2. ASSUME NEW c \in Caller, Provider(c)
        PROVE  TypeInv'
    BY <1>2, ReaderType
  <1>3. ASSUME NEW c \in Caller, Reject(c)
        PROVE  TypeInv'
    BY <1>3 DEF Reject, TypeInv
  <1>4. ASSUME NEW c \in Caller, Answer(c)
        PROVE  TypeInv'
    <2>1. snapshot \in Snapshot
      BY <1>4 DEF Answer, TypeInv
    <2>2. call[c] \in RequestState /\ call[c].step # "findings" /\ rd[c] = None
      BY <1>4, AskingRequest DEF Answer
    <2>3. Use(call[c], snapshot) \in RequestState /\ Use(call[c], snapshot).load = None
      BY <2>1, <2>2, UseIsRequest
    <2>4. /\ call' = [call EXCEPT ![c] = Use(call[c], snapshot)] /\ snapshot' = snapshot
          /\ UNCHANGED <<deltas, live, log, token, cache, rd>>
          /\ complete' = complete /\ rejected' = rejected /\ overlapped' = overlapped
      BY <1>4 DEF Answer, readerVars
    <2>5. /\ snapshot' \in Snapshot \cup {None} /\ complete' \in BOOLEAN /\ rejected' \in BOOLEAN
          /\ overlapped' \in BOOLEAN
      BY <2>4 DEF TypeInv
    <2> QED
      BY <2>2, <2>3, <2>4, <2>5, RequestType
  <1>5. ASSUME NEW c \in Caller, Load(c)
        PROVE  TypeInv'
    <2>1. PICK r \in RequestState :
           /\ call' = [call EXCEPT ![c] = r]
           /\ r.load # None /\ r.step # "findings"
           /\ rd' = [rd EXCEPT ![c] = readCollectionResult("users")]
           /\ UNCHANGED <<deltas, live, log, token, cache, overlapped, rejected>>
           /\ snapshot' = None /\ complete' \in BOOLEAN
      BY <1>5, LoadRequest
    <2> DEFINE f == readCollectionResult("users")
    <2>2. "users" \in Path
      BY CollectionAssumption
    <2>3. f \in Read /\ f.values \in Values(f.path) /\ f.base \in Values(f.path) \cup {None}
      BY <2>2, ReadIsRead
    <2>4. overlapped' \in BOOLEAN /\ rejected' \in BOOLEAN /\ snapshot' \in Snapshot \cup {None}
      BY <2>1 DEF TypeInv
    <2> HIDE DEF f
    <2>5. rd' = [rd EXCEPT ![c] = f]
      BY <2>1 DEF f
    <2> QED
      BY <2>1, <2>3, <2>4, <2>5, LoadType
  <1>6. ASSUME NEW c \in Caller, UsersRead(c)
        PROVE  TypeInv'
    <2>1. PICK r \in RequestState :
            call' = [call EXCEPT ![c] = r] /\ r.load # None /\ r.step # "findings"
      BY <1>6, UsersReadRequest
    <2> DEFINE f == readCollectionResult("sps")
    <2>2. "sps" \in Path
      BY CollectionAssumption
    <2>3. f \in Read /\ f.values \in Values(f.path) /\ f.base \in Values(f.path) \cup {None}
      BY <2>2, ReadIsRead
    <2>4. /\ rd' = [rd EXCEPT ![c] = f]
          /\ UNCHANGED <<deltas, live, log, token, cache, snapshot, complete, overlapped, rejected>>
      BY <1>6 DEF UsersRead
    <2>5. /\ overlapped' \in BOOLEAN /\ rejected' \in BOOLEAN /\ complete' \in BOOLEAN
          /\ snapshot' \in Snapshot \cup {None}
      BY <2>4 DEF TypeInv
    <2> HIDE DEF f
    <2> QED
      BY <2>1, <2>3, <2>4, <2>5, LoadType
  <1>7. ASSUME NEW c \in Caller, ApplicationsRead(c)
        PROVE  TypeInv'
    <2>1. PICK r \in RequestState :
            call' = [call EXCEPT ![c] = r] /\ r.load # None /\ r.step # "findings"
      BY <1>7, ApplicationsReadRequest
    <2> DEFINE f == readCollectionResult("assignments")
    <2>2. "assignments" \in Path
      BY CollectionAssumption
    <2>3. f \in Read /\ f.values \in Values(f.path) /\ f.base \in Values(f.path) \cup {None}
      BY <2>2, ReadIsRead
    <2>4. /\ rd' = [rd EXCEPT ![c] = f] \/ rd' = [rd EXCEPT ![c] = None]
          /\ UNCHANGED <<deltas, live, log, token, cache, snapshot, complete, overlapped, rejected>>
      BY <1>7 DEF ApplicationsRead
    <2>5. /\ overlapped' \in BOOLEAN /\ rejected' \in BOOLEAN /\ complete' \in BOOLEAN
          /\ snapshot' \in Snapshot \cup {None}
      BY <2>4 DEF TypeInv
    <2> HIDE DEF f
    <2> QED
      BY <2>1, <2>3, <2>4, <2>5, LoadType
  <1>8. ASSUME NEW c \in Caller, AssignmentsRead(c)
        PROVE  TypeInv'
    <2>1. PICK r \in RequestState :
            call' = [call EXCEPT ![c] = r] /\ r.load # None /\ r.step # "findings"
      BY <1>8, AssignmentsReadRequest
    <2>2. /\ rd[c] \in Read /\ rd[c].values \in Values(rd[c].path)
          /\ rd[c].base \in Values(rd[c].path) \cup {None} /\ rd[c].completed \in BOOLEAN
      BY <1>8, FinishedRead DEF AssignmentsRead, TypeInv
    <2>3. /\ rd' = [rd EXCEPT ![c] = None] /\ complete' = ReadbackComplete(c)
          /\ UNCHANGED <<deltas, live, log, token, cache, snapshot, overlapped, rejected>>
      BY <1>8 DEF AssignmentsRead
    <2>4. /\ overlapped' \in BOOLEAN /\ rejected' \in BOOLEAN /\ complete' \in BOOLEAN
          /\ snapshot' \in Snapshot \cup {None}
      BY <2>2, <2>3 DEF TypeInv, ReadbackComplete
    <2> QED
      BY <2>1, <2>2, <2>3, <2>4, LoadType
  <1>9. ASSUME NEW c \in Caller, BuildSnapshot(c)
        PROVE  TypeInv'
    <2> DEFINE q == [call[c] EXCEPT !.got = {}]
    <2>1. /\ Built(c) \in Snapshot /\ snapshot' = Built(c)
          /\ q \in RequestState /\ q.step # "findings"
          /\ call' = [call EXCEPT ![c] = Use(q, Built(c))]
          /\ rd[c] = None /\ UNCHANGED <<readerVars, complete, overlapped, rejected>>
      BY <1>9, BuildRequest
    <2> HIDE DEF q
    <2>2. Use(q, Built(c)) \in RequestState /\ Use(q, Built(c)).load = None
      BY <2>1, UseIsRequest
    <2>3. /\ UNCHANGED <<deltas, live, log, token, cache, rd>>
          /\ complete' \in BOOLEAN /\ overlapped' \in BOOLEAN /\ rejected' \in BOOLEAN
          /\ snapshot' \in Snapshot \cup {None}
      BY <2>1 DEF readerVars, TypeInv
    <2> QED
      BY <2>1, <2>2, <2>3, RequestType
  <1>10. ASSUME NEW c \in Caller, FinishSync(c) \/ FinishDrift(c)
         PROVE  TypeInv'
    <2>1. /\ call' = [call EXCEPT ![c] = None] /\ rd[c] = None
          /\ UNCHANGED <<deltas, live, log, token, cache, rd, snapshot, complete, overlapped, rejected>>
      BY <1>10 DEF FinishSync, FinishDrift, Waits, readerVars, TypeInv
    <2> QED
      BY <2>1 DEF TypeInv
  <1>11. CASE ProviderChange
    <2>1. PICK i \in Item : /\ log' = Append(log, i)
                            /\ live' = IF i \in live THEN live \ {i} ELSE live \cup {i}
      BY <1>11 DEF ProviderChange, Change
    <2>2. log' \in Seq(Item) /\ live' \subseteq Item
      BY <2>1 DEF TypeInv
    <2>3. UNCHANGED <<deltas, token, cache, rd, snapshot, call, complete, overlapped, rejected>>
      BY <1>11 DEF ProviderChange, Change, syncVars
    <2> QED
      BY <2>2, <2>3 DEF TypeInv
  <1>12. CASE UNCHANGED vars
    BY <1>12 DEF vars, readerVars, syncVars, TypeInv
  <1> QED
    BY <1>1, <1>2, <1>3, <1>4, <1>5, <1>6, <1>7, <1>8, <1>9, <1>10, <1>11, <1>12 DEF Next, Continue


-----------------------------------------------------------------------------
(* The delta state *)

\* A page makes the read right about the items it delivers.
LEMMA TakenIsRight ==
  ASSUME NEW f \in Read, f.values \in Values(f.path), ~f.done, ReadInv(f),
         NEW s \in SUBSET f.left, NEW i \in Items(f.path), i \notin f.left \ s, Steady(f.start, i)
  PROVE  (IF f.base # None /\ Taken(f, s)[i] = "none" THEN f.base[i] ELSE Taken(f, s)[i]) = "live"
           <=> i \in live
  <1>1. Taken(f, s)[i] = IF i \in s /\ (f.base # None \/ i \in live) THEN Delivered(i) ELSE f.values[i]
    BY TakenIsValues
  <1>2. CASE i \in s
    <2>1. f.values[i] = "none"
      BY <1>2 DEF ReadInv
    <2> QED
      BY <1>1, <1>2, <2>1 DEF Delivered
  <1>3. CASE i \notin s
    <2>1. i \notin f.left
      BY <1>3
    <2> QED
      BY <1>1, <1>3, <2>1 DEF ReadInv, ResultOf
  <1> QED
    BY <1>2, <1>3

\* With its last page the read is right.
LEMMA MergedIsRight ==
  ASSUME NEW f \in Read, f.values \in Values(f.path), f.base \in Values(f.path) \cup {None},
         ~f.done, ReadInv(f)
  PROVE  Right(f.path, Merged(f), f.start)
  <1> SUFFICES ASSUME NEW i \in Items(f.path), Steady(f.start, i)
               PROVE  Merged(f)[i] = "live" <=> i \in live
    BY DEF Right
  <1>1. (IF f.base # None /\ Taken(f, f.left)[i] = "none" THEN f.base[i] ELSE Taken(f, f.left)[i]) = "live"
          <=> i \in live
    BY TakenIsRight
  <1>2. CASE f.base = None
    BY <1>1, <1>2 DEF Merged
  <1>3. CASE f.base # None
    <2>1. i \in DOMAIN f.base
      BY <1>3 DEF Values
    <2> QED
      BY <1>1, <1>3, <2>1 DEF Merged, applyGraphDeltaChanges
  <1> QED
    BY <1>2, <1>3

\* A read that begins is right about what it does not wait for: a full one waits for all
\* that there is, an incremental one for all that changed since the token.
LEMMA FreshRead ==
  ASSUME TypeInv, TokenInv, NEW path \in Path
  PROVE  ReadInv(readCollectionResult(path))
  <1>1. Len(log) \in Nat /\ Len(log) <= Len(log)
    BY DEF TypeInv
  <1>2. CASE token[path] # None /\ cache[path] # None
    <2> DEFINE f == Frame(path, cache[path], token[path])
    <2>1. /\ f.path = path /\ f.base = cache[path] /\ f.start = Len(log) /\ ~f.done
          /\ \A i \in Items(path) : f.values[i] = "none"
          /\ f.left = ChangedSince(path, token[path])
      BY <1>2, FrameFields
    <2>2. path \in DeltaPath /\ Right(path, cache[path], token[path])
      BY <1>2 DEF TokenInv
    <2>3. readCollectionResult(path) = f
      BY <1>2 DEF readCollectionResult
    <2> HIDE DEF f
    <2>4. \A i \in Items(path) \ f.left : ResultOf(f, i) = "live" <=> i \in live
      BY <1>2, <2>1, <2>2, ChangedIsNotSteady DEF ResultOf, Right
    <2> QED
      BY <1>1, <1>2, <2>1, <2>2, <2>3, <2>4 DEF ReadInv
  <1>3. CASE ~(token[path] # None /\ cache[path] # None)
    <2> DEFINE f == Frame(path, None, 0)
    <2>1. /\ f.path = path /\ f.base = None /\ f.start = Len(log) /\ ~f.done
          /\ \A i \in Items(path) : f.values[i] = "none"
          /\ f.left = live \cap Items(path)
      BY FrameFields
    <2>2. token[path] = None
      BY <1>3 DEF TokenInv
    <2>3. readCollectionResult(path) = f
      BY <1>3 DEF readCollectionResult
    <2> HIDE DEF f
    <2>4. \A i \in Items(path) \ f.left : ResultOf(f, i) = "live" <=> i \in live
      BY <2>1 DEF ResultOf
    <2> QED
      BY <1>1, <2>1, <2>2, <2>3, <2>4 DEF ReadInv
  <1> QED
    BY <1>2, <1>3

\* A read that starts again is one that begins.
LEMMA FullRead ==
  ASSUME TypeInv, NEW path \in Path, UNCHANGED <<live, log>>, token'[path] = None,
         NEW f, f = Frame(path, None, 0)
  PROVE  ReadInv(f)'
  <1>1. Len(log) \in Nat /\ Len(log) <= Len(log)
    BY DEF TypeInv
  <1>2. /\ f.path = path /\ f.base = None /\ f.start = Len(log) /\ ~f.done
        /\ \A i \in Items(path) : f.values[i] = "none"
        /\ f.left = live \cap Items(path)
    BY FrameFields
  <1>3. \A i \in Items(path) \ f.left : ResultOf(f, i) = "live" <=> i \in live
    BY <1>2 DEF ResultOf
  <1> QED
    BY <1>1, <1>2, <1>3 DEF ReadInv, ResultOf

\* What is right stays right as long as the provider changes nothing.
LEMMA RightKept ==
  ASSUME UNCHANGED <<live, log>>, NEW path, NEW values, NEW position
  PROVE  Right(path, values, position)' <=> Right(path, values, position)
  BY DEF Right, Steady

\* A step that leaves the provider and the tokens alone keeps what is known of a read.
LEMMA ReadKept ==
  ASSUME UNCHANGED <<live, log, token>>, NEW f
  PROVE  ReadInv(f)' <=> ReadInv(f)
  BY DEF ReadInv, Right, Steady, ResultOf

\* A read of the only call keeps the delta state.
LEMMA DeltaReader ==
  ASSUME TypeInv, DeltaInv, NEW c \in Caller, Provider(c)
  PROVE  DeltaInv'
  <1> DEFINE f == rd[c]
  <1>1. rd[c] # None => rd[c] \in Read /\ rd[c].values \in Values(rd[c].path)
                        /\ rd[c].base \in Values(rd[c].path) \cup {None}
    BY DEF TypeInv
  <1>2. /\ Reading(c) /\ UNCHANGED <<deltas, live, log>> /\ UNCHANGED syncVars
        /\ GoesOn(c) \/ StartsAgain(c) \/ EndsEarly(c) \/ EndsWell(c)
    BY <1>1, ReaderCases DEF Provider
  <1>3. /\ f # None /\ f \in Read /\ f.values \in Values(f.path) /\ ~f.done
        /\ f.base \in Values(f.path) \cup {None} /\ f.path \in Path /\ f.start \in Nat
        /\ f.start <= Len(log)
    BY <1>1, <1>2 DEF Reading, Read, DeltaInv, ReadInv
  <1>4. ReadInv(f)
    BY <1>3 DEF DeltaInv
  <1>5. \A d \in Caller : d # c => rd[d] = None
    BY <1>3 DEF TypeInv, DeltaInv, AloneInv
  <1>6. AloneInv'
    BY <1>2 DEF AloneInv, DeltaInv, syncVars
  <1>7. ASSUME NEW g, rd' = [rd EXCEPT ![c] = g], ReadInv(g)', TokenInv'
        PROVE  DeltaInv'
    <2>1. \A d \in Caller : rd'[d] # None => rd'[d] = g
      BY <1>5, <1>7 DEF TypeInv
    <2> QED
      BY <1>6, <1>7, <2>1 DEF DeltaInv
  <1>8. CASE GoesOn(c)
    <2>1. PICK s \in SUBSET f.left, g \in Read :
            /\ g.path = f.path /\ g.base = f.base /\ g.start = f.start
            /\ g.left = f.left \ s /\ g.values = Taken(f, s) /\ ~g.done
            /\ rd' = [rd EXCEPT ![c] = g] /\ UNCHANGED <<token, cache>>
      BY <1>8 DEF GoesOn
    <2>2. TokenInv'
      BY <1>2, <2>1 DEF DeltaInv, TokenInv, Right, Steady
    <2>3. \A i \in Items(f.path) \ g.left : Steady(f.start, i) => (ResultOf(g, i) = "live" <=> i \in live)
      BY <1>3, <1>4, <2>1, TakenIsRight DEF ResultOf
    <2>4. \A i \in Items(f.path) : i \in g.left => g.values[i] = "none"
      <3> SUFFICES ASSUME NEW i \in Items(f.path), i \in f.left, i \notin s
                   PROVE  Taken(f, s)[i] = "none"
        BY <2>1
      <3>1. f.values[i] = "none"
        BY <1>3, <1>4 DEF ReadInv
      <3> QED
        BY <1>3, <3>1, TakenIsValues
    <2>5. ReadInv(g)
      BY <1>3, <1>4, <2>1, <2>3, <2>4 DEF ReadInv
    <2> QED
      BY <1>2, <1>7, <2>1, <2>2, <2>5, ReadKept
  <1>9. CASE StartsAgain(c)
    <2>1. /\ rd' = [rd EXCEPT ![c] = Frame(f.path, None, 0)]
          /\ token' = [token EXCEPT ![f.path] = None] /\ cache' = cache
      BY <1>9 DEF StartsAgain
    <2>2. /\ token'[f.path] = None
          /\ \A path \in Path : path # f.path => token'[path] = token[path]
      BY <1>3, <2>1 DEF TypeInv
    <2>3. TokenInv'
      BY <1>2, <2>1, <2>2, RightKept DEF DeltaInv, TokenInv
    <2>4. PICK p \in Path : p = f.path
      BY <1>3
    <2>5. PICK g : g = Frame(p, None, 0)
      OBVIOUS
    <2>6. ReadInv(g)'
      BY <1>2, <2>2, <2>4, <2>5, FullRead
    <2> QED
      BY <1>7, <2>1, <2>3, <2>4, <2>5, <2>6
  <1>10. CASE EndsEarly(c)
    <2>1. PICK s \in SUBSET f.left :
            /\ f.base = None
            /\ rd' = [rd EXCEPT ![c] = Done(f, Taken(f, s), FALSE)]
            /\ cache' = cacheCollection(f.path, Taken(f, s))
            /\ token' = token
      BY <1>10 DEF EndsEarly
    <2>2. token[f.path] = None
      BY <1>3, <1>4, <2>1 DEF ReadInv
    <2>3. \A path \in Path : path # f.path => cache'[path] = cache[path]
      BY <1>3, <2>1 DEF TypeInv, cacheCollection
    <2>4. TokenInv'
      BY <1>2, <2>1, <2>2, <2>3, RightKept DEF DeltaInv, TokenInv
    <2>5. PICK g : g = Done(f, Taken(f, s), FALSE)
      OBVIOUS
    <2>6. g.done /\ g.completed = FALSE /\ g.start = f.start
      BY <1>3, <2>5, TakenIsValues, DoneIsRead
    <2> HIDE DEF f
    <2>7. ReadInv(g)
      BY <1>3, <2>6 DEF ReadInv
    <2> QED
      BY <1>2, <1>7, <2>1, <2>4, <2>5, <2>7, ReadKept
  <1>11. CASE EndsWell(c)
    <2>1. PICK delta \in BOOLEAN :
            /\ f.base # None => delta
            /\ delta => f.path \in DeltaPath /\ deltas
            /\ rd' = [rd EXCEPT ![c] = Done(f, Merged(f), TRUE)]
            /\ token' = IF delta THEN [token EXCEPT ![f.path] = f.start] ELSE token
            /\ cache' = cacheCollection(f.path, Merged(f))
      BY <1>11 DEF EndsWell
    <2>2. Right(f.path, Merged(f), f.start) /\ Merged(f) \in Values(f.path)
      BY <1>3, <1>4, MergedIsRight, MergedIsValues
    <2>3. \A path \in Path : path # f.path => cache'[path] = cache[path] /\ token'[path] = token[path]
      BY <1>3, <2>1 DEF TypeInv, cacheCollection
    <2>4. token'[f.path] # None => /\ f.path \in DeltaPath /\ cache'[f.path] = Merged(f)
                                   /\ token'[f.path] = f.start
      <3>1. CASE delta
        BY <1>3, <2>1, <3>1 DEF TypeInv, cacheCollection
      <3>2. CASE ~delta
        BY <1>3, <1>4, <2>1, <3>2 DEF ReadInv
      <3> QED
        BY <3>1, <3>2
    <2>5. Merged(f) # None
      BY <1>3, <2>2, NoneAssumption
    <2>6. TokenInv'
      <3> SUFFICES ASSUME NEW path \in Path, token'[path] # None
                   PROVE  /\ path \in DeltaPath /\ token'[path] <= Len(log') /\ cache'[path] # None
                          /\ Right(path, cache[path], token[path])'
        BY DEF TokenInv
      <3>1. CASE path = f.path
        BY <1>2, <1>3, <2>2, <2>4, <2>5, <3>1 DEF Right, Steady
      <3>2. CASE path # f.path
        BY <1>2, <2>3, <3>2 DEF DeltaInv, TokenInv, Right, Steady
      <3> QED
        BY <3>1, <3>2
    <2>7. PICK g : g = Done(f, Merged(f), TRUE)
      OBVIOUS
    <2>8. g.done /\ g.completed = TRUE /\ g.start = f.start /\ g.path = f.path /\ g.values = Merged(f)
      BY <1>3, <2>2, <2>7, DoneIsRead
    <2> HIDE DEF f
    <2>9. Right(g.path, g.values, g.start)
      BY <2>2, <2>8
    <2>10. ReadInv(g)'
      BY <1>2, <1>3, <2>8, <2>9 DEF ReadInv, Right, Steady
    <2> QED
      BY <1>7, <2>1, <2>6, <2>7, <2>10
  <1> QED
    BY <1>2, <1>8, <1>9, <1>10, <1>11


\* Every step of calls that do not overlap keeps the delta state.
LEMMA DeltaStep ==
  ASSUME TypeInv, DeltaInv, [Next]_vars, ~overlapped'
  PROVE  DeltaInv'
  <1>1. ASSUME UNCHANGED <<live, log, token, cache>>, AloneInv',
               \A d \in Caller : rd'[d] \in {rd[d], None}
                                   \/ \E path \in Path : rd'[d] = readCollectionResult(path)
        PROVE  DeltaInv'
    <2>1. TokenInv'
      BY <1>1, RightKept DEF DeltaInv, TokenInv
    <2>2. ASSUME NEW d \in Caller, rd'[d] # None
          PROVE  ReadInv(rd[d])'
      <3>1. PICK f : f = rd'[d]
        OBVIOUS
      <3>2. ReadInv(f)
        BY <1>1, <2>2, <3>1, FreshRead DEF DeltaInv
      <3>3. ReadInv(f)'
        BY <1>1, <3>2, ReadKept
      <3> QED
        BY <3>1, <3>3
    <2> QED
      BY <1>1, <2>1, <2>2 DEF DeltaInv
  <1>2. ASSUME UNCHANGED <<live, log, token, cache, rd>>, AloneInv'
        PROVE  DeltaInv'
    BY <1>1, <1>2
  <1>3. ASSUME NEW c \in Caller, NEW r, call' = [call EXCEPT ![c] = r], call[c] # None \/ r = None
        PROVE  AloneInv'
    BY <1>3 DEF TypeInv, DeltaInv, AloneInv
  <1>4. {"users", "sps", "assignments"} \subseteq Path
    BY CollectionAssumption
  <1>5. ASSUME NEW c \in Caller, Start(c)
        PROVE  DeltaInv'
    <2>1. \A d \in Caller : call[d] = None
      BY <1>5 DEF Start, TypeInv
    <2>2. AloneInv'
      BY <1>5, <2>1 DEF Start, TypeInv, AloneInv
    <2> QED
      BY <1>2, <1>5, <2>2 DEF Start, readerVars
  <1>6. ASSUME NEW c \in Caller, Provider(c)
        PROVE  DeltaInv'
    BY <1>6, DeltaReader
  <1>7. ASSUME NEW c \in Caller, Reject(c)
        PROVE  DeltaInv'
    <2>1. AloneInv'
      BY <1>7 DEF Reject, TypeInv, DeltaInv, AloneInv
    <2>2. \A d \in Caller : rd'[d] \in {rd[d], None}
      BY <1>7 DEF Reject, TypeInv
    <2> QED
      BY <1>1, <1>7, <2>1, <2>2 DEF Reject
  <1>8. ASSUME NEW c \in Caller, Answer(c)
        PROVE  DeltaInv'
    <2>1. call[c] # None /\ call' = [call EXCEPT ![c] = Use(call[c], snapshot)]
      BY <1>8 DEF Answer, Asks, Waits
    <2>2. AloneInv'
      BY <2>1 DEF TypeInv, DeltaInv, AloneInv
    <2> QED
      BY <1>2, <1>8, <2>2 DEF Answer, readerVars
  <1>9. ASSUME NEW c \in Caller, Load(c)
        PROVE  DeltaInv'
    <2>1. PICK r \in RequestState :
           /\ call' = [call EXCEPT ![c] = r]
           /\ rd' = [rd EXCEPT ![c] = readCollectionResult("users")]
           /\ UNCHANGED <<live, log, token, cache>>
      BY <1>9, LoadRequest
    <2>2. call[c] # None
      BY <1>9 DEF Load, Asks, Waits
    <2>3. \A d \in Caller : rd'[d] \in {rd[d], None, readCollectionResult("users")}
      BY <2>1 DEF TypeInv
    <2> QED
      BY <1>1, <1>3, <1>4, <2>1, <2>2, <2>3
  <1>10. ASSUME NEW c \in Caller, UsersRead(c)
         PROVE  DeltaInv'
    <2>1. PICK r \in RequestState : call' = [call EXCEPT ![c] = r]
      BY <1>10, UsersReadRequest
    <2>2. /\ call[c] # None /\ rd' = [rd EXCEPT ![c] = readCollectionResult("sps")]
          /\ UNCHANGED <<live, log, token, cache>>
      BY <1>10 DEF UsersRead, Finished
    <2>3. \A d \in Caller : rd'[d] \in {rd[d], None, readCollectionResult("sps")}
      BY <2>2 DEF TypeInv
    <2> QED
      BY <1>1, <1>3, <1>4, <2>1, <2>2, <2>3
  <1>11. ASSUME NEW c \in Caller, ApplicationsRead(c)
         PROVE  DeltaInv'
    <2>1. PICK r \in RequestState : call' = [call EXCEPT ![c] = r]
      BY <1>11, ApplicationsReadRequest
    <2>2. /\ call[c] # None /\ UNCHANGED <<live, log, token, cache>>
          /\ \/ rd' = [rd EXCEPT ![c] = readCollectionResult("assignments")]
             \/ rd' = [rd EXCEPT ![c] = None]
      BY <1>11 DEF ApplicationsRead, Finished
    <2>3. \A d \in Caller : rd'[d] \in {rd[d], None, readCollectionResult("assignments")}
      BY <2>2 DEF TypeInv
    <2> QED
      BY <1>1, <1>3, <1>4, <2>1, <2>2, <2>3
  <1>12. ASSUME NEW c \in Caller, AssignmentsRead(c)
         PROVE  DeltaInv'
    <2>1. PICK r \in RequestState : call' = [call EXCEPT ![c] = r]
      BY <1>12, AssignmentsReadRequest
    <2>2. /\ call[c] # None /\ UNCHANGED <<live, log, token, cache>>
          /\ rd' = [rd EXCEPT ![c] = None]
      BY <1>12 DEF AssignmentsRead, Finished
    <2>3. \A d \in Caller : rd'[d] \in {rd[d], None}
      BY <2>2 DEF TypeInv
    <2> QED
      BY <1>1, <1>3, <2>1, <2>2, <2>3
  <1>13. ASSUME NEW c \in Caller, BuildSnapshot(c)
         PROVE  DeltaInv'
    <2>1. /\ call[c] # None /\ UNCHANGED readerVars
          /\ \E r : call' = [call EXCEPT ![c] = r]
      BY <1>13 DEF BuildSnapshot, Settling
    <2> QED
      BY <1>2, <1>3, <2>1 DEF readerVars
  <1>14. ASSUME NEW c \in Caller, FinishSync(c) \/ FinishDrift(c)
         PROVE  DeltaInv'
    <2>1. call' = [call EXCEPT ![c] = None] /\ UNCHANGED readerVars
      BY <1>14 DEF FinishSync, FinishDrift
    <2> QED
      BY <1>2, <1>3, <2>1 DEF readerVars
  <1>15. CASE ProviderChange
    <2>1. PICK i \in Item : /\ log' = Append(log, i)
                            /\ live' = IF i \in live THEN live \ {i} ELSE live \cup {i}
      BY <1>15 DEF ProviderChange, Change
    <2>2. UNCHANGED <<deltas, token, cache, rd, warnings>> /\ UNCHANGED syncVars
      BY <1>15 DEF ProviderChange, Change
    <2>3. log \in Seq(Item) /\ Len(log) \in Nat /\ Len(log') = Len(log) + 1
      BY <2>1 DEF TypeInv
    <2>4. \A j : j # i => (j \in live' <=> j \in live)
      BY <2>1
    <2>5. \A p \in Nat : p <= Len(log) => p <= Len(log')
      BY <2>3
    <2>6. \A p \in Nat : \A j : p <= Len(log) => (Steady(p, j)' => Steady(p, j) /\ j # i)
      BY <2>1, <2>3, SteadyAfterChange
    <2>7. ASSUME NEW path, NEW values, NEW p \in Nat, p <= Len(log), Right(path, values, p)
          PROVE  Right(path, values, p)'
      BY <2>4, <2>6, <2>7 DEF Right
    <2>8. TokenInv'
      <3> SUFFICES ASSUME NEW path \in Path, token[path] # None
                   PROVE  /\ path \in DeltaPath /\ token[path] <= Len(log') /\ cache[path] # None
                          /\ Right(path, cache[path], token[path])'
        BY <2>2 DEF TokenInv
      <3>1. PICK p \in Nat : p = token[path]
        BY DEF TypeInv
      <3>2. PICK values : values = cache[path]
        OBVIOUS
      <3>3. path \in DeltaPath /\ p <= Len(log) /\ values # None /\ Right(path, values, p)
        BY <3>1, <3>2 DEF DeltaInv, TokenInv
      <3>4. Right(path, values, p)' /\ p <= Len(log')
        BY <2>5, <2>7, <3>3
      <3> QED
        BY <2>2, <3>1, <3>2, <3>3, <3>4
    <2>9. ASSUME NEW c \in Caller, rd[c] # None
          PROVE  ReadInv(rd[c])'
      <3>1. PICK f \in Read : f = rd[c]
        BY <2>9 DEF TypeInv
      <3>2. ReadInv(f) /\ f.start \in Nat
        BY <2>9, <3>1 DEF DeltaInv, Read
      <3>3. f.start <= Len(log) /\ f.start <= Len(log')
        BY <2>5, <3>2 DEF ReadInv
      <3>4. f.done /\ f.completed => Right(f.path, f.values, f.start)'
        BY <2>7, <3>2, <3>3 DEF ReadInv
      <3>5. ReadInv(f)'
        BY <2>2, <2>4, <2>6, <3>2, <3>3, <3>4 DEF ReadInv, ResultOf
      <3> QED
        BY <2>2, <3>1, <3>5
    <2>10. AloneInv'
      BY <2>2 DEF syncVars, DeltaInv, AloneInv
    <2> QED
      BY <2>2, <2>8, <2>9, <2>10 DEF DeltaInv
  <1>16. CASE UNCHANGED vars
    <2>1. AloneInv'
      BY <1>16 DEF vars, syncVars, DeltaInv, AloneInv
    <2> QED
      BY <1>2, <1>16, <2>1 DEF vars, readerVars
  <1> QED
    BY <1>5, <1>6, <1>7, <1>8, <1>9, <1>10, <1>11, <1>12, <1>13, <1>14, <1>15, <1>16 DEF Next, Continue


-----------------------------------------------------------------------------
(* What a run misses *)

\* The other calls are not there.
LEMMA OthersIdle ==
  ASSUME TypeInv, AloneInv, NEW c \in Caller, call[c] # None, NEW d \in Caller, d # c
  PROVE  call[d] = None /\ rd[d] = None
  BY DEF TypeInv, AloneInv

\* What the invariant asks of the state when one call is all there is.
LEMMA OneCall ==
  ASSUME NEW c \in Caller, \A d \in Caller : d # c => call'[d] = None,
         run'.missed \/ run'.stale => run'.warned,
         snapshot' = None /\ ~(call'[c] # None /\ call'[c].load # None) => complete',
         warnings' = {} => complete',
         SnapshotInv',
         call'[c] # None /\ call'[c].load # None => LoadInv(c)',
         call'[c] # None /\ call'[c].load = None => RequestInv(c)'
  PROVE  LossInv'
  BY DEF LossInv, Loads

\* What is known stays known as long as the provider changes nothing.
LEMMA KnownKept ==
  ASSUME UNCHANGED <<live, log>>, NEW path, NEW known, NEW position
  PROVE  /\ Knows(path, known, position)' <=> Knows(path, known, position)
         /\ RightGrants(known, position)' <=> RightGrants(known, position)
  BY DEF Knows, RightGrants, SteadyGrant, Steady

\* A completed read of users or applications knows all that were there all the time.
LEMMA ReadKnows ==
  ASSUME TypeInv, NEW f \in Read, ReadInv(f), f.done, f.completed, f.values \in Values(f.path),
         NEW from \in Nat, from <= f.start
  PROVE  Knows(f.path, Present(f.values), from)
  <1> SUFFICES ASSUME NEW i \in Items(f.path), Steady(from, i), i \in live
               PROVE  i \in Present(f.values)
    BY DEF Knows
  <1>1. log \in Seq(Item) /\ f.start \in Nat
    BY DEF TypeInv, Read
  <1>2. Steady(f.start, i)
    BY <1>1, SteadyLater
  <1>3. f.values[i] = "live"
    BY <1>2 DEF ReadInv, Right
  <1>4. i \in DOMAIN f.values
    BY DEF Values
  <1> QED
    BY <1>3, <1>4 DEF Present

\* The grants that a completed read keeps are right, if users and applications are known and
\* no grant was dropped.
LEMMA KeptAreRight ==
  ASSUME TypeInv, NEW c \in Caller, rd[c] \in Read, ReadInv(rd[c]), rd[c].done, rd[c].completed,
         rd[c].path = "assignments", rd[c].values \in Values("assignments"),
         \A i \in Grants : rd[c].values[i] # "deleted",
         call[c].load.from \in Nat, call[c].load.from <= rd[c].start,
         Knows("sps", call[c].load.sps, call[c].load.from),
         KeptGrants(c) = ReadGrants(c)
  PROVE  RightGrants(KeptGrants(c), call[c].load.from)
  <1>1. Knows("assignments", Present(rd[c].values), call[c].load.from)
    BY ReadKnows
  <1>2. ASSUME NEW g \in Grants, SteadyGrant(call[c].load.from, g),
               {g, principalOf[g], targetOf[g]} \subseteq live
        PROVE  g \in KeptGrants(c)
    <2>1. targetOf[g] \in Items("sps")
      BY CollectionAssumption
    <2>2. targetOf[g] \in call[c].load.sps
      BY <1>2, <2>1 DEF Knows, SteadyGrant
    <2>3. g \in Present(rd[c].values)
      BY <1>1, <1>2 DEF Knows, SteadyGrant, Grants
    <2> QED
      BY <2>2, <2>3 DEF ReadGrants
  <1>3. ASSUME NEW g \in KeptGrants(c), Steady(call[c].load.from, g)
        PROVE  g \in live
    <2>1. g \in DOMAIN rd[c].values /\ rd[c].values[g] # "none"
      BY <1>3 DEF KeptGrants, ReadGrants, Present
    <2>2. g \in Grants /\ rd[c].values[g] = "live"
      BY <2>1 DEF Values, Grants
    <2>3. log \in Seq(Item) /\ rd[c].start \in Nat
      BY DEF TypeInv, Read
    <2>4. Steady(rd[c].start, g)
      BY <1>3, <2>3, SteadyLater
    <2> QED
      BY <2>2, <2>4 DEF ReadInv, Right, Grants
  <1> QED
    BY <1>2, <1>3 DEF RightGrants


\* A call that begins has nothing, and nobody else is there.
LEMMA LossStart ==
  ASSUME TypeInv, AloneInv, LossInv, NEW c \in Caller, Start(c), ~overlapped'
  PROVE  LossInv'
  <1>1. \A d \in Caller : call[d] = None
    BY DEF Start, TypeInv
  <1>2. PICK op \in {"sync", "drift"} : call' = [call EXCEPT ![c] = Request(op)]
    BY DEF Start
  <1>3. /\ Request(op).load = None /\ Request(op).got = {}
        /\ Request(op).step \in {"subjects", "drift"}
    BY DEF Request
  <1> HIDE DEF Request
  <1>4. call'[c] = Request(op) /\ \A d \in Caller : d # c => call'[d] = None
    BY <1>1, <1>2 DEF TypeInv
  <1>5. /\ run' = NoRun /\ snapshot' = snapshot /\ complete' = complete
        /\ warnings' = warnings /\ UNCHANGED <<live, log>>
    BY DEF Start, readerVars
  <1>6. RequestInv(c)'
    BY <1>3, <1>4 DEF RequestInv
  <1>7. SnapshotInv'
    BY <1>5, KnownKept DEF LossInv, SnapshotInv, On
  <1>8. (snapshot' = None => complete') /\ (warnings' = {} => complete')
    BY <1>1, <1>5 DEF LossInv, Loads
  <1>9. ~(run'.missed \/ run'.stale)
    BY <1>5 DEF NoRun
  <1> QED
    BY <1>3, <1>4, <1>6, <1>7, <1>8, <1>9, OneCall

\* A call that uses the snapshot.
LEMMA LossAnswer ==
  ASSUME TypeInv, AloneInv, LossInv, NEW c \in Caller, Answer(c)
  PROVE  LossInv'
  <1>1. /\ call[c] \in RequestState /\ call[c].load = None /\ call[c].step # "findings"
        /\ call[c] # None /\ rd[c] = None
    BY AskingRequest DEF Answer, Asks, Waits
  <1>2. snapshot \in Snapshot /\ snapshot # None
    BY DEF Answer, TypeInv
  <1>3. /\ run' = run /\ snapshot' = snapshot /\ complete' = complete
        /\ warnings' = warnings /\ UNCHANGED <<live, log>>
        /\ call' = [call EXCEPT ![c] = Use(call[c], snapshot)]
    BY DEF Answer, readerVars
  <1>4. PICK r : r = call[c]
    OBVIOUS
  <1>5. PICK u : u = Use(call[c], snapshot)
    OBVIOUS
  <1>6. PICK s \in Snapshot : s = snapshot
    BY <1>2
  <1>7. call'[c] = u /\ \A d \in Caller : d # c => call'[d] = None
    BY <1>1, <1>3, <1>5, OthersIdle DEF TypeInv
  <1>8. /\ u \in RequestState /\ u.load = None
        /\ r.step = "subjects" => u.step = "resources" /\ u.got = r.got
        /\ r.step = "resources" =>
             u.step = "relationships" /\ u.got = r.got /\ u.todo = s.resources
        /\ r.step = "relationships" =>
             u.step = "access" /\ u.got = r.got /\ u.todo = r.todo /\ u.from = s.from
        /\ r.step = "access" => u.step = "access" /\ u.from = s.from
        /\ r.step = "drift" => u.step = "findings"
    <2>1. r \in RequestState /\ r.step # "findings" /\ u = Use(r, s)
      BY <1>1, <1>4, <1>5, <1>6
    <2> QED
      BY <1>6, <2>1, UseIsRequest
  <1>9. RequestInv(c) /\ SnapshotInv
    BY <1>1 DEF LossInv
  <1>10. RequestInv(c)'
    <2>1. CASE r.step \in {"subjects", "resources", "drift"}
      BY <1>2, <1>3, <1>4, <1>7, <1>8, <1>6, <1>9, <2>1 DEF RequestInv
    <2>2. CASE r.step = "relationships"
      <3>1. r.got = {} /\ r.todo = snapshot.resources
        BY <1>4, <1>9, <2>2 DEF RequestInv
      <3>2. \A g \in snapshot.grants : targetOf[g] \in snapshot.resources
        BY <1>2, <1>9 DEF SnapshotInv, On
      <3> QED
        BY <1>2, <1>3, <1>7, <1>8, <1>6, <2>2, <3>1, <3>2 DEF RequestInv
    <2>3. CASE r.step = "access"
      <3>1. /\ \A g \in r.got : g \in snapshot.grants
            /\ \A g \in snapshot.grants : targetOf[g] \notin r.todo => g \in r.got
        BY <1>4, <1>9, <2>3 DEF RequestInv
      <3>2. PICK x : TakesGrants(r, s, u, x)
        <4>1. r \in RequestState /\ r.step = "access" /\ u = Use(r, s)
          BY <1>1, <1>4, <1>5, <1>6, <2>3
        <4> QED
          BY <1>6, <4>1, UseTakesGrants
      <3>3. /\ \A g \in u.got : g \in snapshot.grants
            /\ \A g \in snapshot.grants : targetOf[g] \notin u.todo => g \in u.got
        BY <1>6, <3>1, <3>2 DEF TakesGrants
      <3> QED
        BY <1>2, <1>3, <1>7, <1>8, <1>6, <2>3, <3>3 DEF RequestInv
    <2> QED
      BY <1>1, <1>4, <2>1, <2>2, <2>3 DEF RequestState, Step
  <1>11. SnapshotInv'
    BY <1>3, <1>9, KnownKept DEF SnapshotInv, On
  <1>12. (warnings' = {} => complete') /\ (run'.missed \/ run'.stale => run'.warned)
    BY <1>3 DEF LossInv
  <1> QED
    BY <1>2, <1>3, <1>7, <1>8, <1>10, <1>11, <1>12, OneCall

\* A load that begins.
LEMMA LossLoad ==
  ASSUME TypeInv, AloneInv, LossInv, NEW c \in Caller, Load(c)
  PROVE  LossInv'
  <1>1. /\ call[c] \in RequestState /\ call[c].load = None /\ call[c].step # "findings"
        /\ call[c] # None /\ rd[c] = None
    BY AskingRequest DEF Load, Asks, Waits
  <1>2. PICK r \in RequestState :
          /\ call' = [call EXCEPT ![c] = r]
          /\ r.load # None /\ r.load.from = Len(log)
          /\ r.step = call[c].step /\ r.got = call[c].got
          /\ rd' = [rd EXCEPT ![c] = readCollectionResult("users")]
          /\ warnings' = {} /\ UNCHANGED <<live, log, run>> /\ snapshot' = None
          /\ complete' \/ (complete' = complete /\ snapshot = None)
          /\ snapshot = None \/ call[c].step = "subjects"
    BY LoadRequest
  <1>3. call'[c] = r /\ \A d \in Caller : d # c => call[d] = None /\ call'[d] = None
    BY <1>1, <1>2, OthersIdle DEF TypeInv
  <1>4. PICK f : f = readCollectionResult("users")
    OBVIOUS
  <1>5. rd'[c] = f /\ f.path = "users" /\ f.start = Len(log) /\ ~f.done
    BY <1>2, <1>4, FrameFields DEF readCollectionResult, TypeInv
  <1>6. complete'
    BY <1>1, <1>2, <1>3 DEF LossInv, Loads
  <1>7. RequestInv(c)
    BY <1>1 DEF LossInv
  <1>8. r.step \in {"subjects", "drift"} /\ r.got = {}
    BY <1>1, <1>2, <1>7 DEF RequestInv, RequestState, Step
  <1>9. Len(log) \in Nat /\ Len(log) <= Len(log)
    BY DEF TypeInv
  <1>10. r # None /\ f # None
    BY <1>2, <1>4, UnsetAssumption, NoneAssumption, ReadIsRead, CollectionAssumption
  <1>11. LoadInv(c)'
    BY <1>2, <1>3, <1>5, <1>8, <1>9, <1>10 DEF LoadInv
  <1>12. SnapshotInv'
    BY <1>2 DEF SnapshotInv
  <1>13. run'.missed \/ run'.stale => run'.warned
    BY <1>2 DEF LossInv
  <1> QED
    BY <1>2, <1>3, <1>6, <1>11, <1>12, <1>13, OneCall


\* A page, a throttled request or a refused one in the only load.
LEMMA LossReader ==
  ASSUME TypeInv, DeltaInv, LossInv, NEW c \in Caller, Provider(c)
  PROVE  LossInv'
  <1> DEFINE f == rd[c]
  <1>1. rd[c] # None => rd[c] \in Read /\ rd[c].values \in Values(rd[c].path)
                        /\ rd[c].base \in Values(rd[c].path) \cup {None}
    BY DEF TypeInv
  <1>2. /\ Reading(c) /\ UNCHANGED <<deltas, live, log>> /\ UNCHANGED syncVars
        /\ GoesOn(c) \/ StartsAgain(c) \/ EndsEarly(c) \/ EndsWell(c)
    BY <1>1, ReaderCases DEF Provider
  <1>3. /\ f # None /\ f \in Read /\ f.values \in Values(f.path) /\ ~f.done
        /\ f.base \in Values(f.path) \cup {None} /\ f.path \in Path
    BY <1>1, <1>2 DEF Reading, Read
  <1>4. ReadInv(f)
    BY <1>3 DEF DeltaInv
  <1>5. call[c] # None /\ call[c].load # None
    BY <1>3 DEF TypeInv
  <1>6. LoadInv(c) /\ complete \in BOOLEAN
    BY <1>5 DEF LossInv, TypeInv
  <1>7. \A d \in Caller : d # c => call[d] = None
    BY <1>5, OthersIdle DEF DeltaInv
  <1>8. call' = call /\ snapshot' = snapshot /\ complete' = complete /\ run' = run
    BY <1>2 DEF syncVars
  <1>9. snapshot = None
    BY <1>6 DEF LoadInv
  <1>10. call[c].load.from \in Nat /\ call[c].load.from <= Len(log) /\ Len(log) \in Nat
    <2>1. call[c].load \in LoadState
      BY <1>5 DEF TypeInv, RequestState
    <2> QED
      BY <1>6, <2>1 DEF LoadState, LoadInv, TypeInv
  <1>11. f.path = "assignments" => f.base = None
    BY <1>3, <1>4, CollectionAssumption DEF ReadInv
  <1>12. ASSUME NEW s, f.path = "assignments", NEW i \in Grants
         PROVE  Taken(f, s)[i] # "deleted"
    <2>1. i \in Items(f.path) /\ f.values[i] # "deleted"
      BY <1>3, <1>6, <1>12 DEF LoadInv, Grants
    <2> QED
      BY <1>3, <1>11, <1>12, <2>1, TakenIsValues DEF Delivered
  <1>13. ASSUME NEW g \in Read, rd' = [rd EXCEPT ![c] = g], g.path = f.path,
                g.start = f.start \/ g.start = Len(log),
                g.path = "assignments" => \A i \in Grants : g.values[i] # "deleted",
                g.done /\ ~g.completed => warnings' # {},
                warnings' = {} => warnings = {}
         PROVE  LossInv'
    <2>1. rd'[c] = g /\ g # None
      BY <1>13, NoneAssumption DEF TypeInv
    <2>2. PICK from \in Nat : from = call[c].load.from
      BY <1>10
    <2>3. PICK users : users = call[c].load.users
      OBVIOUS
    <2>4. PICK sps : sps = call[c].load.sps
      OBVIOUS
    <2>5. warnings' = {} /\ f.path # "users" => Knows("users", users, from)'
      BY <1>2, <1>3, <1>6, <1>13, <2>2, <2>3, KnownKept DEF LoadInv
    <2>6. warnings' = {} /\ f.path = "assignments" => Knows("sps", sps, from)'
      BY <1>2, <1>3, <1>6, <1>13, <2>2, <2>4, KnownKept DEF LoadInv
    <2>7. /\ call[c].step \in {"subjects", "drift"} /\ call[c].got = {}
          /\ from <= f.start /\ f.path \in {"users", "sps", "assignments"}
      BY <1>3, <1>6, <2>2 DEF LoadInv
    <2>8. from <= g.start /\ from <= Len(log')
      BY <1>2, <1>10, <1>13, <2>2, <2>7
    <2>9. LoadInv(c)'
      BY <1>8, <1>9, <1>13, <2>1, <2>2, <2>3, <2>4, <2>5, <2>6, <2>7, <2>8 DEF LoadInv
    <2>10. SnapshotInv'
      BY <1>8, <1>9 DEF SnapshotInv
    <2>11. (warnings' = {} => complete') /\ (run'.missed \/ run'.stale => run'.warned)
      BY <1>8, <1>13 DEF LossInv
    <2> QED
      BY <1>5, <1>7, <1>8, <2>9, <2>10, <2>11, OneCall
  <1>14. CASE GoesOn(c)
    <2>1. PICK s \in SUBSET f.left, g \in Read :
            /\ g.path = f.path /\ g.start = f.start /\ g.values = Taken(f, s) /\ ~g.done
            /\ rd' = [rd EXCEPT ![c] = g] /\ (warnings' = {} => warnings = {})
      BY <1>14 DEF GoesOn
    <2> QED
      BY <1>12, <1>13, <2>1
  <1>15. CASE StartsAgain(c)
    <2>1. PICK g : g = Frame(f.path, None, 0)
      OBVIOUS
    <2>2. rd' = [rd EXCEPT ![c] = g] /\ warnings' # {} /\ f.base # None
      BY <1>15, <2>1 DEF StartsAgain
    <2>3. g \in Read /\ g.path = f.path /\ g.start = Len(log) /\ ~g.done
      <3>1. live \subseteq Item /\ log \in Seq(Item) /\ None \in Values(f.path) \cup {None}
        BY DEF TypeInv
      <3>2. g \in Read
        BY <1>3, <2>1, <3>1, FrameIsRead
      <3>3. g.path = f.path /\ g.start = Len(log) /\ ~g.done
        BY <2>1, FrameFields
      <3> QED
        BY <3>2, <3>3
    <2> QED
      BY <1>11, <1>13, <2>2, <2>3
  <1>16. CASE EndsEarly(c)
    <2>1. PICK s \in SUBSET f.left :
            rd' = [rd EXCEPT ![c] = Done(f, Taken(f, s), FALSE)] /\ warnings' # {}
      BY <1>16 DEF EndsEarly
    <2>2. PICK g : g = Done(f, Taken(f, s), FALSE)
      OBVIOUS
    <2>3. g \in Read /\ g.path = f.path /\ g.start = f.start /\ g.values = Taken(f, s)
      BY <1>3, <2>2, TakenIsValues, DoneIsRead
    <2> QED
      BY <1>12, <1>13, <2>1, <2>2, <2>3
  <1>17. CASE EndsWell(c)
    <2>1. rd' = [rd EXCEPT ![c] = Done(f, Merged(f), TRUE)] /\ warnings' = warnings
      BY <1>17 DEF EndsWell
    <2>2. PICK g : g = Done(f, Merged(f), TRUE)
      OBVIOUS
    <2>3. /\ g \in Read /\ g.path = f.path /\ g.start = f.start /\ g.values = Merged(f)
          /\ g.completed = TRUE
      BY <1>3, <2>2, MergedIsValues, DoneIsRead
    <2>4. f.path = "assignments" => \A i \in Grants : Merged(f)[i] # "deleted"
      BY <1>11, <1>12 DEF Merged
    <2> QED
      BY <1>13, <2>1, <2>2, <2>3, <2>4
  <1> QED
    BY <1>2, <1>14, <1>15, <1>16, <1>17

\* The users are in.
LEMMA LossUsers ==
  ASSUME TypeInv, DeltaInv, LossInv, NEW c \in Caller, UsersRead(c)
  PROVE  LossInv'
  <1>1. /\ call[c] \in RequestState /\ call[c].load \in LoadState
        /\ rd[c] # None /\ rd[c] \in Read /\ rd[c].done /\ rd[c].path = "users"
        /\ rd[c].values \in Values("users") /\ rd[c].completed \in BOOLEAN
    BY FinishedRead DEF UsersRead
  <1>2. PICK r \in RequestState :
          /\ call' = [call EXCEPT ![c] = r]
          /\ r.load # None /\ r.load.users = Present(rd[c].values) /\ r.load.from = call[c].load.from
          /\ r.step = call[c].step /\ r.got = call[c].got /\ r.step # "findings"
    BY UsersReadRequest
  <1>3. /\ rd' = [rd EXCEPT ![c] = readCollectionResult("sps")]
        /\ UNCHANGED <<live, log, warnings, snapshot, complete, run>>
    BY DEF UsersRead
  <1>4. call[c] # None /\ call[c].load # None
    BY <1>1 DEF TypeInv
  <1>5. LoadInv(c)
    BY <1>4 DEF LossInv
  <1>6. call'[c] = r /\ r # None /\ \A d \in Caller : d # c => call'[d] = None
    BY <1>2, <1>4, OthersIdle, UnsetAssumption DEF TypeInv, DeltaInv
  <1>7. PICK g : g = readCollectionResult("sps")
    OBVIOUS
  <1>8. g \in Read /\ g.path = "sps" /\ g.start = Len(log) /\ ~g.done
    BY <1>7, ReadIsRead, CollectionAssumption, FrameFields DEF readCollectionResult
  <1>9. rd'[c] = g /\ g # None
    BY <1>3, <1>7, <1>8, NoneAssumption DEF TypeInv
  <1>10. PICK from \in Nat : from = call[c].load.from
    BY <1>1 DEF LoadState
  <1>11. PICK users : users = Present(rd[c].values)
    OBVIOUS
  <1>12. /\ call[c].step \in {"subjects", "drift"} /\ call[c].got = {} /\ snapshot = None
         /\ from <= rd[c].start /\ from <= Len(log)
         /\ ~rd[c].completed => warnings # {}
    BY <1>1, <1>5, <1>10 DEF LoadInv
  <1>13. warnings = {} => Knows("users", users, from)
    <2>1. ReadInv(rd[c])
      BY <1>1 DEF DeltaInv
    <2> QED
      BY <1>1, <1>10, <1>11, <1>12, <2>1, ReadKnows
  <1>14. warnings' = {} => Knows("users", users, from)'
    BY <1>3, <1>13, KnownKept
  <1>15. LoadInv(c)'
    BY <1>2, <1>3, <1>6, <1>8, <1>9, <1>10, <1>11, <1>12, <1>14 DEF LoadInv
  <1>16. SnapshotInv'
    BY <1>3, <1>12 DEF SnapshotInv
  <1>17. (warnings' = {} => complete') /\ (run'.missed \/ run'.stale => run'.warned)
    BY <1>3 DEF LossInv
  <1> QED
    BY <1>2, <1>6, <1>15, <1>16, <1>17, OneCall


\* The applications are in. Without any there is no grant to read.
LEMMA LossApplications ==
  ASSUME TypeInv, DeltaInv, LossInv, NEW c \in Caller, ApplicationsRead(c)
  PROVE  LossInv'
  <1>1. /\ call[c] \in RequestState /\ call[c].load \in LoadState
        /\ rd[c] # None /\ rd[c] \in Read /\ rd[c].done /\ rd[c].path = "sps"
        /\ rd[c].values \in Values("sps") /\ rd[c].completed \in BOOLEAN
    BY FinishedRead DEF ApplicationsRead
  <1>2. PICK r \in RequestState :
          /\ call' = [call EXCEPT ![c] = r]
          /\ r.load # None /\ r.load.sps = Present(rd[c].values) /\ r.load.from = call[c].load.from
          /\ r.load.users = call[c].load.users
          /\ r.step = call[c].step /\ r.got = call[c].got /\ r.step # "findings"
    BY ApplicationsReadRequest
  <1>3. UNCHANGED <<live, log, warnings, snapshot, complete, run>>
    BY DEF ApplicationsRead
  <1>4. call[c] # None /\ call[c].load # None
    BY <1>1 DEF TypeInv
  <1>5. LoadInv(c)
    BY <1>4 DEF LossInv
  <1>6. call'[c] = r /\ r # None /\ \A d \in Caller : d # c => call'[d] = None
    BY <1>2, <1>4, OthersIdle, UnsetAssumption DEF TypeInv, DeltaInv
  <1>7. PICK from \in Nat : from = call[c].load.from
    BY <1>1 DEF LoadState
  <1>8. PICK sps : sps = Present(rd[c].values)
    OBVIOUS
  <1>9. PICK users : users = call[c].load.users
    OBVIOUS
  <1>10. /\ call[c].step \in {"subjects", "drift"} /\ call[c].got = {} /\ snapshot = None
         /\ from <= rd[c].start /\ from <= Len(log)
         /\ ~rd[c].completed => warnings # {}
         /\ warnings = {} => Knows("users", users, from)
    BY <1>1, <1>5, <1>7, <1>9 DEF LoadInv
  <1>11. warnings = {} => Knows("sps", sps, from)
    <2>1. ReadInv(rd[c])
      BY <1>1 DEF DeltaInv
    <2> QED
      BY <1>1, <1>7, <1>8, <1>10, <2>1, ReadKnows
  <1>12. warnings' = {} => Knows("users", users, from)' /\ Knows("sps", sps, from)'
    BY <1>3, <1>10, <1>11, KnownKept
  <1>13. LoadInv(c)'
    <2>1. CASE sps = {}
      <3>1. rd'[c] = None
        BY <1>8, <2>1 DEF ApplicationsRead, TypeInv
      <3>2. warnings = {} => RightGrants({}, from)
        <4> SUFFICES ASSUME warnings = {}, NEW g \in Grants, SteadyGrant(from, g), targetOf[g] \in live
                     PROVE  FALSE
          BY DEF RightGrants
        <4>1. targetOf[g] \in Items("sps") /\ Steady(from, targetOf[g])
          BY CollectionAssumption DEF SteadyGrant
        <4> QED
          BY <1>11, <2>1, <4>1 DEF Knows
      <3>3. warnings' = {} => RightGrants({}, from)'
        BY <1>3, <3>2, KnownKept
      <3>4. On({}, sps)
        BY DEF On
      <3> QED
        BY <1>2, <1>3, <1>6, <1>7, <1>8, <1>10, <3>1, <3>3, <3>4 DEF LoadInv, On
    <2>2. CASE sps # {}
      <3>1. PICK g : g = readCollectionResult("assignments")
        OBVIOUS
      <3>2. /\ g \in Read /\ g.path = "assignments" /\ g.start = Len(log) /\ ~g.done
            /\ \A i \in Grants : g.values[i] = "none"
        BY <3>1, ReadIsRead, CollectionAssumption, FrameFields DEF readCollectionResult, Grants
      <3>3. rd'[c] = g /\ g # None
        BY <1>8, <2>2, <3>1, <3>2, NoneAssumption DEF ApplicationsRead, TypeInv
      <3> QED
        BY <1>2, <1>3, <1>6, <1>7, <1>8, <1>9, <1>10, <1>12, <3>2, <3>3 DEF LoadInv
    <2> QED
      BY <2>1, <2>2
  <1>14. SnapshotInv'
    BY <1>3, <1>10 DEF SnapshotInv
  <1>15. (warnings' = {} => complete') /\ (run'.missed \/ run'.stale => run'.warned)
    BY <1>3 DEF LossInv
  <1> QED
    BY <1>2, <1>6, <1>13, <1>14, <1>15, OneCall

\* The grants are in: a read that was cut short or a grant that was dropped left a warning.
LEMMA LossAssignments ==
  ASSUME TypeInv, DeltaInv, LossInv, NEW c \in Caller, AssignmentsRead(c)
  PROVE  LossInv'
  <1>1. /\ call[c] \in RequestState /\ call[c].load \in LoadState
        /\ rd[c] # None /\ rd[c] \in Read /\ rd[c].done /\ rd[c].path = "assignments"
        /\ rd[c].values \in Values("assignments") /\ rd[c].completed \in BOOLEAN
        /\ Present(rd[c].values) \subseteq Grants
    BY FinishedRead DEF AssignmentsRead, Grants
  <1>2. PICK r \in RequestState :
          /\ call' = [call EXCEPT ![c] = r]
          /\ r.load # None /\ r.load.sps = call[c].load.sps /\ r.load.from = call[c].load.from
          /\ r.step = call[c].step /\ r.got = KeptGrants(c) /\ r.step # "findings"
    BY AssignmentsReadRequest
  <1>3. /\ rd' = [rd EXCEPT ![c] = None] /\ UNCHANGED <<live, log, snapshot, run>>
        /\ complete' = (complete /\ rd[c].completed)
    BY DEF AssignmentsRead, ReadbackComplete
  <1>4. warnings' = {} => warnings = {} /\ KeptGrants(c) = ReadGrants(c)
    BY WarningStays DEF AssignmentsRead, KeptGrants, ReadGrants
  <1>5. call[c] # None /\ call[c].load # None
    BY <1>1 DEF TypeInv
  <1>6. LoadInv(c)
    BY <1>5 DEF LossInv
  <1>7. call'[c] = r /\ r # None /\ \A d \in Caller : d # c => call'[d] = None
    BY <1>2, <1>5, OthersIdle, UnsetAssumption DEF TypeInv, DeltaInv
  <1>8. PICK from \in Nat : from = call[c].load.from
    BY <1>1 DEF LoadState
  <1>9. PICK kept : kept = KeptGrants(c)
    OBVIOUS
  <1>10. /\ call[c].step \in {"subjects", "drift"} /\ snapshot = None
         /\ from <= rd[c].start /\ from <= Len(log)
         /\ ~rd[c].completed => warnings # {}
         /\ \A i \in Grants : rd[c].values[i] # "deleted"
         /\ warnings = {} => Knows("sps", call[c].load.sps, call[c].load.from)
    BY <1>1, <1>6, <1>8 DEF LoadInv
  <1>11. warnings' = {} => RightGrants(kept, from)
    <2>1. ReadInv(rd[c])
      BY <1>1 DEF DeltaInv
    <2> QED
      BY <1>1, <1>4, <1>8, <1>9, <1>10, <2>1, KeptAreRight
  <1>12. warnings' = {} => RightGrants(kept, from)'
    BY <1>3, <1>11, KnownKept
  <1>13. On(kept, call[c].load.sps)
    BY <1>1, <1>9 DEF On, KeptGrants, ReadGrants
  <1>14. rd'[c] = None
    BY <1>3 DEF TypeInv
  <1>15. LoadInv(c)'
    BY <1>2, <1>3, <1>7, <1>8, <1>9, <1>10, <1>12, <1>13, <1>14 DEF LoadInv, On
  <1>16. SnapshotInv'
    BY <1>3, <1>10 DEF SnapshotInv
  <1>17. (warnings' = {} => complete') /\ (run'.missed \/ run'.stale => run'.warned)
    BY <1>1, <1>3, <1>4, <1>10 DEF LossInv
  <1> QED
    BY <1>2, <1>7, <1>15, <1>16, <1>17, OneCall

\* The snapshot is made of what the load has read.
LEMMA LossBuild ==
  ASSUME TypeInv, DeltaInv, LossInv, NEW c \in Caller, BuildSnapshot(c)
  PROVE  LossInv'
  <1> DEFINE q == [call[c] EXCEPT !.got = {}]
  <1>1. /\ Built(c) \in Snapshot /\ Built(c) # None /\ snapshot' = Built(c)
        /\ q \in RequestState /\ q.step = call[c].step /\ q.step # "findings" /\ q.got = {}
        /\ call' = [call EXCEPT ![c] = Use(q, Built(c))]
        /\ rd[c] = None /\ UNCHANGED <<readerVars, complete, run>>
    BY BuildRequest
  <1> HIDE DEF q
  <1>2. call[c] # None /\ call[c].load # None
    BY DEF BuildSnapshot, Settling
  <1>3. LoadInv(c) /\ call[c].load \in LoadState
    BY <1>2 DEF LossInv, TypeInv, RequestState
  <1>4. PICK u : u = Use(q, Built(c))
    OBVIOUS
  <1>5. /\ u \in RequestState /\ u.load = None
        /\ q.step = "subjects" => u.step = "resources" /\ u.got = q.got
        /\ q.step = "drift" => u.step = "findings"
    BY <1>1, <1>4, UseIsRequest
  <1>6. call'[c] = u /\ \A d \in Caller : d # c => call'[d] = None
    BY <1>1, <1>2, <1>4, OthersIdle DEF TypeInv, DeltaInv
  <1>7. RequestInv(c)'
    BY <1>1, <1>3, <1>5, <1>6 DEF RequestInv, LoadInv
  <1>8. PICK from \in Nat : from = call[c].load.from
    BY <1>3 DEF LoadState
  <1>9. PICK got : got = call[c].got
    OBVIOUS
  <1>10. /\ from <= Len(log) /\ On(got, call[c].load.sps)
         /\ warnings = {} => RightGrants(got, from)
    BY <1>1, <1>3, <1>8, <1>9 DEF LoadInv
  <1>11. warnings' = {} => RightGrants(got, from)'
    BY <1>1, <1>10, KnownKept DEF readerVars
  <1>12. /\ snapshot'.grants = got /\ snapshot'.from = from
         /\ snapshot'.resources = call[c].load.sps
    BY <1>1, <1>8, <1>9 DEF Built
  <1>13. SnapshotInv'
    BY <1>1, <1>10, <1>11, <1>12 DEF SnapshotInv, On, readerVars
  <1>14. (warnings' = {} => complete') /\ (run'.missed \/ run'.stale => run'.warned)
    BY <1>1 DEF LossInv, readerVars
  <1> QED
    BY <1>1, <1>5, <1>6, <1>7, <1>13, <1>14, OneCall


\* A run is recorded: it has the grants of every application of the snapshot, and the
\* warnings of the load that made it.
LEMMA LossFinishSync ==
  ASSUME TypeInv, DeltaInv, LossInv, NEW c \in Caller, FinishSync(c)
  PROVE  LossInv'
  <1>1. /\ call[c] # None /\ call[c].load = None /\ call[c].step = "access" /\ call[c].todo = {}
        /\ call' = [call EXCEPT ![c] = None]
        /\ UNCHANGED <<readerVars, snapshot, complete>>
    BY DEF FinishSync, Waits
  <1>2. RequestInv(c) /\ SnapshotInv
    BY <1>1 DEF LossInv
  <1>3. snapshot # None
    BY <1>1, <1>2 DEF RequestInv
  <1>4. call'[c] = None /\ \A d \in Caller : d # c => call'[d] = None
    BY <1>1, OthersIdle DEF TypeInv, DeltaInv
  <1>5. SnapshotInv'
    BY <1>1, <1>2, KnownKept DEF SnapshotInv, On, readerVars
  <1>6. (warnings' = {} => complete') /\ (warnings = {} => complete)
    BY <1>1 DEF LossInv, readerVars
  <1>7. run'.missed \/ run'.stale => run'.warned
    <2> SUFFICES ASSUME warnings = {}
                 PROVE  ~run'.missed /\ ~run'.stale
      BY DEF FinishSync
    <2>1. RightGrants(snapshot.grants, snapshot.from)
      BY <1>2, <1>3 DEF SnapshotInv
    <2>2. \A g : g \in call[c].got <=> g \in snapshot.grants
      BY <1>1, <1>2 DEF RequestInv
    <2>3. call[c].from = snapshot.from
      BY <1>1, <1>2 DEF RequestInv
    <2>4. RightGrants(call[c].got, call[c].from)
      BY <2>1, <2>2, <2>3 DEF RightGrants
    <2>5. /\ run'.missed = \E g \in Grants \ call[c].got : SteadyGrant(call[c].from, g)
                              /\ {g, principalOf[g], targetOf[g]} \subseteq live
          /\ run'.stale = \E g \in call[c].got : Steady(call[c].from, g) /\ g \notin live
      BY <1>6 DEF FinishSync
    <2> QED
      BY <2>4, <2>5 DEF RightGrants
  <1> QED
    BY <1>1, <1>3, <1>4, <1>5, <1>6, <1>7, OneCall

\* The drift of a snapshot is answered.
LEMMA LossFinishDrift ==
  ASSUME TypeInv, DeltaInv, LossInv, NEW c \in Caller, FinishDrift(c)
  PROVE  LossInv'
  <1>1. /\ call[c] # None /\ call[c].load = None
        /\ call' = [call EXCEPT ![c] = None]
        /\ UNCHANGED <<readerVars, snapshot, complete, run>>
    BY DEF FinishDrift, Waits
  <1>2. /\ call'[c] = None
        /\ \A d \in Caller : d # c => call'[d] = None /\ call[d] = None
    BY <1>1, OthersIdle DEF TypeInv, DeltaInv
  <1>3. SnapshotInv'
    BY <1>1, KnownKept DEF LossInv, SnapshotInv, On, readerVars
  <1>4. ~Loads
    BY <1>1, <1>2 DEF Loads
  <1>5. /\ (warnings' = {} => complete') /\ (run'.missed \/ run'.stale => run'.warned)
        /\ snapshot' = None => complete'
    BY <1>1, <1>4 DEF LossInv, readerVars
  <1> QED
    BY <1>2, <1>3, <1>5, OneCall

\* A change at the provider takes no grant, user or application from those that are known
\* and did not change.
LEMMA KnownAfterChange ==
  ASSUME TypeInv, NEW i \in Item, log' = Append(log, i),
         live' = IF i \in live THEN live \ {i} ELSE live \cup {i},
         NEW path, NEW known, NEW p \in Nat, p <= Len(log)
  PROVE  /\ Knows(path, known, p) => Knows(path, known, p)'
         /\ RightGrants(known, p) => RightGrants(known, p)'
  <1>1. log \in Seq(Item)
    BY DEF TypeInv
  <1>2. \A j : Steady(p, j)' => Steady(p, j) /\ j # i
    BY <1>1, SteadyAfterChange
  <1>3. \A j : j # i => (j \in live' <=> j \in live)
    OBVIOUS
  <1>4. Knows(path, known, p) => Knows(path, known, p)'
    BY <1>2, <1>3 DEF Knows
  <1>5. \A g : SteadyGrant(p, g)' => /\ SteadyGrant(p, g)
                                     /\ g # i /\ principalOf[g] # i /\ targetOf[g] # i
    BY <1>2 DEF SteadyGrant
  <1>6. RightGrants(known, p) => RightGrants(known, p)'
    BY <1>2, <1>3, <1>5 DEF RightGrants
  <1> QED
    BY <1>4, <1>6

\* The provider changes.
LEMMA LossChange ==
  ASSUME TypeInv, DeltaInv, LossInv, ProviderChange
  PROVE  LossInv'
  <1>1. PICK i \in Item : /\ log' = Append(log, i)
                          /\ live' = IF i \in live THEN live \ {i} ELSE live \cup {i}
    BY DEF ProviderChange, Change
  <1>2. /\ UNCHANGED <<rd, warnings, snapshot, complete, call, run>>
        /\ Len(log) \in Nat /\ Len(log') = Len(log) + 1
    BY <1>1 DEF ProviderChange, Change, syncVars, TypeInv
  <1>3. ASSUME NEW path, NEW known, NEW p \in Nat, p <= Len(log)
        PROVE  /\ p <= Len(log')
               /\ Knows(path, known, p) => Knows(path, known, p)'
               /\ RightGrants(known, p) => RightGrants(known, p)'
    <2>1. p <= Len(log')
      BY <1>2, <1>3
    <2>2. (Knows(path, known, p) => Knows(path, known, p)') /\ (RightGrants(known, p) => RightGrants(known, p)')
      BY <1>1, <1>3, KnownAfterChange
    <2> QED
      BY <2>1, <2>2
  <1>4. SnapshotInv'
    <2> SUFFICES ASSUME snapshot # None
                 PROVE  SnapshotInv'
      BY <1>2 DEF SnapshotInv
    <2>1. PICK from \in Nat : from = snapshot.from
      BY DEF TypeInv, Snapshot
    <2>2. PICK stored : stored = snapshot.grants
      OBVIOUS
    <2>3. /\ On(stored, snapshot.resources) /\ from <= Len(log)
          /\ warnings = {} => RightGrants(stored, from)
      BY <2>1, <2>2 DEF LossInv, SnapshotInv
    <2>4. from <= Len(log') /\ (warnings = {} => RightGrants(stored, from)')
      BY <1>3, <2>3
    <2> QED
      BY <1>2, <2>1, <2>2, <2>3, <2>4 DEF SnapshotInv, On
  <1>5. ASSUME NEW c \in Caller, call[c] # None, call[c].load # None
        PROVE  LoadInv(c)'
    <2>1. LoadInv(c) /\ call[c].load \in LoadState
      BY <1>5 DEF LossInv, TypeInv, RequestState
    <2>2. PICK from \in Nat : from = call[c].load.from
      BY <2>1 DEF LoadState
    <2>3. PICK users : users = call[c].load.users
      OBVIOUS
    <2>4. PICK sps : sps = call[c].load.sps
      OBVIOUS
    <2>5. PICK got : got = call[c].got
      OBVIOUS
    <2>6. from <= Len(log)
      BY <2>1, <2>2 DEF LoadInv
    <2>7. /\ from <= Len(log')
          /\ Knows("users", users, from) => Knows("users", users, from)'
          /\ Knows("sps", sps, from) => Knows("sps", sps, from)'
          /\ RightGrants(got, from) => RightGrants(got, from)'
      BY <1>3, <2>6
    <2> QED
      BY <1>2, <2>1, <2>2, <2>3, <2>4, <2>5, <2>7 DEF LoadInv, On
  <1>6. ASSUME NEW c \in Caller, call[c] # None, call[c].load = None
        PROVE  RequestInv(c)'
    BY <1>2, <1>6 DEF LossInv, RequestInv
  <1> QED
    BY <1>2, <1>4, <1>5, <1>6 DEF LossInv, Loads

\* Nothing changes.
LEMMA LossStutter ==
  ASSUME LossInv, UNCHANGED vars
  PROVE  LossInv'
  <1>1. UNCHANGED <<live, log, rd, warnings, snapshot, complete, call, run>>
    BY DEF vars, readerVars, syncVars
  <1>2. SnapshotInv'
    BY <1>1, KnownKept DEF LossInv, SnapshotInv, On
  <1>3. ASSUME NEW c \in Caller, call[c] # None, call[c].load # None
        PROVE  LoadInv(c)'
    BY <1>1, <1>3, KnownKept DEF LossInv, LoadInv, On
  <1>4. ASSUME NEW c \in Caller, call[c] # None, call[c].load = None
        PROVE  RequestInv(c)'
    BY <1>1, <1>4 DEF LossInv, RequestInv
  <1> QED
    BY <1>1, <1>2, <1>3, <1>4 DEF LossInv, Loads

\* Every step of calls that neither overlap nor are rejected keeps what is known.
LEMMA LossStep ==
  ASSUME TypeInv, DeltaInv, LossInv, [Next]_vars, ~overlapped', ~rejected'
  PROVE  LossInv'
  <1>1. AloneInv
    BY DEF DeltaInv
  <1>2. ASSUME NEW c \in Caller, Reject(c)
        PROVE  FALSE
    BY <1>2 DEF Reject
  <1> QED
    BY <1>1, <1>2, LossStart, LossReader, LossAnswer, LossLoad, LossUsers, LossApplications,
       LossAssignments, LossBuild, LossFinishSync, LossFinishDrift, LossChange, LossStutter
       DEF Next, Continue

-----------------------------------------------------------------------------
(* The theorems *)

\* Calls that overlapped have overlapped, a call that was rejected was rejected.
LEMMA HistoryStays ==
  ASSUME [Next]_vars
  PROVE  /\ ~overlapped' => ~overlapped
         /\ ~rejected' => ~rejected
  <1>1. ASSUME NEW c \in Caller, Start(c) \/ Provider(c) \/ Reject(c) \/ Continue(c)
        PROVE  (~overlapped' => ~overlapped) /\ (~rejected' => ~rejected)
    <2>1. CASE Start(c)
      BY <2>1 DEF Start
    <2>2. CASE Provider(c)
      BY <2>2 DEF Provider, syncVars
    <2>3. CASE Reject(c)
      BY <2>3 DEF Reject
    <2>4. CASE Continue(c)
      BY <2>4 DEF Continue, Answer, Load, UsersRead, ApplicationsRead, AssignmentsRead,
                  BuildSnapshot, FinishSync, FinishDrift
    <2> QED
      BY <1>1, <2>1, <2>2, <2>3, <2>4
  <1>2. CASE ProviderChange
    BY <1>2 DEF ProviderChange, syncVars
  <1>3. CASE UNCHANGED vars
    BY <1>3 DEF vars, syncVars
  <1> QED
    BY <1>1, <1>2, <1>3 DEF Next

\* It holds at the start.
LEMMA InitHolds == Init => IInv
  <1> SUFFICES ASSUME Init
               PROVE  IInv
    OBVIOUS
  <1>1. TypeInv
    <2>1. log \in Seq(Item) /\ live \subseteq Item /\ deltas \in BOOLEAN
      BY DEF Init, ReaderInit
    <2>2. \A c \in Caller : rd[c] = None /\ call[c] = None
      BY DEF Init, ReaderInit
    <2>3. \A path \in Path : cache[path] = None
      BY DEF Init, ReaderInit
    <2>4. /\ token \in [Path -> Nat \cup {None}] /\ DOMAIN cache = Path
          /\ rd \in [Caller -> Read \cup {None}] /\ call \in [Caller -> RequestState \cup {None}]
      BY DEF Init, ReaderInit
    <2>5. snapshot = None /\ complete = TRUE /\ overlapped = FALSE /\ rejected = FALSE
      BY DEF Init
    <2> QED
      BY <2>1, <2>2, <2>3, <2>4, <2>5 DEF TypeInv
  <1>2. DeltaInv
    BY DEF Init, ReaderInit, DeltaInv, AloneInv, TokenInv
  <1>3. LossInv
    BY DEF Init, ReaderInit, LossInv, SnapshotInv, Loads, NoRun
  <1> QED
    BY <1>1, <1>2, <1>3 DEF IInv

\* The invariant holds in every state of a connector (runtime-discovery.ts, syncConnector
\* and detectDrift; connector.ts, #loadSnapshot; collection-reader.ts).
THEOREM Invariance == Spec => []IInv
  <1>1. Init => IInv
    BY InitHolds
  <1>2. IInv /\ [Next]_vars => IInv'
    <2> SUFFICES ASSUME IInv, [Next]_vars
                 PROVE  IInv'
      OBVIOUS
    <2>1. TypeInv'
      BY TypeStep DEF IInv
    <2>2. ~overlapped' => DeltaInv'
      BY HistoryStays, DeltaStep DEF IInv
    <2>3. ~overlapped' /\ ~rejected' => LossInv'
      BY HistoryStays, LossStep DEF IInv
    <2> QED
      BY <2>1, <2>2, <2>3 DEF IInv
  <1> QED
    BY <1>1, <1>2, PTL DEF Spec

\* The state kept for an incremental read is sound: what did not change since the token is
\* in the cache exactly if it exists (collection-reader.ts, #deltaStates, #collectionCaches).
THEOREM DeltaStateHolds == Spec => []DeltaStateIsSound
  <1>1. IInv => DeltaStateIsSound
    <2> SUFFICES ASSUME IInv, ~overlapped, NEW path \in Path, token[path] # None,
                        NEW i \in Items(path) \ ChangedSince(path, token[path])
                 PROVE  cache[path][i] = "live" <=> i \in live
      BY DEF DeltaStateIsSound
    <2>1. Right(path, cache[path], token[path])
      BY DEF IInv, DeltaInv, TokenInv
    <2>2. Steady(token[path], i)
      BY ChangedIsNotSteady
    <2> QED
      BY <2>1, <2>2 DEF Right
  <1> QED
    BY <1>1, Invariance, PTL

\* A discovery run that misses a grant which was there all the time, or keeps one which was
\* gone all the time, says that its coverage is limited (runtime-discovery.ts, syncConnector).
THEOREM LossIsAnnouncedHolds == Spec => []LossIsAnnounced
  <1>1. IInv => LossIsAnnounced
    BY DEF IInv, LossInv, LossIsAnnounced
  <1> QED
    BY <1>1, Invariance, PTL
=============================================================================

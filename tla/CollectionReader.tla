-------------------------- MODULE CollectionReader --------------------------
(***************************************************************************)
(* How a read-only connector reads a collection of its provider: page by   *)
(* page, with a page limit and a retry limit, and for Microsoft Graph from *)
(* a delta token when one is kept (connectors-microsoft-graph/src/         *)
(* collection-reader.ts, provider-utils.ts; connectors-aws/src/index.ts).  *)
(*                                                                         *)
(* The provider is external: items come and go, every answer may be an     *)
(* error, and a delta token names a position in its log of changes.        *)
(***************************************************************************)
EXTENDS Naturals, Sequences

CONSTANTS
  Caller,      \* the requests in flight
  Path,        \* the collections, by their path
  Item,        \* their items
  pathOf,      \* pathOf[i]: the collection of an item
  DeltaPath,   \* the collections whose last page may carry a delta token
  None,
  MaxPages,    \* maxPages of the connector
  MaxRetries,  \* maxRetries of the connector
  MaxChanges   \* bound: changes at the provider

ASSUME PathAssumption == pathOf \in [Item -> Path] /\ DeltaPath \subseteq Path
ASSUME LimitAssumption == MaxPages \in Nat \ {0} /\ MaxRetries \in Nat /\ MaxChanges \in Nat

VARIABLES
  deltas,    \* the reader keeps delta tokens (Microsoft Graph)
  live,      \* external: the items that exist
  log,       \* external: the items that came or went, in order
  token,     \* #deltaStates: per path, a position in the log or None
  cache,     \* #collectionCaches: per path, the values kept or None
  rd,        \* rd[c]: the read the caller is in, or None
  warnings   \* #warnings of the connector: code, scope and severity

readerVars == <<deltas, live, log, token, cache, rd, warnings>>

Items(path) == {i \in Item : pathOf[i] = path}

\* A list of records: each item is not in it, in it, or in it as a tombstone.
Values(path) == [Items(path) -> {"none", "live", "deleted"}]
NoValues(path) == [i \in Items(path) |-> "none"]

\* A read of a collection, with the locals of #readCollectionPages. left: what the provider
\* has not delivered yet; start: where its log was when the read began.
AnyValues == UNION {Values(path) : path \in Path}
Read ==
  [path : Path, base : AnyValues \cup {None}, left : SUBSET Item, start : Nat, pages : Nat,
   retries : Nat, values : AnyValues, done : BOOLEAN, completed : BOOLEAN]

ASSUME NoneAssumption ==
  None \notin Nat /\ None \notin Read /\ \A path \in Path : None \notin Values(path)

\* isGraphTombstone: what the provider delivers of an item; a delta names a removed one.
Delivered(i) == IF i \in live THEN "live" ELSE "deleted"

ChangedSince(path, position) ==
  {i \in Items(path) : \E k \in position + 1..Len(log) : log[k] = i}

\* The locals of #readCollectionPages at its first page.
Frame(path, base, position) ==
  [path |-> path, base |-> base,
   left |-> IF base = None THEN live \cap Items(path) ELSE ChangedSince(path, position),
   start |-> Len(log), pages |-> 0, retries |-> 0, values |-> NoValues(path),
   done |-> FALSE, completed |-> FALSE]

\* readCollectionResult, up to its first await: from the token if the cache is there too.
readCollectionResult(path) ==
  IF token[path] # None /\ cache[path] # None
  THEN Frame(path, cache[path], token[path])
  ELSE Frame(path, None, 0)

\* The warnings the properties tell apart: "THROTTLE_RETRIED", "PRINCIPAL_SKIPPED", and
\* "COVERAGE" for the codes that always have severity warning: PAGE_LIMIT_REACHED,
\* COLLECTION_SKIPPED, DELTA_TOKEN_STALE, DELTA_TOKEN_MISSING, INCREMENTAL_SYNC_FULL_RESYNC.
\* #pushWarning: Graph drops a warning that repeats a code and scope; AWS raises its
\* severity. A collection of the model is a scope of the code.
Same(v, w) == v.code = w.code /\ v.scope = w.scope
Warning(code, path, severity) == [code |-> code, scope |-> path, severity |-> severity]
pushWarning(ws, new) ==
  IF \E w \in ws : Same(w, new)
  THEN IF deltas \/ new.severity = "info" THEN ws ELSE {w \in ws : ~Same(w, new)} \cup {new}
  ELSE ws \cup {new}

Reading(c) == rd[c] # None /\ ~rd[c].done

Done(f, values, completed) == [f EXCEPT !.values = values, !.done = TRUE, !.completed = completed]

\* #cacheCollection; the AWS reader keeps nothing.
cacheCollection(path, values) ==
  IF deltas THEN [cache EXCEPT ![path] = values] ELSE cache

\* Wrong: the token survives a resync.
keepToken(path) == token
\* deltaStates.delete: an ambiguous incremental read discards the token.
discardToken(path) == [token EXCEPT ![path] = None]

\* Wrong: what stopped the read is not said.
sayNothing(c, code) == warnings
StopWarning(c, code) == pushWarning(warnings, Warning(code, rd[c].path, "warning"))

\* Wrong: an incremental read that failed is tried again as an incremental read.
RestartIncremental(f) == Frame(f.path, f.base, f.start)
RestartFull(f) == Frame(f.path, None, 0)

\* A read that cannot go on. An incremental one starts again as a full read; a full one
\* is cached and answered as incomplete.
Abandon(c, values, code) ==
  LET f == rd[c]
  IN  IF f.base # None
      THEN /\ token' = discardToken(f.path)
           /\ rd' = [rd EXCEPT ![c] = RestartFull(f)]
           /\ warnings' = pushWarning(StopWarning(c, code), Warning("COVERAGE", f.path, "warning"))
           /\ UNCHANGED cache
      ELSE /\ cache' = cacheCollection(f.path, values)
           /\ rd' = [rd EXCEPT ![c] = Done(f, values, FALSE)]
           /\ warnings' = StopWarning(c, code)
           /\ UNCHANGED token

\* applyGraphDeltaChanges: a change replaces what was cached, a tombstone marks it.
applyGraphDeltaChanges(cached, changes) ==
  [i \in DOMAIN cached |-> IF changes[i] = "none" THEN cached[i] ELSE changes[i]]

\* The last page is in: a delta token is kept, an incremental read without one is
\* abandoned, the values are merged and cached.
Complete(c, values, delta) ==
  LET f == rd[c]
      merged == IF f.base = None THEN values ELSE applyGraphDeltaChanges(f.base, values)
  IN  IF f.base # None /\ ~delta THEN Abandon(c, values, "COVERAGE")
      ELSE /\ token' = IF delta THEN [token EXCEPT ![f.path] = f.start] ELSE token
           /\ cache' = cacheCollection(f.path, merged)
           /\ rd' = [rd EXCEPT ![c] = Done(f, merged, TRUE)]
           /\ UNCHANGED warnings

PageLimitReached(pages) == pages >= MaxPages

\* A page arrives: retryCount is reset, the items are appended, and the loop goes on to
\* the next page, to the page limit or to the end.
Page(c) ==
  LET f == rd[c]
  IN  /\ Reading(c)
      /\ \E s \in SUBSET f.left, next \in BOOLEAN, delta \in BOOLEAN :
            LET values == [i \in DOMAIN f.values |->
                             IF i \in s /\ (f.base # None \/ i \in live) THEN Delivered(i) ELSE f.values[i]]
            IN  /\ s # f.left => next
                /\ delta => ~next /\ deltas /\ f.path \in DeltaPath
                /\ IF ~next THEN Complete(c, values, delta)
                   ELSE IF PageLimitReached(f.pages + 1)
                   THEN Abandon(c, values, "COVERAGE")
                   ELSE /\ rd' = [rd EXCEPT ![c] = [f EXCEPT !.pages = @ + 1, !.retries = 0,
                                                              !.left = @ \ s, !.values = values]]
                        /\ UNCHANGED <<token, cache, warnings>>
      /\ UNCHANGED <<deltas, live, log>>

\* Status 429 (AWS: or 503): tried again up to maxRetries times, then given up.
Throttled(c) ==
  /\ Reading(c)
  /\ IF rd[c].retries < MaxRetries
     THEN /\ rd' = [rd EXCEPT ![c].retries = @ + 1]
          /\ warnings' = pushWarning(warnings, Warning("THROTTLE_RETRIED", rd[c].path, "info"))
          /\ UNCHANGED <<token, cache>>
     ELSE Abandon(c, rd[c].values, "THROTTLE_RETRIED")
  /\ UNCHANGED <<deltas, live, log>>

\* Status 410 on a delta token, and any other status of 400 and above.
Refused(c) ==
  /\ Reading(c)
  /\ Abandon(c, rd[c].values, "COVERAGE")
  /\ UNCHANGED <<deltas, live, log>>

\* external: an item appears or goes.
Change ==
  /\ Len(log) < MaxChanges
  /\ \E i \in Item :
        /\ log' = Append(log, i)
        /\ live' = IF i \in live THEN live \ {i} ELSE live \cup {i}
  /\ UNCHANGED <<deltas, token, cache, rd, warnings>>

ReaderInit ==
  /\ live \in SUBSET Item
  /\ log = <<>>
  /\ token = [path \in Path |-> None]
  /\ cache = [path \in Path |-> None]
  /\ rd = [c \in Caller |-> None]
  /\ warnings = {}

ReaderStep(c) == Page(c) \/ Throttled(c) \/ Refused(c)
=============================================================================

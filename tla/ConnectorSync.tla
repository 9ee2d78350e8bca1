---------------------------- MODULE ConnectorSync ----------------------------
(***************************************************************************)
(* A synchronisation of a read-only connector (api/src/runtime-discovery.ts) *)
(* and the snapshot that the Microsoft Graph and the AWS connector keep    *)
(* between their calls (connectors-microsoft-graph/src/connector.ts,       *)
(* connectors-aws/src/index.ts). The requests of the API share the         *)
(* connector and interleave at every await.                                *)
(*                                                                         *)
(* A load reads users, then applications, then the grants on them; the     *)
(* other collections follow the same pattern. Only an incomplete read of   *)
(* grants clears nativeAccessReadbackComplete.                             *)
(***************************************************************************)
EXTENDS CollectionReader, FiniteSets

CONSTANTS
  principalOf,  \* principalOf[g]: the user a grant names
  targetOf,     \* targetOf[g]: the application it is on
  MayReject,    \* the client may reject: no answer from the provider
  MaxCalls      \* bound: calls of the API

VARIABLES
  snapshot,     \* #snapshot, or None
  complete,     \* #nativeAccessReadbackComplete
  subjectsRead, \* #subjectsReadFromCurrentSnapshot
  call,         \* call[c]: the request being served, or None
  grants,       \* the connector's native grants in the store
  run,          \* the discovery run just recorded: what it missed and what it said
  drift,        \* the detectDrift just answered: whether reads were cut short, and its findings
  calls,        \* history: how many calls were made
  overlapped,   \* history: two calls were in flight at once
  rejected      \* history: a load was rejected

syncVars == <<snapshot, complete, subjectsRead, call, grants, run, drift, calls, overlapped, rejected>>
vars == <<readerVars, syncVars>>

Grants == Items("assignments")

\* What a load keeps of the collections it has read, the snapshot made of it, and what a
\* request carries from await to await.
LoadState == [users : SUBSET Item, sps : SUBSET Item, partial : BOOLEAN, from : Nat]
Snapshot == [resources : SUBSET Item, grants : SUBSET Item, from : Nat, partial : BOOLEAN]
Step == {"subjects", "resources", "relationships", "access", "drift", "findings"}
RequestState ==
  [op : {"sync", "drift"}, step : Step, todo : SUBSET Item, got : SUBSET Item, from : Nat,
   partial : BOOLEAN, load : LoadState \cup {None}]

\* A grant is of a user on an application. The provider has no delta query for grants.
ASSUME CollectionAssumption ==
  /\ {"users", "sps", "assignments"} \subseteq Path
  /\ "assignments" \notin DeltaPath
  /\ principalOf \in [Grants -> Items("users")]
  /\ targetOf \in [Grants -> Items("sps")]
ASSUME UnsetAssumption == None \notin LoadState \cup Snapshot \cup RequestState
ASSUME CallAssumption == MaxCalls \in Nat

\* What a load has read of the collections before the present one.
Loaded == [users |-> {}, sps |-> {}, partial |-> FALSE, from |-> Len(log)]
Present(values) == {i \in DOMAIN values : values[i] # "none"}

\* #loadSnapshot up to its first await. Graph leaves the completeness as it is.
LoadSnapshot(c, request) ==
  /\ warnings' = {}
  /\ subjectsRead' = FALSE
  /\ complete' = IF deltas THEN complete ELSE TRUE
  /\ rd' = [rd EXCEPT ![c] = readCollectionResult("users")]
  /\ call' = [call EXCEPT ![c] = [request EXCEPT !.load = Loaded]]

\* #resetSnapshotState and the load that follows it.
ResetAndLoad(c, request) ==
  /\ warnings' = {}
  /\ subjectsRead' = FALSE
  /\ complete' = TRUE
  /\ rd' = [rd EXCEPT ![c] = readCollectionResult("users")]
  /\ call' = [call EXCEPT ![c] = [request EXCEPT !.load = Loaded]]

NoRun == [missed |-> FALSE, stale |-> FALSE, warned |-> FALSE]
NoDrift == [partial |-> FALSE, found |-> FALSE]

Request(op) == [op |-> op, step |-> IF op = "sync" THEN "subjects" ELSE "drift",
                todo |-> {}, got |-> {}, from |-> 0, partial |-> FALSE, load |-> None]

\* syncConnector and detectDrift arrive.
Start(c) ==
  /\ call[c] = None
  /\ calls < MaxCalls
  /\ \E op \in {"sync", "drift"} : call' = [call EXCEPT ![c] = Request(op)]
  /\ calls' = calls + 1
  /\ overlapped' = (overlapped \/ \E d \in Caller : call[d] # None)
  /\ run' = NoRun
  /\ drift' = NoDrift
  /\ UNCHANGED <<readerVars, snapshot, complete, subjectsRead, grants, rejected>>

\* What the call does with the snapshot it was given, and where it goes on.
Use(request, s) ==
  CASE request.step = "subjects" -> [request EXCEPT !.step = "resources", !.load = None]
    [] request.step = "resources" ->
         [request EXCEPT !.step = "relationships", !.load = None, !.todo = s.resources]
    [] request.step = "relationships" ->
         [request EXCEPT !.step = "access", !.load = None, !.from = s.from, !.partial = s.partial]
    [] request.step = "access" ->
         LET r == CHOOSE r \in request.todo : TRUE
         IN  [request EXCEPT !.todo = @ \ {r}, !.load = None, !.from = s.from,
                             !.got = @ \cup {g \in s.grants : targetOf[g] = r}]
    [] request.step = "drift" -> [request EXCEPT !.step = "findings", !.load = None, !.partial = s.partial]

Waits(c) == call[c] # None /\ call[c].load = None
Asks(c) == Waits(c) /\ (call[c].step \in {"subjects", "resources", "relationships", "drift"}
                        \/ (call[c].step = "access" /\ call[c].todo # {}))

\* discoverSubjects of Graph takes up a snapshot whose subjects nobody has read, and
\* starts a new one otherwise.
StartsAfresh(c) == deltas /\ call[c].step = "subjects" /\ (snapshot = None \/ subjectsRead)

\* A call of the connector finds the snapshot there.
Answer(c) ==
  /\ Asks(c) /\ snapshot # None /\ ~StartsAfresh(c)
  /\ call' = [call EXCEPT ![c] = Use(call[c], snapshot)]
  /\ subjectsRead' = (subjectsRead \/ call[c].step = "subjects")
  /\ UNCHANGED <<readerVars, snapshot, complete, grants, run, drift, calls, overlapped, rejected>>

\* A call of the connector has to load it.
Load(c) ==
  /\ Asks(c)
  /\ \/ StartsAfresh(c) /\ ResetAndLoad(c, call[c]) /\ snapshot' = None
     \/ ~StartsAfresh(c) /\ snapshot = None /\ LoadSnapshot(c, call[c]) /\ UNCHANGED snapshot
  /\ UNCHANGED <<deltas, live, log, token, cache, grants, run, drift, calls, overlapped, rejected>>

Finished(c, path) == call[c] # None /\ rd[c] # None /\ rd[c].done /\ rd[c].path = path

\* The users are in, the applications are next.
UsersRead(c) ==
  /\ Finished(c, "users")
  /\ call' = [call EXCEPT ![c].load.users = Present(rd[c].values),
                          ![c].load.partial = @ \/ ~rd[c].completed]
  /\ rd' = [rd EXCEPT ![c] = readCollectionResult("sps")]
  /\ UNCHANGED <<deltas, live, log, token, cache, warnings, snapshot, complete, subjectsRead,
                 grants, run, drift, calls, overlapped, rejected>>

\* The applications are in; the grants of each are read, here in one collection.
ApplicationsRead(c) ==
  /\ Finished(c, "sps")
  /\ call' = [call EXCEPT ![c].load.sps = Present(rd[c].values),
                          ![c].load.partial = @ \/ ~rd[c].completed]
  /\ rd' = [rd EXCEPT ![c] = IF Present(rd[c].values) = {} THEN None
                             ELSE readCollectionResult("assignments")]
  /\ UNCHANGED <<deltas, live, log, token, cache, warnings, snapshot, complete, subjectsRead,
                 grants, run, drift, calls, overlapped, rejected>>

ReadbackComplete(c) == complete /\ rd[c].completed

\* The assignments are in: those of a known user stay, the others leave a warning.
AssignmentsRead(c) ==
  LET read == {g \in Present(rd[c].values) : targetOf[g] \in call[c].load.sps}
      kept == {g \in read : principalOf[g] \in call[c].load.users}
  IN  /\ Finished(c, "assignments")
      /\ complete' = ReadbackComplete(c)
      /\ warnings' = IF kept = read THEN warnings
                     ELSE pushWarning(warnings, Warning("PRINCIPAL_SKIPPED", "assignments", "warning"))
      /\ call' = [call EXCEPT ![c].got = kept, ![c].load.partial = @ \/ ~rd[c].completed]
      /\ rd' = [rd EXCEPT ![c] = None]
      /\ UNCHANGED <<deltas, live, log, token, cache, snapshot, subjectsRead,
                     grants, run, drift, calls, overlapped, rejected>>

\* The reads that follow (Graph: sites, drives and their permissions) are of the same kind
\* and stand here for one await; then the snapshot is kept and the call goes on.
Settling(c) == call[c] # None /\ call[c].load # None /\ rd[c] = None
BuildSnapshot(c) ==
  LET load == call[c].load
      s == [resources |-> load.sps, grants |-> call[c].got, from |-> load.from, partial |-> load.partial]
  IN  /\ Settling(c)
      /\ snapshot' = s
      /\ subjectsRead' = (subjectsRead \/ (deltas /\ call[c].step = "subjects"))
      /\ call' = [call EXCEPT ![c] = Use([@ EXCEPT !.got = {}], s)]
      /\ UNCHANGED <<readerVars, complete, grants, run, drift, calls, overlapped, rejected>>

\* The client rejects: the load and the request end, the connector keeps what it has.
Reject(c) ==
  /\ MayReject /\ (Reading(c) \/ Settling(c))
  /\ rd' = [rd EXCEPT ![c] = None]
  /\ call' = [call EXCEPT ![c] = None]
  /\ rejected' = TRUE
  /\ UNCHANGED <<deltas, live, log, token, cache, warnings, snapshot, complete, subjectsRead,
                 grants, run, drift, calls, overlapped>>

\* An item that came or went neither while nor after the load was under way.
Steady(from, i) == ~\E k \in from + 1..Len(log) : log[k] = i
SteadyGrant(from, g) == \A i \in {g, principalOf[g], targetOf[g]} : Steady(from, i)

\* syncConnector after its last await: the grants are replaced if the readback was
\* complete, and the run is recorded with the warnings of the connector.
FinishSync(c) ==
  LET stored == IF complete THEN call[c].got ELSE grants
      from == call[c].from
  IN  /\ Waits(c) /\ call[c].step = "access" /\ call[c].todo = {}
      /\ grants' = stored
      /\ run' = [missed |-> \E g \in Grants \ stored : SteadyGrant(from, g)
                              /\ {g, principalOf[g], targetOf[g]} \subseteq live,
                 stale |-> \E g \in stored : Steady(from, g) /\ g \notin live,
                 warned |-> warnings # {}]
      /\ call' = [call EXCEPT ![c] = None]
      /\ UNCHANGED <<readerVars, snapshot, complete, subjectsRead, drift, calls, overlapped, rejected>>

\* isSecurityRelevantCoverageWarning: the codes that become findings, unless informational.
isSecurityRelevantCoverageWarning(w) ==
  w.severity # "info" /\ w.code \in {"COVERAGE", "THROTTLE_RETRIED"}

\* detectDrift of Graph after its await; AWS answers the findings of its snapshot.
FinishDrift(c) ==
  /\ Waits(c) /\ call[c].step = "findings"
  /\ drift' = [partial |-> deltas /\ call[c].partial,
               found |-> \E w \in warnings : isSecurityRelevantCoverageWarning(w)]
  /\ call' = [call EXCEPT ![c] = None]
  /\ UNCHANGED <<readerVars, snapshot, complete, subjectsRead, grants, run, calls, overlapped, rejected>>

Init ==
  /\ ReaderInit
  /\ deltas \in BOOLEAN
  /\ snapshot = None
  /\ complete = TRUE
  /\ subjectsRead = FALSE
  /\ call = [c \in Caller |-> None]
  /\ grants = {}
  /\ run = NoRun
  /\ drift = NoDrift
  /\ calls = 0
  /\ overlapped = FALSE
  /\ rejected = FALSE

Provider(c) == ReaderStep(c) /\ UNCHANGED syncVars
ProviderChange == Change /\ UNCHANGED syncVars
Continue(c) ==
  \/ Answer(c) \/ Load(c) \/ UsersRead(c) \/ ApplicationsRead(c) \/ AssignmentsRead(c) \/ BuildSnapshot(c)
  \/ FinishSync(c) \/ FinishDrift(c)

Next ==
  \/ \E c \in Caller : Start(c) \/ Provider(c) \/ Reject(c) \/ Continue(c)
  \/ ProviderChange

Spec == Init /\ [][Next]_vars

\* Every request the connector makes is answered or rejected, and every settled promise
\* is continued.
FairSpec == Spec /\ \A c \in Caller : WF_vars(Provider(c)) /\ WF_vars(Continue(c))

---------------------------------------------------------------------------

\* The state kept for an incremental read is sound (collection-reader.ts, #deltaStates and
\* #collectionCaches): what did not change since the token is in the cache exactly if it
\* exists, so the changes since the token bring the cache up to date.
DeltaStateIsSound ==
  ~overlapped => \A path \in Path : token[path] # None /\ cache[path] # None =>
    \A i \in Items(path) \ ChangedSince(path, token[path]) : cache[path][i] = "live" <=> i \in live

\* A discovery run that misses a grant which was there all the time, or keeps one which was
\* gone all the time, says that its coverage is limited (runtime-discovery.ts: replacement
\* only after a complete readback; connector.ts: every cut carries a warning).
LossIsAnnounced ==
  ~overlapped /\ ~rejected => (run.missed \/ run.stale => run.warned)

\* The same after a load that was rejected: what an earlier load left behind does not
\* change what a later run stores.
LossIsAnnouncedAfterRejection == ~overlapped => (run.missed \/ run.stale => run.warned)

\* A snapshot that rests on a read that was cut short yields a drift finding.
CutIsFound == ~overlapped /\ ~rejected => (drift.partial => drift.found)

\* A call of the API ends: the pages and the retries of every read are bounded.
CallsEnd == \A c \in Caller : call[c] # None ~> call[c] = None
=============================================================================

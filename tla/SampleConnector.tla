--------------------------- MODULE SampleConnector ---------------------------
(* The sample read-only connector                                             *)
(* (packages/connectors-sample-readonly/src/index.ts) under the discovery     *)
(* runs of the API (packages/api/src/runtime-discovery.ts).                   *)
(*                                                                            *)
(* The connector plays one scenario after the other. A run reads it with one  *)
(* call after the other, and every call is awaited, so that runs and the      *)
(* other requests interleave between the calls.                               *)
EXTENDS Naturals, Sequences, FiniteSetsExt

CONSTANTS
  Run,        \* discovery runs in flight
  Scenarios,  \* #scenarios: per scope, a sequence of pages
  MaxPages    \* #maxPages

VARIABLES
  scenarioIndex, \* #scenarioIndex: 0 before the first scenario
  warnings,      \* #warnings: code and scope
  warningKeys,   \* #warningKeys
  sync           \* sync[r]: how far the run is, the scenario of each part, the warnings it reports

vars == <<scenarioIndex, warnings, warningKeys, sync>>

\* The calls of a run, in order.
Scopes == <<"subjects", "resources", "relationships", "native_grants">>

Idle == [step |-> 0, parts |-> <<>>, warnings |-> {}, overtaken |-> FALSE]
Reading(r) == sync[r].step \in 1..3

\* A run that begins, one that has read its next part, and one that another run overtakes.
Begun(scenario) == [Idle EXCEPT !.step = 1, !.parts = <<scenario>>]
WithPart(run, scenario) == [run EXCEPT !.step = @ + 1, !.parts = Append(@, scenario)]
Overtaken(run) == [run EXCEPT !.overtaken = @ \/ run.step \in 1..4]

---------------------------------------------------------------------------

Cut(pages) == Len(pages) > MaxPages
PagesRead(pages) == SubSeq(pages, 1, Min({Len(pages), MaxPages}))

\* What #readPages and the tombstones of discoverResources warn of.
Observed(scope, pages) ==
  LET read == PagesRead(pages)
  IN {<<"SAMPLE_PAGINATION_OBSERVED", scope>> : i \in {j \in DOMAIN read : read[j].next}}
     \cup {<<"SAMPLE_THROTTLE_RETRIED", scope>> : i \in {j \in DOMAIN read : read[j].retry}}
     \cup {<<"SAMPLE_PAGE_LIMIT_REACHED", scope>> : i \in {j \in DOMAIN read : j = MaxPages /\ Cut(pages)}}
     \cup {<<"SAMPLE_TOMBSTONE_OBSERVED", scope>> : i \in {j \in DOMAIN read : scope = "resources" /\ read[j].deleted}}

\* Pages are read after the warnings were reset, or not.
ReadPages(scope, scenario, said, keys) ==
  LET observed == Observed(scope, Scenarios[scenario][scope])
  IN /\ warnings' = said \cup (observed \ keys)
     /\ warningKeys' = keys \cup observed

\* A bug: the keys of the last scenario's warnings are kept.
ResetWarningsOnly(scope) ==
  LET next == Min({scenarioIndex + 1, Len(Scenarios)})
  IN scenarioIndex' = next /\ ReadPages(scope, next, {}, warningKeys)
\* #beginNextScenario, and a read from it.
BeginNextScenario(scope) ==
  LET next == Min({scenarioIndex + 1, Len(Scenarios)})
  IN scenarioIndex' = next /\ ReadPages(scope, next, {}, {})

\* #activeScenario, and a read from it: the first call of all begins a scenario.
ReadActiveScenario(scope) ==
  IF scenarioIndex = 0 THEN BeginNextScenario(scope)
  ELSE ReadPages(scope, scenarioIndex, warnings, warningKeys) /\ UNCHANGED scenarioIndex

---------------------------------------------------------------------------

\* Every run begins a scenario; a run that is still reading goes on with the new one.
DiscoverSubjects(r) ==
  /\ sync[r].step \in {0, 5}
  /\ BeginNextScenario("subjects")
  /\ sync' = [q \in Run |-> IF q = r THEN Begun(scenarioIndex') ELSE Overtaken(sync[q])]

\* discoverResources, discoverRelationships and readCurrentAccess of the resources.
ReadPart(r) ==
  /\ Reading(r)
  /\ ReadActiveScenario(Scopes[sync[r].step + 1])
  /\ sync' = [sync EXCEPT ![r] = WithPart(@, scenarioIndex')]

\* getDiscoveryMetadata, which the run records with its counts.
GetDiscoveryMetadata(r) ==
  /\ sync[r].step = 4
  /\ sync' = [sync EXCEPT ![r] = [WithPart(@, Max({scenarioIndex, 1})) EXCEPT !.warnings = warnings]]
  /\ UNCHANGED <<scenarioIndex, warnings, warningKeys>>

\* readCurrentAccess of another request: a reconciliation or a native access lookup.
ReadCurrentAccess ==
  /\ ReadActiveScenario("native_grants")
  /\ UNCHANGED sync

\* revokeAccess looks its grant up in the active scenario and plans; it reads no pages.
RevokeAccess ==
  /\ scenarioIndex = 0
  /\ scenarioIndex' = 1
  /\ warnings' = {} /\ warningKeys' = {}
  /\ UNCHANGED sync

Init == scenarioIndex = 0 /\ warnings = {} /\ warningKeys = {} /\ sync = [r \in Run |-> Idle]

Next ==
  \/ \E r \in Run : DiscoverSubjects(r) \/ ReadPart(r) \/ GetDiscoveryMetadata(r)
  \/ ReadCurrentAccess
  \/ RevokeAccess

Spec == Init /\ [][Next]_vars

---------------------------------------------------------------------------

\* A run that no other one overtook has all its parts from one scenario, and warns of every
\* part that was cut, throttled or held tombstones, whatever was asked of the connector
\* before and beside it (index.ts:135: the discovery calls "reuse that active snapshot").
UndisturbedRunIsWhole ==
  \A r \in Run : sync[r].step = 5 /\ ~sync[r].overtaken =>
    LET scenario == sync[r].parts[1]
    IN /\ \A i \in DOMAIN sync[r].parts : sync[r].parts[i] = scenario
       /\ \A i \in DOMAIN Scopes : Observed(Scopes[i], Scenarios[scenario][Scopes[i]]) \subseteq sync[r].warnings
=============================================================================

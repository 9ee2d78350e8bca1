------------------------- MODULE RelationshipStore -------------------------
(***************************************************************************)
(* The relationships of the in-memory store (core/src/store.ts) and the    *)
(* lists of active relationships that the decision engine caches of them   *)
(* (core/src/engine.ts): the index by subject, the revision, the cached    *)
(* scopes and decisions for the present and for an earlier asOf.           *)
(*                                                                         *)
(* A cached list is the set of its entries: nothing here depends on their  *)
(* order. The scopes are a Map, whose keys are in the order of insertion.  *)
(***************************************************************************)
EXTENDS Naturals, Sequences, FiniteSets, SequencesExt

CONSTANTS
  Id,          \* relationship identifiers
  Subject,
  None,
  MaxScopes,   \* MAX_ACTIVE_RELATIONSHIP_SCOPES of the engine
  MaxTime,     \* bound: the clock
  MaxWrites,   \* bound: upserts of relationships
  MaxNoted     \* bound: decisions about an earlier time that are remembered

VARIABLES
  relationships,  \* #relationships
  bySubject,      \* #relationshipsBySubject
  revision,       \* #relationshipRevision
  scopes,         \* #activeRelationshipScopes, oldest first
  decided,        \* what pinned decisions about the past rested on: [subject, asOf, version, active]
  time, writes

relationshipVars == <<relationships, bySubject, revision, scopes, decided, time, writes>>

Ids(active) == {r.id : r \in active}

---------------------------------------------------------------------------
(* store.ts *)

\* findIndex and splice: the first entry with this identifier goes.
Without(list, id) ==
  LET at == {n \in DOMAIN list : list[n].id = id}
  IN  IF at = {} THEN list ELSE RemoveAt(list, CHOOSE n \in at : \A k \in at : n <= k)
removeRelationshipFromSubjectIndex(index, r) == [index EXCEPT ![r.subject] = Without(@, r.id)]
addRelationshipToSubjectIndex(index, r) == [index EXCEPT ![r.subject] = Append(@, r)]

\* Wrong: the index drops the entry of the subject the relationship now has.
Reindexed(old, r) ==
  addRelationshipToSubjectIndex(removeRelationshipFromSubjectIndex(bySubject, r), r)
\* The index once old, if there is one, is replaced by r.
Replaced(old, r) ==
  addRelationshipToSubjectIndex(IF old = None THEN bySubject ELSE removeRelationshipFromSubjectIndex(bySubject, old), r)

\* upsertRelationship, of an active relationship or one with an expiry.
UpsertRelationship(i, s, version, expires) ==
  LET r == [id |-> i, subject |-> s, version |-> version, asserted |-> time, status |-> "active",
            updated |-> None, expires |-> expires]
  IN  /\ writes < MaxWrites
      /\ writes' = writes + 1
      /\ relationships' = [relationships EXCEPT ![i] = r]
      /\ bySubject' = Replaced(relationships[i], r)
      /\ revision' = revision + 1
      /\ UNCHANGED <<scopes, decided, time>>

Deleted(r) == [r EXCEPT !.status = "deleted", !.updated = time]

\* deleteRelationship: also of one that is already deleted.
DeleteRelationship(i) ==
  LET r == Deleted(relationships[i])
  IN  /\ relationships[i] # None
      /\ relationships[i] # r
      /\ relationships' = [relationships EXCEPT ![i] = r]
      /\ bySubject' = Replaced(relationships[i], r)
      /\ revision' = revision + 1
      /\ UNCHANGED <<scopes, decided, time, writes>>

---------------------------------------------------------------------------
(* engine.ts *)

\* isVisibleAt and isActiveRelationshipAt
isActiveRelationshipAt(r, asOf, version) ==
  /\ version = None \/ r.version = version
  /\ r.asserted <= asOf
  /\ r.status = "deleted" => r.updated > asOf
  /\ r.expires = None \/ r.expires > asOf

\* #activeRelationshipScope: the scope of this revision, asOf and pin, or a new one, for
\* which the oldest may have to go.
ScopeKey(asOf, version) == [revision |-> revision, asOf |-> asOf, version |-> version]
Scopes(key) == {n \in DOMAIN scopes : scopes[n].key = key}
NewScope(key) == [key |-> key, lists |-> [s \in Subject |-> None]]
WithScope(key) ==
  IF Scopes(key) # {} THEN scopes
  ELSE LET longer == Append(scopes, NewScope(key))
       IN  IF Len(longer) > MaxScopes THEN Tail(longer) ELSE longer

\* activeRelationshipsForSubject: the cached list, or the one that is cached now.
Filtered(s, asOf, version) == {r \in ToSet(bySubject[s]) : isActiveRelationshipAt(r, asOf, version)}
CachedList(key, s) == IF Scopes(key) = {} THEN None ELSE scopes[CHOOSE n \in Scopes(key) : TRUE].lists[s]
ActiveRelationshipsForSubject(s, asOf, version) ==
  LET cached == CachedList(ScopeKey(asOf, version), s)
  IN  IF cached = None THEN Filtered(s, asOf, version) ELSE cached

\* scope.bySubject.set
Cached(scope, key, s, active) == IF scope.key = key THEN [scope EXCEPT !.lists[s] = active] ELSE scope

\* A check of a subject: asOf is at most the present.
Check(s, asOf, version) ==
  LET key == ScopeKey(asOf, version)
      active == ActiveRelationshipsForSubject(s, asOf, version)
  IN  /\ asOf <= time
      /\ scopes' = [n \in DOMAIN WithScope(key) |-> Cached(WithScope(key)[n], key, s, active)]
      /\ decided' = IF asOf < time /\ version # None /\ Cardinality(decided) < MaxNoted
                    THEN decided \cup {[subject |-> s, asOf |-> asOf, version |-> version, active |-> Ids(active)]}
                    ELSE decided
      /\ UNCHANGED <<relationships, bySubject, revision, time, writes>>

Tick == time < MaxTime /\ time' = time + 1 /\ UNCHANGED <<relationships, bySubject, revision, scopes, decided, writes>>

Init ==
  /\ relationships = [i \in Id |-> None]
  /\ bySubject = [s \in Subject |-> <<>>]
  /\ revision = 0
  /\ scopes = <<>>
  /\ decided = {}
  /\ time = 0
  /\ writes = 0

Versions == {1, 2}

Next ==
  \/ \E i \in Id :
       \/ \E s \in Subject, version \in Versions, expires \in {None} \cup time + 1..MaxTime :
            UpsertRelationship(i, s, version, expires)
       \/ DeleteRelationship(i)
  \/ \E s \in Subject, asOf \in 0..MaxTime, version \in {None, 1} : Check(s, asOf, version)
  \/ Tick

Spec == Init /\ [][Next]_relationshipVars

---------------------------------------------------------------------------

\* A decision never rests on a list that was cached before a write: for every subject, asOf
\* and pin the engine would now use exactly the relationships that the store holds and that
\* are active (relationshipRevision, #activeRelationshipScope and the index by subject,
\* however a relationship changed its subject, was replaced, deleted or evicted).
EngineSeesTheStore ==
  \A s \in Subject, asOf \in 0..time, version \in {None, 1} :
    Ids(ActiveRelationshipsForSubject(s, asOf, version)) =
      {i \in Id : relationships[i] # None /\ relationships[i].subject = s
                  /\ isActiveRelationshipAt(relationships[i], asOf, version)}

\* docs/decisions.md:16, "Every decision must be reproducible from its request plus pinned
\* versions": a decision about an earlier time, with the graph version pinned, would now
\* rest on the same relationships (deleteRelationship, upsertRelationship).
DecisionIsReproducible ==
  \A d \in decided :
    Ids(ActiveRelationshipsForSubject(d.subject, d.asOf, d.version)) = d.active
=============================================================================

--------------------------- MODULE DecisionEngine ---------------------------
(***************************************************************************)
(* One evaluation of a decision request (packages/core/src/engine.ts): the *)
(* checks on the request, the search for a deny path, the search for an    *)
(* allow path, and the caveats of the path found. The two searches share   *)
(* one DecisionTraversalGuard (packages/core/src/decision-runtime.ts).     *)
(*                                                                         *)
(* Both searches are breadth-first over the relationships that are active  *)
(* at asOf; every step below looks at one relationship. The queue keeps    *)
(* the entries already handled, so findDenyPath's visited and              *)
(* findAllowPath's bestGrantByNode are read off the queue. A queue entry   *)
(* carries the relationships that led to it (the chain of its previous     *)
(* entries), whose number is its depth.                                    *)
(*                                                                         *)
(* The policy model is compiled for the one action that is requested.      *)
(***************************************************************************)
EXTENDS Naturals, Sequences, FiniteSets

CONSTANTS
  Node,            \* ids of subjects and resources
  subjectId, resourceId,  \* the request
  Relation,        \* relation names
  kindOf,          \* the kind the policy model declares for each, or None
  actionGrants,    \* the relations the action's entry in the model lists
  inherited,       \* the "through" relations of the action's inheritance rules
  denyRules,       \* the relations of the deny rules that apply to the action
  Caveat,          \* caveat names
  Conditional,     \* the conditional relationships that apply to the action
  Tenant,
  None,            \* undefined
  Input            \* the graphs and bounds an evaluation meets

\* met: the caveats whose conditions this relationship passes in the context
\* of the request.
Relationship ==
  [subject : Node, relation : Relation, object : Node, tenant : Tenant \cup {None},
   met : SUBSET Caveat]

Standing == {"missing", "unknown", "inactive", "active"}
Bounds == [maxDepth : Nat \ {0}, maxRelationshipScans : Nat \ {0}, maxVisitedNodes : Nat \ {0}]

\* An id names a subject or a resource, never both, and the request names one
\* of each: a resourceId that only a subject has is a missing resource.
ASSUME RequestAssumption == subjectId \in Node /\ resourceId \in Node
\* The graph is a snapshot held in memory.
ASSUME NodeAssumption == IsFiniteSet(Node)
ASSUME ModelAssumption ==
  /\ kindOf \in [Relation -> {"membership", "containment", "grant", "deny", None}]
  /\ actionGrants \subseteq Relation
  /\ inherited \subseteq Relation
  /\ denyRules \subseteq Relation
  /\ Conditional \subseteq [relation : Relation, caveats : SUBSET Caveat]
\* relationships: what activeRelationshipsForSubject lists for each node.
InputRecord ==
  [asOf : {"valid", "invalid", "future"}, standing : [Node -> Standing],
   tenant : [Node -> Tenant \cup {None}], relationships : [Node -> Seq(Relationship)],
   bounds : Bounds]

\* A relationship is listed under its own subject.
Indexed(i) ==
  \A n \in Node : \A k \in DOMAIN i.relationships[n] : i.relationships[n][k].subject = n

ASSUME InputAssumption == \A i \in Input : i \in InputRecord /\ Indexed(i)

\* The reason codes this module tells apart; every failed caveat is one code.
Reason ==
  {"DENY_INVALID_AS_OF", "DENY_AS_OF_IN_FUTURE", "DENY_SUBJECT_NOT_FOUND",
   "DENY_SUBJECT_LIFECYCLE_UNKNOWN_AS_OF", "DENY_SUBJECT_NOT_ACTIVE", "DENY_RESOURCE_NOT_FOUND",
   "DENY_RESOURCE_LIFECYCLE_UNKNOWN_AS_OF", "DENY_RESOURCE_NOT_ACTIVE", "DENY_TENANT_BOUNDARY",
   "DENY_EXPLICIT_OVERRIDE", "DENY_TRAVERSAL_BOUND_EXCEEDED", "DENY_POLICY_CAVEAT",
   "DENY_DEFAULT_NO_RELATIONSHIP_PATH", "ALLOW_VIA_RELATIONSHIP_PATH"}

ASSUME NoneAssumption == None \notin Reason

VARIABLES
  input,   \* what this evaluation meets
  phase,   \* "check", then "deny" and "allow" while a search runs, then "done"
  queue,   \* the entries of the running search
  head,    \* queueIndex, from 1
  pos,     \* the next relationship of the entry at head
  scans,   \* relationshipScans of the guard
  seen,    \* visitedNodes of the guard
  reason,  \* reasonCode
  path     \* relationshipPath

vars == <<input, phase, queue, head, pos, scans, seen, reason, path>>

-----------------------------------------------------------------------------
(* The compiled policy model *)

AllowedRelations == {r \in actionGrants : kindOf[r] = "grant"}
TraversalRelations == {r \in inherited : kindOf[r] \in {"membership", "containment"}}
DenyRelations == {r \in denyRules : kindOf[r] = "deny"}

-----------------------------------------------------------------------------
(* The graph; i is what an evaluation meets *)

TenantIdFor(i, n) == IF i.standing[n] = "missing" THEN None ELSE i.tenant[n]

IsActiveGraphNode(i, n) == i.standing[n] = "active"

TenantBoundaryDenies(i) == TenantIdFor(i, subjectId) # TenantIdFor(i, resourceId)

RelationshipMatchesTenantBoundary(i, e) ==
  /\ e.tenant \in {None, TenantIdFor(i, subjectId)}
  /\ TenantIdFor(i, e.object) = TenantIdFor(i, subjectId)

CanTraverseRelationship(e, hasActionGrant) ==
  CASE kindOf[e.relation] = "membership"  -> e.relation \in TraversalRelations
    [] kindOf[e.relation] = "containment" -> e.relation \in TraversalRelations /\ hasActionGrant
    [] OTHER                              -> e.relation \in AllowedRelations

CanTraverseDenyRelationship(e) == kindOf[e.relation] = "membership"

-----------------------------------------------------------------------------
(* The checks on the request, in order *)

RequestChecks(i) ==
  << [reason |-> "DENY_INVALID_AS_OF", ok |-> i.asOf # "invalid"],
     [reason |-> "DENY_AS_OF_IN_FUTURE", ok |-> i.asOf # "future"],
     [reason |-> "DENY_SUBJECT_NOT_FOUND", ok |-> i.standing[subjectId] # "missing"],
     [reason |-> "DENY_SUBJECT_LIFECYCLE_UNKNOWN_AS_OF", ok |-> i.standing[subjectId] # "unknown"],
     [reason |-> "DENY_SUBJECT_NOT_ACTIVE", ok |-> i.standing[subjectId] = "active"],
     [reason |-> "DENY_RESOURCE_NOT_FOUND", ok |-> i.standing[resourceId] # "missing"],
     [reason |-> "DENY_RESOURCE_LIFECYCLE_UNKNOWN_AS_OF", ok |-> i.standing[resourceId] # "unknown"],
     [reason |-> "DENY_RESOURCE_NOT_ACTIVE", ok |-> i.standing[resourceId] = "active"],
     [reason |-> "DENY_TENANT_BOUNDARY", ok |-> ~TenantBoundaryDenies(i)] >>

Root == [node |-> subjectId, hasActionGrant |-> FALSE, path |-> << >>]

Conclude(code, steps) == phase' = "done" /\ reason' = code /\ path' = steps

RejectRequest(k) ==
  /\ phase = "check"
  /\ ~RequestChecks(input)[k].ok
  /\ \A j \in 1 .. k - 1 : RequestChecks(input)[j].ok
  /\ Conclude(RequestChecks(input)[k].reason, << >>)
  /\ UNCHANGED <<input, queue, head, pos, scans, seen>>

StartSearch(p) ==
  /\ phase' = p
  /\ queue' = <<Root>>
  /\ head' = 1
  /\ pos' = 1

AcceptRequest ==
  /\ phase = "check"
  /\ \A k \in DOMAIN RequestChecks(input) : RequestChecks(input)[k].ok
  /\ StartSearch("deny")
  /\ UNCHANGED <<input, scans, seen, reason, path>>

-----------------------------------------------------------------------------
(* One relationship of a search *)

Entry == queue[head]
Listed == input.relationships[Entry.node]
Edge == Listed[pos]

\* Wrong: containment reaches the resource whether or not the action was granted.
ContainmentGrants(entry, e) ==
  /\ e.object = resourceId
  /\ IF phase = "deny" THEN e.relation \in DenyRelations
     ELSE e.relation \in AllowedRelations \/ CanTraverseRelationship(e, TRUE)

\* The relationship ends the search at the resource.
ReachesResource(entry, e) ==
  /\ e.object = resourceId
  /\ IF phase = "deny"
     THEN e.relation \in DenyRelations
     ELSE \/ e.relation \in AllowedRelations
          \/ /\ kindOf[e.relation] = "containment"
             /\ e.relation \in TraversalRelations
             /\ entry.hasActionGrant

\* The relationship leads on to another node of the graph.
LeadsOn(entry, e) ==
  /\ e.object # resourceId
  /\ IF phase = "deny" THEN CanTraverseDenyRelationship(e)
     ELSE CanTraverseRelationship(e, entry.hasActionGrant)
  /\ IsActiveGraphNode(input, e.object)

Following(entry, e) ==
  [node |-> e.object,
   hasActionGrant |-> phase = "allow" /\ (entry.hasActionGrant \/ e.relation \in AllowedRelations),
   path |-> Append(entry.path, e)]

\* Wrong: a node is entered once, with whatever grant it was found first.
IsNewNode(next) == \A i \in DOMAIN queue : queue[i].node # next.node

\* Wrong: no node is ever known.
IsAlwaysNew(next) == TRUE

\* A node is entered again only to carry a grant it was not found with before.
IsNew(next) ==
  \A i \in DOMAIN queue :
    queue[i].node = next.node => ~queue[i].hasActionGrant /\ next.hasActionGrant

Scanning ==
  /\ phase \in {"deny", "allow"}
  /\ head <= Len(queue)
  /\ pos <= Len(Listed)

\* recordRelationshipScan, before anything is known of the relationship.
RecordRelationshipScan == scans' = scans + 1
ScanWithinBound == scans + 1 <= input.bounds.maxRelationshipScans

DepthWithinBound == Len(Entry.path) + 1 <= input.bounds.maxDepth

\* The scan and the depth of a relationship inside the tenant are within bounds.
Admitted ==
  /\ Scanning
  /\ RecordRelationshipScan
  /\ ScanWithinBound
  /\ RelationshipMatchesTenantBoundary(input, Edge)
  /\ DepthWithinBound

ExceedRelationshipScans ==
  /\ Scanning
  /\ RecordRelationshipScan
  /\ ~ScanWithinBound
  /\ Conclude("DENY_TRAVERSAL_BOUND_EXCEEDED", << >>)
  /\ UNCHANGED <<input, queue, head, pos, seen>>

SkipOtherTenant ==
  /\ Scanning
  /\ RecordRelationshipScan
  /\ ScanWithinBound
  /\ ~RelationshipMatchesTenantBoundary(input, Edge)
  /\ pos' = pos + 1
  /\ UNCHANGED <<input, phase, queue, head, seen, reason, path>>

ExceedDepth ==
  /\ Scanning
  /\ RecordRelationshipScan
  /\ ScanWithinBound
  /\ RelationshipMatchesTenantBoundary(input, Edge)
  /\ ~DepthWithinBound
  /\ Conclude("DENY_TRAVERSAL_BOUND_EXCEEDED", << >>)
  /\ UNCHANGED <<input, queue, head, pos, seen>>

\* A relationship with several conditional entries is ambiguous and denied.
CaveatsPass(steps) ==
  \A k \in DOMAIN steps :
    LET matching == {c \in Conditional : c.relation = steps[k].relation}
    IN  /\ \A c, d \in matching : c = d
        /\ \A c \in matching : c.caveats \subseteq steps[k].met

FindDeny ==
  /\ Admitted
  /\ phase = "deny"
  /\ ReachesResource(Entry, Edge)
  /\ Conclude("DENY_EXPLICIT_OVERRIDE", Append(Entry.path, Edge))
  /\ UNCHANGED <<input, queue, head, pos, seen>>

FindAllow ==
  LET found == Append(Entry.path, Edge)
  IN  /\ Admitted
      /\ phase = "allow"
      /\ ReachesResource(Entry, Edge)
      /\ Conclude(IF CaveatsPass(found) THEN "ALLOW_VIA_RELATIONSHIP_PATH" ELSE "DENY_POLICY_CAVEAT",
                  found)
      /\ UNCHANGED <<input, queue, head, pos, seen>>

Pass ==
  /\ Admitted
  /\ ~ReachesResource(Entry, Edge)
  /\ ~(LeadsOn(Entry, Edge) /\ IsNew(Following(Entry, Edge)))
  /\ pos' = pos + 1
  /\ UNCHANGED <<input, phase, queue, head, seen, reason, path>>

\* recordVisitedNode; a node that the deny search has met counts once.
Visit ==
  /\ Admitted
  /\ LeadsOn(Entry, Edge)
  /\ IsNew(Following(Entry, Edge))
  /\ seen' = seen \cup {Edge.object}
  /\ Cardinality(seen') <= input.bounds.maxVisitedNodes
  /\ queue' = Append(queue, Following(Entry, Edge))
  /\ pos' = pos + 1
  /\ UNCHANGED <<input, phase, head, reason, path>>

ExceedVisitedNodes ==
  /\ Admitted
  /\ LeadsOn(Entry, Edge)
  /\ IsNew(Following(Entry, Edge))
  /\ seen' = seen \cup {Edge.object}
  /\ Cardinality(seen') > input.bounds.maxVisitedNodes
  /\ Conclude("DENY_TRAVERSAL_BOUND_EXCEEDED", << >>)
  /\ UNCHANGED <<input, queue, head, pos>>

-----------------------------------------------------------------------------
(* The course of a search *)

\* Wrong: the same entry again.
SameEntry ==
  /\ phase \in {"deny", "allow"}
  /\ head <= Len(queue)
  /\ pos > Len(Listed)
  /\ pos' = 1
  /\ UNCHANGED <<input, phase, queue, head, scans, seen, reason, path>>

NextEntry ==
  /\ phase \in {"deny", "allow"}
  /\ head <= Len(queue)
  /\ pos > Len(Listed)
  /\ head' = head + 1
  /\ pos' = 1
  /\ UNCHANGED <<input, phase, queue, scans, seen, reason, path>>

NoDeny ==
  /\ phase = "deny"
  /\ head > Len(queue)
  /\ StartSearch("allow")
  /\ UNCHANGED <<input, scans, seen, reason, path>>

NoAllow ==
  /\ phase = "allow"
  /\ head > Len(queue)
  /\ Conclude("DENY_DEFAULT_NO_RELATIONSHIP_PATH", << >>)
  /\ UNCHANGED <<input, queue, head, pos, scans, seen>>

Init ==
  /\ input \in Input
  /\ phase = "check"
  /\ queue = << >>
  /\ head = 1
  /\ pos = 1
  /\ scans = 0
  /\ seen = {subjectId}
  /\ reason = None
  /\ path = << >>

Next ==
  \/ \E k \in 1 .. 9 : RejectRequest(k)
  \/ AcceptRequest
  \/ ExceedRelationshipScans
  \/ SkipOtherTenant
  \/ ExceedDepth
  \/ FindDeny
  \/ FindAllow
  \/ Pass
  \/ Visit
  \/ ExceedVisitedNodes
  \/ NextEntry
  \/ NoDeny
  \/ NoAllow

Spec == Init /\ [][Next]_vars

\* #evaluate is synchronous: once called it runs to its end.
FairSpec == Spec /\ WF_vars(Next)

-----------------------------------------------------------------------------
(* What a decision means: reachability, independent of any search. A set of *)
(* nodes is closed if it holds everything its members lead to; what is in   *)
(* every closed set is reached.                                             *)

Edges(i, n) == {i.relationships[n][k] : k \in DOMAIN i.relationships[n]}

\* The relationships of the subject's tenant.
Inside(i, n) ==
  {e \in Edges(i, n) : /\ e.tenant \in {None, TenantIdFor(i, subjectId)}
                       /\ TenantIdFor(i, e.object) = TenantIdFor(i, subjectId)}

DenyClosed(i, S) ==
  /\ subjectId \in S
  /\ \A n \in S : \A e \in Inside(i, n) :
       /\ kindOf[e.relation] = "membership"
       /\ e.object # resourceId
       /\ IsActiveGraphNode(i, e.object)
       => e.object \in S

DenyReach(i) == {n \in Node : \A S \in SUBSET Node : DenyClosed(i, S) => n \in S}

\* The subject, or a group it belongs to, is denied the resource.
Denied(i) ==
  \E n \in DenyReach(i) : \E e \in Inside(i, n) : e.object = resourceId /\ e.relation \in DenyRelations

\* <<n, g>>: n is reached, and the action was granted on the way (g) or not.
GrantClosed(i, S) ==
  /\ <<subjectId, FALSE>> \in S
  /\ \A s \in S : \A e \in Inside(i, s[1]) :
       /\ CanTraverseRelationship(e, s[2])
       /\ e.object # resourceId
       /\ IsActiveGraphNode(i, e.object)
       => <<e.object, s[2] \/ e.relation \in AllowedRelations>> \in S

GrantReach(i) ==
  {s \in Node \X BOOLEAN : \A S \in SUBSET (Node \X BOOLEAN) : GrantClosed(i, S) => s \in S}

\* A grant on the resource is reached, or a container of it under a grant.
Granted(i) ==
  \E s \in GrantReach(i) : \E e \in Inside(i, s[1]) :
    /\ e.object = resourceId
    /\ \/ e.relation \in AllowedRelations
       \/ kindOf[e.relation] = "containment" /\ e.relation \in TraversalRelations /\ s[2]

-----------------------------------------------------------------------------
(* Properties *)

QueueEntry == [node : Node, hasActionGrant : BOOLEAN, path : Seq(Relationship)]

(* The state is well-formed, and no entry lies deeper than maxDepth: the    *)
(* guard refuses a relationship before the node behind it is queued.        *)
TypeOK ==
  /\ input \in InputRecord /\ Indexed(input)
  /\ phase \in {"check", "deny", "allow", "done"}
  /\ queue \in Seq(QueueEntry)
  /\ \A i \in DOMAIN queue : Len(queue[i].path) <= input.bounds.maxDepth
  /\ head \in Nat \ {0}
  /\ pos \in Nat \ {0}
  /\ scans \in Nat
  /\ seen \subseteq Node
  /\ reason \in Reason \cup {None}
  /\ path \in Seq(Relationship)

(* An allow is right whatever the shape of the graph: the action is granted *)
(* along relationships of the subject's tenant, no deny applies to the      *)
(* subject or its groups, and every caveat on the path is met.              *)
AllowIsJustified ==
  reason = "ALLOW_VIA_RELATIONSHIP_PATH" =>
    /\ Granted(input)
    /\ ~Denied(input)
    /\ IsActiveGraphNode(input, subjectId) /\ IsActiveGraphNode(input, resourceId)
    /\ CaveatsPass(path)

(* A refusal says the truth: an explicit deny exists, and a denial by       *)
(* default means that neither a deny nor a grant can be reached, although   *)
(* findAllowPath enters a node only once per grant and stops at the first   *)
(* path.                                                                    *)
RefusalIsTrue ==
  /\ reason = "DENY_EXPLICIT_OVERRIDE" => Denied(input)
  /\ reason = "DENY_DEFAULT_NO_RELATIONSHIP_PATH" => ~Granted(input) /\ ~Denied(input)
  /\ reason = "DENY_POLICY_CAVEAT" => Granted(input) /\ ~CaveatsPass(path)

(* The path of explain is a chain of listed relationships from the subject  *)
(* to the resource, no longer than maxDepth, that stays in one tenant and   *)
(* passes only nodes that are active.                                       *)
PathIsReal ==
  path # << >> =>
    /\ path[1].subject = subjectId
    /\ path[Len(path)].object = resourceId
    /\ Len(path) <= input.bounds.maxDepth
    /\ \A k \in DOMAIN path :
         /\ path[k] \in Edges(input, path[k].subject)
         /\ TenantIdFor(input, path[k].object) = TenantIdFor(input, subjectId)
         /\ IsActiveGraphNode(input, path[k].object)
         /\ k > 1 => path[k].subject = path[k - 1].object

RelationshipCount(i) ==
  Cardinality(UNION {{n} \X DOMAIN i.relationships[n] : n \in Node})

(* The bounds deny only what is large. The deny search scans a node's       *)
(* relationships once and the allow search at most twice (without and with  *)
(* a grant), so a graph of a third of maxRelationshipScans, whose nodes fit *)
(* in maxVisitedNodes and twice in maxDepth, is always decided.             *)
SmallGraphIsDecided ==
  reason = "DENY_TRAVERSAL_BOUND_EXCEEDED" =>
    \/ 3 * RelationshipCount(input) > input.bounds.maxRelationshipScans
    \/ Cardinality(Node) > input.bounds.maxVisitedNodes
    \/ 2 * Cardinality(Node) > input.bounds.maxDepth

(* An evaluation answers, in cyclic graphs too.                             *)
Answers == <>(phase = "done")
=============================================================================

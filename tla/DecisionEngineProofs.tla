------------------------ MODULE DecisionEngineProofs ------------------------
(***************************************************************************)
(* The two searches of DecisionEngine compute reachability, for graphs of  *)
(* any size and any bounds: Spec implies TypeOK, AllowIsJustified,         *)
(* RefusalIsTrue, PathIsReal and SmallGraphIsDecided.                      *)
(*                                                                         *)
(* The queue of a search only holds what is reached, because every entry   *)
(* was led to by an earlier one (DenyFound, GrantFound), and what has been *)
(* handled leads nowhere outside the queue (DenyHandled, GrantHandled).    *)
(* When the queue is exhausted it is therefore closed, and the reached     *)
(* nodes, which are in every closed set, are all in it.                    *)
(*                                                                         *)
(* The bounds are reached by large graphs only, because a search queues a  *)
(* node at most once with and once without a grant (Distinct): what it has *)
(* looked at is a set of relationships, each with or without a grant, that *)
(* grows with every scan (CountInv), and an entry is longer than its path. *)
(***************************************************************************)
EXTENDS DecisionEngine, SequenceTheorems, FiniteSetTheorems, TLAPS

Searching == phase \in {"deny", "allow"}

\* The request has passed its checks.
Accepted(i) ==
  /\ IsActiveGraphNode(i, subjectId)
  /\ IsActiveGraphNode(i, resourceId)
  /\ TenantIdFor(i, resourceId) = TenantIdFor(i, subjectId)

\* p is a chain of relationships of the graph from the subject to n.
Chain(i, p, n) ==
  /\ p = << >> => n = subjectId
  /\ p # << >> => p[1].subject = subjectId /\ p[Len(p)].object = n
  /\ \A k \in DOMAIN p :
       /\ p[k] \in Edges(i, p[k].subject)
       /\ TenantIdFor(i, p[k].object) = TenantIdFor(i, subjectId)
       /\ IsActiveGraphNode(i, p[k].object)
       /\ k > 1 => p[k].subject = p[k - 1].object

\* The k-th relationship of the j-th entry has been looked at.
Handled(j, k) == j < head \/ (j = head /\ k < pos)

At(j, k) == input.relationships[queue[j].node][k]

SearchInv ==
  Searching =>
    /\ Accepted(input)
    /\ Len(queue) > 0 /\ queue[1] = Root
    /\ head <= Len(queue) + 1
    /\ \A j \in DOMAIN queue : Chain(input, queue[j].path, queue[j].node)

DenyFound ==
  phase = "deny" =>
    \A j \in DOMAIN queue : queue[j].node \in DenyReach(input)

DenyHandled ==
  phase = "deny" =>
    \A j \in DOMAIN queue : \A k \in DOMAIN input.relationships[queue[j].node] :
      Handled(j, k) /\ RelationshipMatchesTenantBoundary(input, At(j, k)) =>
        /\ ~(At(j, k).object = resourceId /\ At(j, k).relation \in DenyRelations)
        /\ /\ kindOf[At(j, k).relation] = "membership"
           /\ At(j, k).object # resourceId
           /\ IsActiveGraphNode(input, At(j, k).object)
           => \E m \in DOMAIN queue : queue[m].node = At(j, k).object

GrantFound ==
  phase = "allow" =>
    /\ ~Denied(input)
    /\ \A j \in DOMAIN queue : <<queue[j].node, queue[j].hasActionGrant>> \in GrantReach(input)

\* An entry that carries a grant stands for the same node without one.
GrantHandled ==
  phase = "allow" =>
    \A j \in DOMAIN queue : \A k \in DOMAIN input.relationships[queue[j].node] :
      Handled(j, k) /\ RelationshipMatchesTenantBoundary(input, At(j, k)) =>
        /\ ~ /\ At(j, k).object = resourceId
             /\ \/ At(j, k).relation \in AllowedRelations
                \/ /\ kindOf[At(j, k).relation] = "containment"
                   /\ At(j, k).relation \in TraversalRelations
                   /\ queue[j].hasActionGrant
        /\ /\ CanTraverseRelationship(At(j, k), queue[j].hasActionGrant)
           /\ At(j, k).object # resourceId
           /\ IsActiveGraphNode(input, At(j, k).object)
           => \E m \in DOMAIN queue :
                /\ queue[m].node = At(j, k).object
                /\ queue[j].hasActionGrant \/ At(j, k).relation \in AllowedRelations
                     => queue[m].hasActionGrant

Unreported == phase # "done" => reason = None /\ path = << >>

IInv ==
  /\ TypeOK
  /\ SearchInv
  /\ DenyFound
  /\ DenyHandled
  /\ GrantFound
  /\ GrantHandled
  /\ Unreported
  /\ AllowIsJustified
  /\ RefusalIsTrue
  /\ PathIsReal

-----------------------------------------------------------------------------
(* Reachability *)

(* The subject itself is reached by the deny search. *)
LEMMA DenyRoot ==
  ASSUME NEW i
  PROVE  subjectId \in DenyReach(i)
BY RequestAssumption DEF DenyReach, DenyClosed

(* What a reached node leads to by membership is reached. *)
LEMMA DenyStep ==
  ASSUME NEW i, NEW n \in DenyReach(i), NEW e \in Inside(i, n),
         kindOf[e.relation] = "membership", e.object # resourceId,
         IsActiveGraphNode(i, e.object), e.object \in Node
  PROVE  e.object \in DenyReach(i)
BY DEF DenyReach, DenyClosed

(* A closed set holds all that is reached. *)
LEMMA DenyComplete ==
  ASSUME NEW i, NEW S \in SUBSET Node, DenyClosed(i, S)
  PROVE  DenyReach(i) \subseteq S
BY DEF DenyReach

(* The subject without a grant is reached by the allow search. *)
LEMMA GrantRoot ==
  ASSUME NEW i
  PROVE  <<subjectId, FALSE>> \in GrantReach(i)
BY RequestAssumption DEF GrantReach, GrantClosed

(* What a reached pair leads to is reached, with the grant it picks up. *)
LEMMA GrantStep ==
  ASSUME NEW i, NEW n, NEW g, <<n, g>> \in GrantReach(i), NEW e \in Inside(i, n),
         CanTraverseRelationship(e, g), e.object # resourceId,
         IsActiveGraphNode(i, e.object), e.object \in Node
  PROVE  <<e.object, g \/ e.relation \in AllowedRelations>> \in GrantReach(i)
<1> DEFINE new == <<e.object, g \/ e.relation \in AllowedRelations>>
<1>1. new \in Node \X BOOLEAN
  OBVIOUS
<1>2. ASSUME NEW S \in SUBSET (Node \X BOOLEAN), GrantClosed(i, S)
      PROVE  new \in S
  <2>1. <<n, g>> \in S
    BY <1>2 DEF GrantReach
  <2>2. \A d \in Inside(i, <<n, g>>[1]) :
          /\ CanTraverseRelationship(d, <<n, g>>[2])
          /\ d.object # resourceId
          /\ IsActiveGraphNode(i, d.object)
          => <<d.object, <<n, g>>[2] \/ d.relation \in AllowedRelations>> \in S
    BY <2>1, <1>2 DEF GrantClosed
  <2> QED
    BY <2>2
<1> QED
  BY <1>1, <1>2 DEF GrantReach

(* A closed set holds all that is reached with or without a grant. *)
LEMMA GrantComplete ==
  ASSUME NEW i, NEW S \in SUBSET (Node \X BOOLEAN), GrantClosed(i, S)
  PROVE  GrantReach(i) \subseteq S
BY DEF GrantReach

-----------------------------------------------------------------------------
(* The relationship at hand *)

(* While a search scans, the entry and the relationship are well-formed and *)
(* the relationship is one the graph lists for the entry's node.            *)
LEMMA ScanType ==
  ASSUME TypeOK, Scanning
  PROVE  /\ head \in DOMAIN queue
         /\ pos \in DOMAIN Listed
         /\ Entry \in QueueEntry
         /\ Edge \in Relationship
         /\ Edge.subject = Entry.node
         /\ Edge \in Edges(input, Entry.node)
<1>1. head \in DOMAIN queue /\ Entry \in QueueEntry
  BY DEF TypeOK, Scanning, Entry
<1>2. Entry.node \in Node
  BY <1>1 DEF QueueEntry
<1>3. Listed \in Seq(Relationship)
  BY <1>2 DEF TypeOK, Listed, InputRecord
<1>4. pos \in DOMAIN Listed
  BY <1>3 DEF TypeOK, Scanning
<1>5. Edge \in Relationship
  BY <1>3, <1>4 DEF Edge
<1>6. Edge.subject = Entry.node
  BY <1>2, <1>4 DEF Edge, Listed, TypeOK, Indexed
<1>7. Edge \in Edges(input, Entry.node)
  BY <1>4 DEF Edge, Listed, Edges
<1> QED
  BY <1>1, <1>4, <1>5, <1>6, <1>7

(* A relationship inside the tenant extends a chain. *)
LEMMA ChainStep ==
  ASSUME NEW i, NEW p \in Seq(Relationship), NEW n, Chain(i, p, n),
         NEW e \in Relationship, e.subject = n, e \in Edges(i, n),
         TenantIdFor(i, e.object) = TenantIdFor(i, subjectId),
         IsActiveGraphNode(i, e.object)
  PROVE  /\ Chain(i, Append(p, e), e.object)
         /\ Append(p, e) \in Seq(Relationship)
         /\ Append(p, e) # << >>
         /\ Len(Append(p, e)) = Len(p) + 1
<1> DEFINE q == Append(p, e)
<1>1. /\ q \in Seq(Relationship)
      /\ Len(q) = Len(p) + 1
      /\ q[Len(p) + 1] = e
      /\ \A k \in 1 .. Len(p) : q[k] = p[k]
      /\ DOMAIN q = 1 .. Len(p) + 1
      /\ Len(p) \in Nat
  OBVIOUS
<1>2. q # << >>
  BY <1>1
<1> HIDE DEF q
<1>3. q[1].subject = subjectId
  <2>1. CASE p = << >>
    BY <1>1, <2>1 DEF Chain
  <2>2. CASE p # << >>
    BY <1>1, <2>2 DEF Chain
  <2> QED
    BY <2>1, <2>2
<1>4. ASSUME NEW k \in DOMAIN q
      PROVE  /\ q[k] \in Edges(i, q[k].subject)
             /\ TenantIdFor(i, q[k].object) = TenantIdFor(i, subjectId)
             /\ IsActiveGraphNode(i, q[k].object)
             /\ k > 1 => q[k].subject = q[k - 1].object
  <2>1. CASE k \in 1 .. Len(p)
    <3>1. k \in DOMAIN p /\ q[k] = p[k]
      BY <1>1, <2>1
    <3>2. k > 1 => q[k - 1] = p[k - 1]
      BY <1>1, <2>1
    <3> QED
      BY <3>1, <3>2 DEF Chain
  <2>2. CASE k = Len(p) + 1
    <3>1. q[k] = e
      BY <1>1, <2>2
    <3>2. k > 1 => q[k - 1] = p[Len(p)] /\ p # << >>
      BY <1>1, <2>2
    <3>3. k > 1 => q[k].subject = q[k - 1].object
      BY <3>1, <3>2 DEF Chain
    <3> QED
      BY <3>1, <3>3
  <2> QED
    BY <1>1, <2>1, <2>2
<1>5. q # << >> => q[1].subject = subjectId /\ q[Len(q)].object = e.object
  BY <1>1, <1>3
<1>6. Chain(i, q, e.object)
  BY <1>2, <1>4, <1>5 DEF Chain
<1> QED
  BY <1>1, <1>2, <1>6 DEF q

-----------------------------------------------------------------------------
(* Conclusions *)

(* When an evaluation ends, only what it reports is left to show. *)
LEMMA Concluding ==
  ASSUME IInv, input' = input, queue' = queue, head' = head, pos' = pos,
         scans' \in Nat, seen' \subseteq Node,
         NEW code \in Reason, NEW steps \in Seq(Relationship), Conclude(code, steps),
         AllowIsJustified', RefusalIsTrue', PathIsReal'
  PROVE  IInv'
<1>1. TypeOK'
  BY DEF IInv, TypeOK, Conclude
<1>2. phase' = "done"
  BY DEF Conclude
<1> QED
  BY <1>1, <1>2 DEF IInv, SearchInv, Searching, DenyFound, DenyHandled, GrantFound, GrantHandled,
     Unreported

(* A refusal without a path that claims nothing about the graph. *)
LEMMA ConcludingPlainly ==
  ASSUME IInv, input' = input, queue' = queue, head' = head, pos' = pos,
         scans' \in Nat, seen' \subseteq Node,
         NEW code \in Reason \ {"ALLOW_VIA_RELATIONSHIP_PATH", "DENY_EXPLICIT_OVERRIDE",
                                "DENY_DEFAULT_NO_RELATIONSHIP_PATH", "DENY_POLICY_CAVEAT"},
         Conclude(code, << >>)
  PROVE  IInv'
<1>1. AllowIsJustified' /\ RefusalIsTrue' /\ PathIsReal'
  BY DEF Conclude, AllowIsJustified, RefusalIsTrue, PathIsReal
<1>2. << >> \in Seq(Relationship)
  OBVIOUS
<1> QED
  BY <1>1, <1>2, Concluding

(* A request that fails a check is refused. *)
LEMMA RejectRequestPreserves ==
  ASSUME IInv, NEW k \in 1 .. 9, RejectRequest(k)
  PROVE  IInv'
<1> DEFINE code == RequestChecks(input)[k].reason
<1>1. code \in Reason \ {"ALLOW_VIA_RELATIONSHIP_PATH", "DENY_EXPLICIT_OVERRIDE",
                         "DENY_DEFAULT_NO_RELATIONSHIP_PATH", "DENY_POLICY_CAVEAT"}
  BY DEF RequestChecks, Reason
<1>2. Conclude(code, << >>) /\ UNCHANGED <<input, queue, head, pos, scans, seen>>
  BY DEF RejectRequest
<1>3. scans' \in Nat /\ seen' \subseteq Node
  BY <1>2 DEF IInv, TypeOK
<1> HIDE DEF code
<1> QED
  BY <1>1, <1>2, <1>3, ConcludingPlainly

(* A search stopped by a bound is a refusal. *)
LEMMA BoundPreserves ==
  ASSUME IInv, ExceedRelationshipScans \/ ExceedDepth \/ ExceedVisitedNodes
  PROVE  IInv'
<1>1. Scanning /\ Conclude("DENY_TRAVERSAL_BOUND_EXCEEDED", << >>)
  BY DEF ExceedRelationshipScans, ExceedDepth, ExceedVisitedNodes, Admitted
<1>2. UNCHANGED <<input, queue, head, pos>> /\ scans' = scans + 1
  BY DEF ExceedRelationshipScans, ExceedDepth, ExceedVisitedNodes, Admitted, RecordRelationshipScan
<1>3. seen' \in {seen, seen \cup {Edge.object}}
  BY DEF ExceedRelationshipScans, ExceedDepth, ExceedVisitedNodes
<1>4. Edge.object \in Node
  BY <1>1, ScanType DEF IInv, Relationship
<1>5. scans' \in Nat /\ seen' \subseteq Node
  BY <1>2, <1>3, <1>4 DEF IInv, TypeOK
<1>6. "DENY_TRAVERSAL_BOUND_EXCEEDED" \in
        Reason \ {"ALLOW_VIA_RELATIONSHIP_PATH", "DENY_EXPLICIT_OVERRIDE",
                  "DENY_DEFAULT_NO_RELATIONSHIP_PATH", "DENY_POLICY_CAVEAT"}
  BY DEF Reason
<1> QED
  BY <1>1, <1>2, <1>5, <1>6, ConcludingPlainly

(* The relationship at hand, once admitted, is one of the tenant. *)
LEMMA AdmittedEdge ==
  ASSUME IInv, Admitted
  PROVE  /\ Scanning
         /\ Edge \in Inside(input, Entry.node)
         /\ Edge.object \in Node
         /\ Len(Entry.path) + 1 <= input.bounds.maxDepth
         /\ scans' \in Nat
         /\ Chain(input, Entry.path, Entry.node)
         /\ Entry.path \in Seq(Relationship)
<1>1. Scanning /\ RelationshipMatchesTenantBoundary(input, Edge) /\ DepthWithinBound
  BY DEF Admitted
<1>2. Edge \in Inside(input, Entry.node)
  BY <1>1, ScanType DEF IInv, Inside, RelationshipMatchesTenantBoundary
<1>3. Edge.object \in Node /\ Entry.path \in Seq(Relationship)
  BY <1>1, ScanType DEF IInv, Relationship, QueueEntry
<1>4. scans' \in Nat
  BY DEF Admitted, RecordRelationshipScan, IInv, TypeOK
<1>5. Chain(input, Entry.path, Entry.node)
  BY <1>1, ScanType DEF IInv, SearchInv, Searching, Scanning, Entry
<1> QED
  BY <1>1, <1>2, <1>3, <1>4, <1>5 DEF DepthWithinBound

(* The path reported with the resource is real. *)
LEMMA FoundPath ==
  ASSUME IInv, Admitted, Edge.object = resourceId,
         path' = Append(Entry.path, Edge), input' = input
  PROVE  /\ PathIsReal'
         /\ Append(Entry.path, Edge) \in Seq(Relationship)
<1>1. Scanning
  BY DEF Admitted
<1>2. IsActiveGraphNode(input, Edge.object)
  BY <1>1 DEF IInv, SearchInv, Searching, Scanning, Accepted
<1>3. TenantIdFor(input, Edge.object) = TenantIdFor(input, subjectId)
  BY AdmittedEdge DEF Inside
<1>4. Edge \in Relationship /\ Edge.subject = Entry.node /\ Edge \in Edges(input, Entry.node)
  BY <1>1, ScanType DEF IInv
<1>5. /\ Chain(input, Append(Entry.path, Edge), Edge.object)
      /\ Append(Entry.path, Edge) \in Seq(Relationship)
      /\ Append(Entry.path, Edge) # << >>
      /\ Len(Append(Entry.path, Edge)) = Len(Entry.path) + 1
  BY <1>2, <1>3, <1>4, AdmittedEdge, ChainStep
<1>6. Len(path') <= input'.bounds.maxDepth
  BY <1>5, AdmittedEdge
<1>7. /\ path'[1].subject = subjectId
      /\ path'[Len(path')].object = resourceId
      /\ \A k \in DOMAIN path' :
           /\ path'[k] \in Edges(input', path'[k].subject)
           /\ TenantIdFor(input', path'[k].object) = TenantIdFor(input', subjectId)
           /\ IsActiveGraphNode(input', path'[k].object)
           /\ k > 1 => path'[k].subject = path'[k - 1].object
  BY <1>5 DEF Chain
<1> QED
  BY <1>5, <1>6, <1>7 DEF PathIsReal

(* A deny that is found is one the subject or a group of it is under. *)
LEMMA FindDenyPreserves ==
  ASSUME IInv, FindDeny
  PROVE  IInv'
<1> DEFINE found == Append(Entry.path, Edge)
<1>1. /\ Admitted
      /\ phase = "deny"
      /\ Edge.object = resourceId
      /\ Edge.relation \in DenyRelations
      /\ Conclude("DENY_EXPLICIT_OVERRIDE", found)
      /\ UNCHANGED <<input, queue, head, pos, seen>>
  BY DEF FindDeny, ReachesResource
<1>2. PathIsReal' /\ found \in Seq(Relationship)
  BY <1>1, FoundPath DEF Conclude
<1>3. Entry.node \in DenyReach(input)
  BY <1>1, AdmittedEdge, ScanType DEF IInv, DenyFound, Entry
<1>4. Denied(input)
  BY <1>1, <1>3, AdmittedEdge DEF Denied
<1>5. AllowIsJustified' /\ RefusalIsTrue'
  BY <1>1, <1>4 DEF Conclude, AllowIsJustified, RefusalIsTrue
<1>6. "DENY_EXPLICIT_OVERRIDE" \in Reason /\ seen' \subseteq Node /\ scans' \in Nat
  BY <1>1, AdmittedEdge DEF Reason, IInv, TypeOK
<1> HIDE DEF found
<1> QED
  BY <1>1, <1>2, <1>5, <1>6, Concluding

(* A grant that is found is reached, and no deny was. *)
LEMMA FindAllowPreserves ==
  ASSUME IInv, FindAllow
  PROVE  IInv'
<1> DEFINE found == Append(Entry.path, Edge)
<1> DEFINE code == IF CaveatsPass(found) THEN "ALLOW_VIA_RELATIONSHIP_PATH" ELSE "DENY_POLICY_CAVEAT"
<1>1. /\ Admitted
      /\ phase = "allow"
      /\ Edge.object = resourceId
      /\ \/ Edge.relation \in AllowedRelations
         \/ /\ kindOf[Edge.relation] = "containment"
            /\ Edge.relation \in TraversalRelations
            /\ Entry.hasActionGrant
      /\ Conclude(code, found)
      /\ UNCHANGED <<input, queue, head, pos, seen>>
  BY DEF FindAllow, ReachesResource
<1>2. PathIsReal' /\ found \in Seq(Relationship)
  BY <1>1, FoundPath DEF Conclude
<1>3. <<Entry.node, Entry.hasActionGrant>> \in GrantReach(input) /\ ~Denied(input)
  BY <1>1, AdmittedEdge, ScanType DEF IInv, GrantFound, Entry
<1>4. Granted(input)
  BY <1>1, <1>3, AdmittedEdge DEF Granted
<1>5. IsActiveGraphNode(input, subjectId) /\ IsActiveGraphNode(input, resourceId)
  BY <1>1 DEF IInv, SearchInv, Searching, Accepted
<1>6. path' = found /\ reason' = code
  BY <1>1 DEF Conclude
<1> HIDE DEF found
<1>7. AllowIsJustified' /\ RefusalIsTrue'
  BY <1>1, <1>3, <1>4, <1>5, <1>6 DEF AllowIsJustified, RefusalIsTrue, CaveatsPass
<1>8. code \in Reason /\ seen' \subseteq Node /\ scans' \in Nat
  BY <1>1, AdmittedEdge DEF Reason, IInv, TypeOK
<1> HIDE DEF code
<1> QED
  BY <1>1, <1>2, <1>7, <1>8, Concluding

-----------------------------------------------------------------------------
(* The start *)

(* Nothing has been searched or reported at the start. *)
LEMMA InitEstablishes ==
  ASSUME Init
  PROVE  IInv
<1>1. input \in InputRecord /\ Indexed(input)
  BY InputAssumption DEF Init
<1>2. TypeOK
  BY <1>1, RequestAssumption DEF Init, TypeOK
<1>3. AllowIsJustified /\ RefusalIsTrue /\ PathIsReal
  <2>1. reason = None /\ path = << >>
    BY DEF Init
  <2>2. reason \notin {"ALLOW_VIA_RELATIONSHIP_PATH", "DENY_EXPLICIT_OVERRIDE",
                      "DENY_DEFAULT_NO_RELATIONSHIP_PATH", "DENY_POLICY_CAVEAT"}
    BY <2>1, NoneAssumption DEF Reason
  <2> QED
    BY <2>1, <2>2 DEF AllowIsJustified, RefusalIsTrue, PathIsReal
<1> QED
  BY <1>2, <1>3 DEF Init, IInv, SearchInv, Searching, DenyFound, DenyHandled, GrantFound,
     GrantHandled, Unreported

(* The queue that a search starts from. *)
LEMMA RootQueue ==
  /\ <<Root>> \in Seq(QueueEntry)
  /\ Len(<<Root>>) = 1
  /\ DOMAIN <<Root>> = {1}
  /\ <<Root>>[1] = Root
  /\ Root.path = << >> /\ Root.node = subjectId /\ Root.hasActionGrant = FALSE
  /\ \A i : Chain(i, Root.path, Root.node)
<1>1. Root \in QueueEntry
  BY RequestAssumption DEF Root, QueueEntry
<1>2. Root.path = << >> /\ Root.node = subjectId /\ Root.hasActionGrant = FALSE
  BY DEF Root
<1>3. \A i : Chain(i, Root.path, Root.node)
  BY <1>2 DEF Chain
<1> QED
  BY <1>1, <1>2, <1>3

(* A search that starts has handled nothing. *)
LEMMA StartPreserves ==
  ASSUME IInv, NEW p \in {"deny", "allow"}, StartSearch(p), Accepted(input),
         p = "allow" => ~Denied(input), phase # "done",
         UNCHANGED <<input, scans, seen, reason, path>>
  PROVE  IInv'
<1>1. phase' = p /\ queue' = <<Root>> /\ head' = 1 /\ pos' = 1
  BY DEF StartSearch
<1>2. \A j \in DOMAIN queue' : j = 1 /\ queue'[j] = Root
  BY <1>1, RootQueue
<1>3. TypeOK'
  <2>1. \A j \in DOMAIN queue' : Len(queue'[j].path) <= input'.bounds.maxDepth
    BY <1>2, RootQueue DEF IInv, TypeOK, InputRecord, Bounds
  <2> QED
    BY <1>1, <2>1, RootQueue DEF IInv, TypeOK
<1>4. SearchInv'
  BY <1>1, <1>2, RootQueue DEF SearchInv
<1>5. DenyFound'
  BY <1>2, RootQueue, DenyRoot DEF DenyFound
<1>6. GrantFound'
  BY <1>1, <1>2, RootQueue, GrantRoot DEF GrantFound
<1>7. \A j \in DOMAIN queue' : \A k \in DOMAIN input'.relationships[queue'[j].node] : ~Handled(j, k)'
  <2>1. \A k \in DOMAIN input.relationships[subjectId] : k \in Nat /\ k >= 1
    <3>1. input.relationships[subjectId] \in Seq(Relationship)
      BY RequestAssumption DEF IInv, TypeOK, InputRecord
    <3> QED
      BY <3>1
  <2> QED
    BY <1>1, <1>2, <2>1, RootQueue DEF Handled
<1>8. DenyHandled' /\ GrantHandled'
  BY <1>7 DEF DenyHandled, GrantHandled
<1>9. Unreported' /\ AllowIsJustified' /\ RefusalIsTrue' /\ PathIsReal'
  BY <1>1 DEF IInv, Unreported, AllowIsJustified, RefusalIsTrue, PathIsReal, CaveatsPass
<1> QED
  BY <1>3, <1>4, <1>5, <1>6, <1>8, <1>9 DEF IInv

(* A request that passes its checks starts the deny search. *)
LEMMA AcceptRequestPreserves ==
  ASSUME IInv, AcceptRequest
  PROVE  IInv'
<1>1. RequestChecks(input)[5].ok /\ RequestChecks(input)[8].ok /\ RequestChecks(input)[9].ok
  BY DEF AcceptRequest, RequestChecks
<1>2. Accepted(input)
  BY <1>1 DEF RequestChecks, Accepted, IsActiveGraphNode, TenantBoundaryDenies
<1> QED
  BY <1>2, StartPreserves DEF AcceptRequest

-----------------------------------------------------------------------------
(* The middle of a search *)

(* What the deny search must know of a relationship it has looked at. *)
DenyFact(e) ==
  RelationshipMatchesTenantBoundary(input, e) =>
    /\ ~(e.object = resourceId /\ e.relation \in DenyRelations)
    /\ /\ kindOf[e.relation] = "membership"
       /\ e.object # resourceId
       /\ IsActiveGraphNode(input, e.object)
       => \E m \in DOMAIN queue : queue[m].node = e.object

\* And the allow search, for an entry with grant g.
GrantFact(e, g) ==
  RelationshipMatchesTenantBoundary(input, e) =>
    /\ ~ /\ e.object = resourceId
         /\ \/ e.relation \in AllowedRelations
            \/ /\ kindOf[e.relation] = "containment"
               /\ e.relation \in TraversalRelations
               /\ g
    /\ /\ CanTraverseRelationship(e, g)
       /\ e.object # resourceId
       /\ IsActiveGraphNode(input, e.object)
       => \E m \in DOMAIN queue :
            /\ queue[m].node = e.object
            /\ g \/ e.relation \in AllowedRelations => queue[m].hasActionGrant

(* The invariants of the two searches in terms of these facts. *)
LEMMA HandledFacts ==
  /\ DenyHandled <=>
       (phase = "deny" =>
          \A j \in DOMAIN queue : \A k \in DOMAIN input.relationships[queue[j].node] :
            Handled(j, k) => DenyFact(At(j, k)))
  /\ GrantHandled <=>
       (phase = "allow" =>
          \A j \in DOMAIN queue : \A k \in DOMAIN input.relationships[queue[j].node] :
            Handled(j, k) => GrantFact(At(j, k), queue[j].hasActionGrant))
BY DEF DenyHandled, GrantHandled, DenyFact, GrantFact

(* A queue entry and the relationships of its node are well-formed. *)
LEMMA EntryType ==
  ASSUME TypeOK, NEW j \in DOMAIN queue
  PROVE  /\ queue[j] \in QueueEntry
         /\ queue[j].node \in Node
         /\ queue[j].hasActionGrant \in BOOLEAN
         /\ queue[j].path \in Seq(Relationship)
         /\ input.relationships[queue[j].node] \in Seq(Relationship)
         /\ \A k \in DOMAIN input.relationships[queue[j].node] :
              /\ k \in Nat /\ k >= 1
              /\ At(j, k) \in Relationship
              /\ At(j, k) \in Edges(input, queue[j].node)
<1>1. queue[j] \in QueueEntry
  BY DEF TypeOK
<1>2. /\ queue[j].node \in Node /\ queue[j].hasActionGrant \in BOOLEAN
      /\ queue[j].path \in Seq(Relationship)
  BY <1>1 DEF QueueEntry
<1>3. input.relationships[queue[j].node] \in Seq(Relationship)
  BY <1>2 DEF TypeOK, InputRecord
<1>4. \A k \in DOMAIN input.relationships[queue[j].node] :
        /\ k \in Nat /\ k >= 1
        /\ At(j, k) \in Relationship
  BY <1>3 DEF At
<1>5. \A k \in DOMAIN input.relationships[queue[j].node] : At(j, k) \in Edges(input, queue[j].node)
  BY DEF At, Edges
<1> QED
  BY <1>1, <1>2, <1>3, <1>4, <1>5

(* Looking at one more relationship without queueing anything. *)
LEMMA AdvancePreserves ==
  ASSUME IInv, Scanning, UNCHANGED <<input, phase, queue, head, seen, reason, path>>,
         pos' = pos + 1, scans' \in Nat,
         phase = "deny" => DenyFact(Edge),
         phase = "allow" => GrantFact(Edge, Entry.hasActionGrant)
  PROVE  IInv'
<1>1. TypeOK'
  BY DEF IInv, TypeOK
<1>2. SearchInv' /\ DenyFound' /\ GrantFound'
  BY DEF IInv, SearchInv, Searching, DenyFound, GrantFound
<1>3. ASSUME NEW j \in DOMAIN queue, NEW k \in DOMAIN input.relationships[queue[j].node],
             Handled(j, k)'
      PROVE  Handled(j, k) \/ (j = head /\ k = pos)
  <2>1. k \in Nat
    BY EntryType DEF IInv
  <2> QED
    BY <1>3, <2>1 DEF Handled, IInv, TypeOK
<1>4. At(head, pos) = Edge /\ Entry = queue[head]
  BY DEF At, Edge, Listed, Entry
<1>5. \A e, g : (DenyFact(e)' <=> DenyFact(e)) /\ (GrantFact(e, g)' <=> GrantFact(e, g))
  BY DEF DenyFact, GrantFact
<1>6. DenyHandled'
  <2>1. phase = "deny" =>
          \A j \in DOMAIN queue : \A k \in DOMAIN input.relationships[queue[j].node] :
            Handled(j, k)' => DenyFact(At(j, k))
    BY <1>3, <1>4, HandledFacts DEF IInv
  <2> QED
    BY <2>1 DEF DenyHandled, DenyFact, At
<1>7. GrantHandled'
  <2>1. phase = "allow" =>
          \A j \in DOMAIN queue : \A k \in DOMAIN input.relationships[queue[j].node] :
            Handled(j, k)' => GrantFact(At(j, k), queue[j].hasActionGrant)
    BY <1>3, <1>4, HandledFacts DEF IInv
  <2> QED
    BY <2>1 DEF GrantHandled, GrantFact, At
<1>8. Unreported' /\ AllowIsJustified' /\ RefusalIsTrue' /\ PathIsReal'
  BY DEF IInv, Unreported, AllowIsJustified, RefusalIsTrue, PathIsReal, CaveatsPass
<1> QED
  BY <1>1, <1>2, <1>6, <1>7, <1>8 DEF IInv

(* A relationship of another tenant tells a search nothing. *)
LEMMA SkipOtherTenantPreserves ==
  ASSUME IInv, SkipOtherTenant
  PROVE  IInv'
<1>1. /\ Scanning
      /\ ~RelationshipMatchesTenantBoundary(input, Edge)
      /\ pos' = pos + 1
      /\ UNCHANGED <<input, phase, queue, head, seen, reason, path>>
  BY DEF SkipOtherTenant
<1>2. scans' \in Nat
  BY DEF SkipOtherTenant, RecordRelationshipScan, IInv, TypeOK
<1>3. DenyFact(Edge) /\ GrantFact(Edge, Entry.hasActionGrant)
  BY <1>1 DEF DenyFact, GrantFact
<1> QED
  BY <1>1, <1>2, <1>3, AdvancePreserves

(* A relationship that leads nowhere new. *)
LEMMA PassPreserves ==
  ASSUME IInv, Pass
  PROVE  IInv'
<1>1. /\ Admitted
      /\ ~ReachesResource(Entry, Edge)
      /\ ~(LeadsOn(Entry, Edge) /\ IsNew(Following(Entry, Edge)))
      /\ pos' = pos + 1
      /\ UNCHANGED <<input, phase, queue, head, seen, reason, path>>
  BY DEF Pass
<1>2. Scanning /\ scans' \in Nat
  BY <1>1, AdmittedEdge
<1> DEFINE next == Following(Entry, Edge)
<1>3. /\ next.node = Edge.object
      /\ next.hasActionGrant = (phase = "allow" /\ (Entry.hasActionGrant \/ Edge.relation \in AllowedRelations))
  BY DEF Following
<1>4. ~IsNew(next) =>
        \E m \in DOMAIN queue :
          queue[m].node = Edge.object /\ (next.hasActionGrant => queue[m].hasActionGrant)
  BY <1>3 DEF IsNew
<1> HIDE DEF next
<1>5. phase = "deny" => DenyFact(Edge)
  BY <1>1, <1>4 DEF DenyFact, ReachesResource, LeadsOn, CanTraverseDenyRelationship, next
<1>6. phase = "allow" => GrantFact(Edge, Entry.hasActionGrant)
  <2> SUFFICES ASSUME phase = "allow" PROVE GrantFact(Edge, Entry.hasActionGrant)
    OBVIOUS
  <2>1. ~ /\ Edge.object = resourceId
          /\ \/ Edge.relation \in AllowedRelations
             \/ /\ kindOf[Edge.relation] = "containment"
                /\ Edge.relation \in TraversalRelations
                /\ Entry.hasActionGrant
    BY <1>1 DEF ReachesResource
  <2>2. ASSUME CanTraverseRelationship(Edge, Entry.hasActionGrant), Edge.object # resourceId,
               IsActiveGraphNode(input, Edge.object)
        PROVE  \E m \in DOMAIN queue :
                 /\ queue[m].node = Edge.object
                 /\ Entry.hasActionGrant \/ Edge.relation \in AllowedRelations
                      => queue[m].hasActionGrant
    <3>1. ~IsNew(next)
      BY <1>1, <2>2 DEF LeadsOn, next
    <3> QED
      BY <3>1, <1>3, <1>4
  <2> QED
    BY <2>1, <2>2 DEF GrantFact
<1> QED
  BY <1>1, <1>2, <1>5, <1>6, AdvancePreserves

(* A node that is queued is reached, and answers for the relationship.      *)
LEMMA VisitPreserves ==
  ASSUME IInv, Visit
  PROVE  IInv'
<1> DEFINE next == Following(Entry, Edge)
<1>1. /\ Admitted
      /\ LeadsOn(Entry, Edge)
      /\ seen' = seen \cup {Edge.object}
      /\ queue' = Append(queue, next)
      /\ pos' = pos + 1
      /\ UNCHANGED <<input, phase, head, reason, path>>
  BY DEF Visit
<1>2. /\ next.node = Edge.object
      /\ next.hasActionGrant = (phase = "allow" /\ (Entry.hasActionGrant \/ Edge.relation \in AllowedRelations))
      /\ next.path = Append(Entry.path, Edge)
  BY DEF Following
<1>3. /\ Scanning /\ head \in DOMAIN queue /\ scans' \in Nat
      /\ Edge \in Inside(input, Entry.node) /\ Edge.object \in Node
      /\ Len(Entry.path) + 1 <= input.bounds.maxDepth
      /\ Edge.object # resourceId /\ IsActiveGraphNode(input, Edge.object)
      /\ Entry = queue[head]
  BY <1>1, AdmittedEdge, ScanType DEF IInv, LeadsOn, Entry
<1>4. /\ Chain(input, next.path, next.node)
      /\ next.path \in Seq(Relationship)
      /\ Len(next.path) = Len(Entry.path) + 1
  <2>1. TenantIdFor(input, Edge.object) = TenantIdFor(input, subjectId)
    BY <1>3 DEF Inside
  <2>2. Edge \in Relationship /\ Edge.subject = Entry.node /\ Edge \in Edges(input, Entry.node)
    BY <1>3, ScanType DEF IInv
  <2> QED
    BY <1>1, <1>2, <1>3, <2>1, <2>2, AdmittedEdge, ChainStep
<1>5. next \in QueueEntry
  BY <1>2, <1>3, <1>4 DEF QueueEntry, Following
<1> HIDE DEF next
<1>6. /\ queue' \in Seq(QueueEntry)
      /\ Len(queue') = Len(queue) + 1
      /\ DOMAIN queue = 1 .. Len(queue)
      /\ DOMAIN queue' = 1 .. Len(queue) + 1
      /\ queue'[Len(queue) + 1] = next
      /\ \A j \in DOMAIN queue : j \in DOMAIN queue' /\ queue'[j] = queue[j]
      /\ Len(queue) \in Nat
  BY <1>1, <1>5 DEF IInv, TypeOK
<1>7. \A j \in DOMAIN queue' : j \in DOMAIN queue \/ (j = Len(queue) + 1 /\ queue'[j] = next)
  BY <1>6
<1>8. TypeOK'
  <2>1. \A j \in DOMAIN queue' : Len(queue'[j].path) <= input'.bounds.maxDepth
    BY <1>1, <1>3, <1>4, <1>6, <1>7 DEF IInv, TypeOK
  <2>2. /\ input' \in InputRecord /\ Indexed(input')
        /\ phase' \in {"check", "deny", "allow", "done"}
        /\ reason' \in Reason \cup {None}
        /\ path' \in Seq(Relationship)
    BY <1>1 DEF IInv, TypeOK
  <2>3. head' \in Nat \ {0} /\ pos' \in Nat \ {0} /\ scans' \in Nat
    BY <1>1, <1>3 DEF IInv, TypeOK
  <2>4. seen' \subseteq Node
    BY <1>1, <1>3 DEF IInv, TypeOK
  <2> QED
    BY <1>6, <2>1, <2>2, <2>3, <2>4 DEF TypeOK
<1>9. SearchInv'
  <2>1. Accepted(input) /\ Len(queue) > 0 /\ queue[1] = Root /\ head <= Len(queue) + 1
    BY <1>3 DEF IInv, SearchInv, Searching, Scanning
  <2>2. queue'[1] = Root /\ Len(queue') > 0 /\ head' <= Len(queue') + 1
    BY <1>1, <1>6, <2>1 DEF IInv, TypeOK
  <2>3. \A j \in DOMAIN queue' : Chain(input, queue'[j].path, queue'[j].node)
    BY <1>3, <1>4, <1>6, <1>7 DEF IInv, SearchInv, Searching, Scanning
  <2> QED
    BY <1>1, <2>1, <2>2, <2>3 DEF SearchInv
<1>10. DenyFound'
  <2> SUFFICES ASSUME phase = "deny" PROVE \A j \in DOMAIN queue' : queue'[j].node \in DenyReach(input)
    BY <1>1 DEF DenyFound
  <2>1. \A j \in DOMAIN queue : queue[j].node \in DenyReach(input)
    BY DEF IInv, DenyFound
  <2>2. kindOf[Edge.relation] = "membership"
    BY <1>1 DEF LeadsOn, CanTraverseDenyRelationship
  <2>3. Entry.node \in DenyReach(input)
    BY <1>3, <2>1
  <2>4. Edge.object \in DenyReach(input)
    BY <1>3, <2>2, <2>3, DenyStep
  <2> QED
    BY <1>2, <1>6, <1>7, <2>1, <2>4
<1>11. GrantFound'
  <2> SUFFICES ASSUME phase = "allow"
               PROVE  /\ ~Denied(input)
                      /\ \A j \in DOMAIN queue' :
                           <<queue'[j].node, queue'[j].hasActionGrant>> \in GrantReach(input)
    BY <1>1 DEF GrantFound
  <2>1. /\ ~Denied(input)
        /\ \A j \in DOMAIN queue : <<queue[j].node, queue[j].hasActionGrant>> \in GrantReach(input)
    BY DEF IInv, GrantFound
  <2>2. CanTraverseRelationship(Edge, Entry.hasActionGrant)
    BY <1>1 DEF LeadsOn
  <2>3. <<Entry.node, Entry.hasActionGrant>> \in GrantReach(input)
    BY <1>3, <2>1
  <2>4. <<Edge.object, Entry.hasActionGrant \/ Edge.relation \in AllowedRelations>> \in GrantReach(input)
    BY <1>3, <2>2, <2>3, GrantStep
  <2>5. <<next.node, next.hasActionGrant>> \in GrantReach(input)
    BY <1>2, <2>4
  <2> QED
    BY <1>6, <1>7, <2>1, <2>5
<1>12. ASSUME NEW j \in DOMAIN queue', NEW k \in DOMAIN input'.relationships[queue'[j].node],
              Handled(j, k)'
       PROVE  /\ j \in DOMAIN queue /\ queue'[j] = queue[j]
              /\ k \in DOMAIN input.relationships[queue[j].node]
              /\ At(j, k)' = At(j, k)
              /\ Handled(j, k) \/ (j = head /\ k = pos)
  <2>1. j \in DOMAIN queue
    BY <1>1, <1>3, <1>6, <1>7, <1>12 DEF Handled
  <2>2. queue'[j] = queue[j] /\ k \in DOMAIN input.relationships[queue[j].node]
    BY <1>1, <1>6, <2>1
  <2>3. k \in Nat
    BY <2>1, <2>2, EntryType DEF IInv
  <2>4. Handled(j, k) \/ (j = head /\ k = pos)
    BY <1>1, <1>12, <2>3 DEF Handled, IInv, TypeOK
  <2> QED
    BY <1>1, <2>1, <2>2, <2>4 DEF At
<1>13. At(head, pos) = Edge
  BY DEF At, Edge, Listed, Entry
<1>14. \E m \in DOMAIN queue' : queue'[m] = next
  BY <1>6
<1>15. DenyHandled'
  <2>1. phase = "deny" =>
          \A j \in DOMAIN queue' : \A k \in DOMAIN input'.relationships[queue'[j].node] :
            Handled(j, k)' => DenyFact(At(j, k))'
    <3> SUFFICES ASSUME phase = "deny", NEW j \in DOMAIN queue',
                        NEW k \in DOMAIN input'.relationships[queue'[j].node], Handled(j, k)'
                 PROVE  DenyFact(At(j, k))'
      OBVIOUS
    <3>1. CASE Handled(j, k)
      <4>1. DenyFact(At(j, k))
        BY <3>1, <1>12, HandledFacts DEF IInv
      <4> QED
        BY <1>1, <1>6, <1>12, <4>1 DEF DenyFact
    <3>2. CASE j = head /\ k = pos
      <4>1. At(j, k)' = Edge
        BY <3>2, <1>12, <1>13
      <4> QED
        BY <4>1, <1>1, <1>2, <1>3, <1>14 DEF DenyFact
    <3> QED
      BY <1>12, <3>1, <3>2
  <2> QED
    BY <1>1, <2>1 DEF DenyHandled, DenyFact
<1>16. GrantHandled'
  <2>1. phase = "allow" =>
          \A j \in DOMAIN queue' : \A k \in DOMAIN input'.relationships[queue'[j].node] :
            Handled(j, k)' => GrantFact(At(j, k), queue[j].hasActionGrant)'
    <3> SUFFICES ASSUME phase = "allow", NEW j \in DOMAIN queue',
                        NEW k \in DOMAIN input'.relationships[queue'[j].node], Handled(j, k)'
                 PROVE  GrantFact(At(j, k), queue[j].hasActionGrant)'
      OBVIOUS
    <3>1. CASE Handled(j, k)
      <4>1. GrantFact(At(j, k), queue[j].hasActionGrant)
        BY <3>1, <1>12, HandledFacts DEF IInv
      <4> QED
        BY <1>1, <1>6, <1>12, <4>1 DEF GrantFact
    <3>2. CASE j = head /\ k = pos
      <4>1. At(j, k)' = Edge /\ queue'[j].hasActionGrant = Entry.hasActionGrant
        BY <3>2, <1>3, <1>12, <1>13
      <4> QED
        BY <4>1, <1>1, <1>2, <1>3, <1>14 DEF GrantFact
    <3> QED
      BY <1>12, <3>1, <3>2
  <2> QED
    BY <1>1, <2>1 DEF GrantHandled, GrantFact
<1>17. Unreported' /\ AllowIsJustified' /\ RefusalIsTrue' /\ PathIsReal'
  BY <1>1 DEF IInv, Unreported, AllowIsJustified, RefusalIsTrue, PathIsReal, CaveatsPass
<1> QED
  BY <1>8, <1>9, <1>10, <1>11, <1>15, <1>16, <1>17 DEF IInv

(* The entry at head is handled when its relationships are. *)
LEMMA NextEntryPreserves ==
  ASSUME IInv, NextEntry
  PROVE  IInv'
<1>1. /\ head <= Len(queue) /\ pos > Len(Listed) /\ head' = head + 1 /\ pos' = 1
      /\ UNCHANGED <<input, phase, queue, scans, seen, reason, path>>
  BY DEF NextEntry
<1>2. TypeOK'
  BY <1>1 DEF IInv, TypeOK
<1>3. SearchInv' /\ DenyFound' /\ GrantFound'
  BY <1>1 DEF IInv, TypeOK, SearchInv, Searching, DenyFound, GrantFound
<1>4. ASSUME NEW j \in DOMAIN queue, NEW k \in DOMAIN input.relationships[queue[j].node],
             Handled(j, k)'
      PROVE  Handled(j, k)
  <2>1. k \in Nat /\ k >= 1 /\ k <= Len(input.relationships[queue[j].node])
    BY EntryType DEF IInv
  <2>2. j < head + 1 /\ j \in Nat
    BY <1>1, <1>4, <2>1 DEF Handled, IInv, TypeOK
  <2>3. Listed = input.relationships[queue[head].node]
    BY DEF Listed, Entry
  <2>4. Len(input.relationships[queue[j].node]) \in Nat
    BY EntryType DEF IInv
  <2> QED
    BY <1>1, <2>1, <2>2, <2>3, <2>4 DEF Handled, IInv, TypeOK
<1>5. DenyHandled'
  <2>1. phase = "deny" =>
          \A j \in DOMAIN queue : \A k \in DOMAIN input.relationships[queue[j].node] :
            Handled(j, k)' => DenyFact(At(j, k))
    BY <1>4, HandledFacts DEF IInv
  <2> QED
    BY <1>1, <2>1 DEF DenyHandled, DenyFact, At
<1>6. GrantHandled'
  <2>1. phase = "allow" =>
          \A j \in DOMAIN queue : \A k \in DOMAIN input.relationships[queue[j].node] :
            Handled(j, k)' => GrantFact(At(j, k), queue[j].hasActionGrant)
    BY <1>4, HandledFacts DEF IInv
  <2> QED
    BY <1>1, <2>1 DEF GrantHandled, GrantFact, At
<1>7. Unreported' /\ AllowIsJustified' /\ RefusalIsTrue' /\ PathIsReal'
  BY <1>1 DEF IInv, Unreported, AllowIsJustified, RefusalIsTrue, PathIsReal, CaveatsPass
<1> QED
  BY <1>2, <1>3, <1>5, <1>6, <1>7 DEF IInv

-----------------------------------------------------------------------------
(* What the guard has counted *)

\* The relationships of a graph, each under the node that lists it.
Rels(i) == UNION {{n} \X DOMAIN i.relationships[n] : n \in Node}

\* The relationships this search has looked at, with or without a grant.
Looked ==
  {r \in Rels(input) \X BOOLEAN :
     \E j \in DOMAIN queue :
       r[1][1] = queue[j].node /\ r[2] = queue[j].hasActionGrant /\ Handled(j, r[1][2])}

\* The relationship at hand, as a member of Looked once it has been scanned.
Current == <<<<Entry.node, pos>>, Entry.hasActionGrant>>

\* A node is queued at most once with a grant and once without.
Distinct ==
  \A i, j \in DOMAIN queue :
    queue[i].node = queue[j].node /\ queue[i].hasActionGrant = queue[j].hasActionGrant => i = j

\* The scans of the deny search are counted before those of the allow search.
CountInv ==
  /\ phase = "check" => scans = 0
  /\ Searching =>
       /\ Distinct
       /\ \A j \in DOMAIN queue : Len(queue[j].path) < j
  /\ phase = "deny" =>
       /\ \A j \in DOMAIN queue : ~queue[j].hasActionGrant
       /\ scans <= Cardinality(Looked)
  /\ phase = "allow" => scans <= RelationshipCount(input) + Cardinality(Looked)
  /\ SmallGraphIsDecided

(* A graph has finitely many relationships. *)
LEMMA RelsFinite ==
  ASSUME NEW i \in InputRecord
  PROVE  /\ IsFiniteSet(Rels(i))
         /\ Cardinality(Rels(i)) \in Nat
         /\ RelationshipCount(i) = Cardinality(Rels(i))
<1> DEFINE f == [n \in Node |-> {n} \X DOMAIN i.relationships[n]]
           T == {{n} \X DOMAIN i.relationships[n] : n \in Node}
<1>1. f \in Surjection(Node, T)
  BY DEF Surjection
<1>2. IsFiniteSet(T)
  BY <1>1, NodeAssumption, FS_Surjection
<1>3. ASSUME NEW n \in Node PROVE IsFiniteSet({n} \X DOMAIN i.relationships[n])
  <2>1. i.relationships[n] \in Seq(Relationship)
    BY DEF InputRecord
  <2>2. DOMAIN i.relationships[n] = 1 .. Len(i.relationships[n]) /\ Len(i.relationships[n]) \in Nat
    BY <2>1
  <2>3. IsFiniteSet(DOMAIN i.relationships[n])
    BY <2>2, FS_Interval
  <2>4. IsFiniteSet({n})
    BY FS_Singleton
  <2> QED
    BY <2>3, <2>4, FS_Product
<1>4. IsFiniteSet(UNION T)
  BY <1>2, <1>3, FS_UNION
<1> QED
  BY <1>4, FS_CardinalityType DEF Rels, RelationshipCount

(* Cardinality of a set of marked elements. *)
LEMMA MarkedCardinality ==
  ASSUME NEW S, IsFiniteSet(S)
  PROVE  /\ IsFiniteSet(S \X BOOLEAN) /\ Cardinality(S \X BOOLEAN) = 2 * Cardinality(S)
         /\ IsFiniteSet(S \X {FALSE}) /\ Cardinality(S \X {FALSE}) = Cardinality(S)
         /\ Cardinality(S) \in Nat
<1>1. Cardinality(S) \in Nat
  BY FS_CardinalityType
<1>2. IsFiniteSet({FALSE}) /\ Cardinality({FALSE}) = 1
  BY FS_Singleton
<1>3. IsFiniteSet({FALSE} \cup {TRUE}) /\ Cardinality({FALSE} \cup {TRUE}) = 2
  <2> DEFINE F == {FALSE}
             T == TRUE
  <2>1. T \notin F
    OBVIOUS
  <2>2. IsFiniteSet(F) /\ Cardinality(F) = 1
    BY <1>2
  <2> HIDE DEF F, T
  <2>3. IsFiniteSet(F \cup {T}) /\ Cardinality(F \cup {T}) = 2
    BY <2>1, <2>2, FS_AddElement
  <2> QED
    BY <2>3 DEF F, T
<1>4. BOOLEAN = {FALSE} \cup {TRUE}
  OBVIOUS
<1>5. IsFiniteSet(BOOLEAN) /\ Cardinality(BOOLEAN) = 2
  BY <1>3, <1>4
<1>6. /\ IsFiniteSet(S \X BOOLEAN)
      /\ Cardinality(S \X BOOLEAN) = Cardinality(S) * Cardinality(BOOLEAN)
  BY <1>5, FS_Product
<1>7. /\ IsFiniteSet(S \X {FALSE})
      /\ Cardinality(S \X {FALSE}) = Cardinality(S) * Cardinality({FALSE})
  BY <1>2, FS_Product
<1>8. Cardinality(S) * 2 = 2 * Cardinality(S) /\ Cardinality(S) * 1 = Cardinality(S)
  BY <1>1
<1> QED
  BY <1>1, <1>2, <1>5, <1>6, <1>7, <1>8

(* What has been looked at is bounded by the relationships of the graph. *)
LEMMA LookedBound ==
  ASSUME TypeOK
  PROVE  /\ IsFiniteSet(Looked) /\ Cardinality(Looked) \in Nat
         /\ Cardinality(Looked) <= 2 * RelationshipCount(input)
         /\ (\A j \in DOMAIN queue : ~queue[j].hasActionGrant)
              => Cardinality(Looked) <= RelationshipCount(input)
         /\ RelationshipCount(input) \in Nat
<1> DEFINE R == Rels(input)
<1>1. /\ IsFiniteSet(R) /\ Cardinality(R) \in Nat /\ RelationshipCount(input) = Cardinality(R)
  BY RelsFinite DEF TypeOK
<1>2. /\ IsFiniteSet(R \X BOOLEAN) /\ Cardinality(R \X BOOLEAN) = 2 * Cardinality(R)
      /\ IsFiniteSet(R \X {FALSE}) /\ Cardinality(R \X {FALSE}) = Cardinality(R)
  BY <1>1, MarkedCardinality
<1>3. Looked \in SUBSET (R \X BOOLEAN)
  BY DEF Looked
<1>4. IsFiniteSet(Looked) /\ Cardinality(Looked) <= Cardinality(R \X BOOLEAN)
  BY <1>2, <1>3, FS_Subset
<1>5. ASSUME \A j \in DOMAIN queue : ~queue[j].hasActionGrant
      PROVE  Cardinality(Looked) <= Cardinality(R \X {FALSE})
  <2>1. ASSUME NEW r \in Looked PROVE r \in R \X {FALSE}
    <3>1. r \in R \X BOOLEAN
      BY <1>3
    <3>2. PICK j \in DOMAIN queue : r[2] = queue[j].hasActionGrant
      BY DEF Looked
    <3>3. r[2] = FALSE
      BY <1>5, <3>1, <3>2
    <3> QED
      BY <3>1, <3>3
  <2> QED
    BY <1>2, <2>1, FS_Subset
<1>6. Cardinality(Looked) \in Nat
  BY <1>4, FS_CardinalityType
<1> QED
  BY <1>1, <1>2, <1>4, <1>5, <1>6

(* A queue of distinct entries has at most two for each node. *)
LEMMA QueueBound ==
  ASSUME TypeOK, Distinct
  PROVE  Len(queue) <= 2 * Cardinality(Node) /\ Cardinality(Node) \in Nat
<1> DEFINE f == [j \in 1 .. Len(queue) |-> <<queue[j].node, queue[j].hasActionGrant>>]
<1>1. Len(queue) \in Nat /\ DOMAIN queue = 1 .. Len(queue)
  BY DEF TypeOK
<1>2. f \in [1 .. Len(queue) -> Node \X BOOLEAN]
  BY <1>1, EntryType
<1>3. \A i, j \in 1 .. Len(queue) : f[i] = f[j] => i = j
  BY <1>1 DEF Distinct
<1>4. f \in Injection(1 .. Len(queue), Node \X BOOLEAN)
  BY <1>2, <1>3 DEF Injection, IsInjective
<1>5. IsFiniteSet(Node \X BOOLEAN) /\ Cardinality(Node \X BOOLEAN) = 2 * Cardinality(Node)
      /\ Cardinality(Node) \in Nat
  BY NodeAssumption, MarkedCardinality
<1>6. Cardinality(1 .. Len(queue)) <= Cardinality(Node \X BOOLEAN)
  BY <1>4, <1>5, FS_Injection
<1>7. Cardinality(1 .. Len(queue)) = Len(queue)
  <2>1. Cardinality(1 .. Len(queue)) = IF 1 > Len(queue) THEN 0 ELSE Len(queue) - 1 + 1
    BY <1>1, FS_Interval
  <2> QED
    BY <1>1, <2>1
<1> QED
  BY <1>5, <1>6, <1>7

(* The relationship at hand has not been looked at before. *)
LEMMA CurrentIsNew ==
  ASSUME TypeOK, Scanning, Distinct
  PROVE  /\ Current \notin Looked
         /\ Current \in Rels(input) \X BOOLEAN
         /\ IsFiniteSet(Looked \cup {Current})
         /\ Cardinality(Looked \cup {Current}) = Cardinality(Looked) + 1
         /\ Cardinality(Looked \cup {Current}) <= 2 * RelationshipCount(input)
         /\ (\A j \in DOMAIN queue : ~queue[j].hasActionGrant)
              => Cardinality(Looked \cup {Current}) <= RelationshipCount(input)
<1> DEFINE R == Rels(input)
<1>1. /\ head \in DOMAIN queue /\ pos \in DOMAIN input.relationships[queue[head].node]
      /\ queue[head].node \in Node /\ queue[head].hasActionGrant \in BOOLEAN
  BY ScanType, EntryType DEF Listed, Entry
<1>2. Current = <<<<queue[head].node, pos>>, queue[head].hasActionGrant>>
  BY DEF Current, Entry
<1>3. <<queue[head].node, pos>> \in Rels(input)
  BY <1>1 DEF Rels
<1>4. Current \in Rels(input) \X BOOLEAN
  BY <1>1, <1>2, <1>3
<1>5. Current \notin Looked
  <2> SUFFICES ASSUME Current \in Looked PROVE FALSE
    OBVIOUS
  <2>1. PICK j \in DOMAIN queue :
          /\ queue[head].node = queue[j].node
          /\ queue[head].hasActionGrant = queue[j].hasActionGrant
          /\ Handled(j, pos)
    BY <1>2 DEF Looked
  <2>2. j = head
    BY <1>1, <2>1 DEF Distinct
  <2> QED
    BY <2>1, <2>2 DEF Handled, TypeOK
<1>6. /\ IsFiniteSet(Looked \cup {Current})
      /\ Cardinality(Looked \cup {Current}) = Cardinality(Looked) + 1
  BY <1>5, LookedBound, FS_AddElement
<1>7. /\ IsFiniteSet(R) /\ Cardinality(R) \in Nat /\ RelationshipCount(input) = Cardinality(R)
  BY RelsFinite DEF TypeOK
<1>8. /\ IsFiniteSet(R \X BOOLEAN) /\ Cardinality(R \X BOOLEAN) = 2 * Cardinality(R)
      /\ IsFiniteSet(R \X {FALSE}) /\ Cardinality(R \X {FALSE}) = Cardinality(R)
  BY <1>7, MarkedCardinality
<1>9. Looked \cup {Current} \in SUBSET (R \X BOOLEAN)
  BY <1>4 DEF Looked
<1>10. Cardinality(Looked \cup {Current}) <= Cardinality(R \X BOOLEAN)
  BY <1>8, <1>9, FS_Subset
<1>11. ASSUME \A j \in DOMAIN queue : ~queue[j].hasActionGrant
       PROVE  Cardinality(Looked \cup {Current}) <= Cardinality(R \X {FALSE})
  <2>1. ASSUME NEW r \in Looked \cup {Current} PROVE r \in R \X {FALSE}
    <3>1. r \in R \X BOOLEAN
      BY <1>9
    <3>2. \E j \in DOMAIN queue : r[2] = queue[j].hasActionGrant
      BY <1>1, <1>2 DEF Looked
    <3>3. r[2] = FALSE
      BY <1>11, <3>1, <3>2
    <3> QED
      BY <3>1, <3>3
  <2> QED
    BY <1>8, <2>1, FS_Subset
<1> QED
  BY <1>4, <1>5, <1>6, <1>7, <1>8, <1>10, <1>11

(* Any set of marked relationships of a graph can be counted. *)
LEMMA MarkedFinite ==
  ASSUME NEW i \in InputRecord, NEW L \in SUBSET (Rels(i) \X BOOLEAN)
  PROVE  IsFiniteSet(L) /\ Cardinality(L) \in Nat
BY RelsFinite, MarkedCardinality, FS_Subset, FS_CardinalityType

(* A scan adds the relationship at hand to what has been looked at, so the  *)
(* guard has counted no more than that.                                     *)
LEMMA ScanIsCounted ==
  ASSUME TypeOK, TypeOK', CountInv, Scanning, input' = input, phase' = phase, head' = head,
         pos' = pos + 1, scans' = scans + 1,
         \A j \in DOMAIN queue : j \in DOMAIN queue' /\ queue'[j] = queue[j]
  PROVE  /\ phase = "deny" => scans' <= Cardinality(Looked')
         /\ phase = "allow" => scans' <= RelationshipCount(input') + Cardinality(Looked')
<1>1. Distinct
  BY DEF CountInv, Searching, Scanning
<1>2. Cardinality(Looked \cup {Current}) = Cardinality(Looked) + 1 /\ Current \in Rels(input) \X BOOLEAN
  BY <1>1, CurrentIsNew
<1>3. Looked \subseteq Looked'
  <2> SUFFICES ASSUME NEW q \in Looked PROVE q \in Looked'
    OBVIOUS
  <2>1. q \in Rels(input) \X BOOLEAN
    BY DEF Looked
  <2>2. PICK j \in DOMAIN queue :
          q[1][1] = queue[j].node /\ q[2] = queue[j].hasActionGrant /\ Handled(j, q[1][2])
    BY DEF Looked
  <2>3. \E n \in Node : q[1] \in {n} \X DOMAIN input.relationships[n]
    BY <2>1 DEF Rels
  <2>4. q[1][2] \in Nat
    BY <2>3 DEF TypeOK, InputRecord
  <2>5. Handled(j, q[1][2])'
    BY <2>2, <2>4 DEF Handled, TypeOK
  <2> QED
    BY <2>1, <2>2, <2>5 DEF Looked, Rels
<1>4. Current \in Looked'
  <2>1. head \in DOMAIN queue /\ Current = <<<<queue[head].node, pos>>, queue[head].hasActionGrant>>
    BY ScanType DEF Current, Entry
  <2>2. \A j, k : j = head /\ k = pos => Handled(j, k)'
    BY DEF Handled, TypeOK
  <2>3. /\ head \in DOMAIN queue' /\ Current[1][1] = queue'[head].node
        /\ Current[2] = queue'[head].hasActionGrant /\ Current[1][2] = pos
    BY <2>1
  <2>4. \E j \in DOMAIN queue' :
          /\ Current[1][1] = queue'[j].node /\ Current[2] = queue'[j].hasActionGrant
          /\ j < head' \/ (j = head' /\ Current[1][2] < pos')
    BY <2>2, <2>3 DEF Handled
  <2>5. Current \in Rels(input') \X BOOLEAN
    BY <1>2
  <2> DEFINE c == Current
  <2> HIDE DEF c
  <2>6. c \in Looked'
    BY <2>4, <2>5 DEF Looked, Handled, c
  <2> QED
    BY <2>6 DEF c
<1>5. Looked \cup {Current} \in SUBSET Looked'
  BY <1>3, <1>4
<1>6. IsFiniteSet(Looked') /\ Cardinality(Looked') \in Nat
  <2>1. input' \in InputRecord /\ Looked' \in SUBSET (Rels(input') \X BOOLEAN)
    BY DEF TypeOK, Looked
  <2> QED
    BY <2>1, MarkedFinite
<1>7. Cardinality(Looked \cup {Current}) <= Cardinality(Looked')
  BY <1>5, <1>6, FS_Subset
<1>8. /\ scans \in Nat /\ Cardinality(Looked) \in Nat /\ RelationshipCount(input) \in Nat
      /\ RelationshipCount(input') = RelationshipCount(input)
  BY LookedBound DEF TypeOK
<1> QED
  BY <1>2, <1>6, <1>7, <1>8 DEF CountInv

(* A relationship that is passed over leaves the queue alone. *)
LEMMA PassIsCounted ==
  ASSUME IInv, IInv', CountInv, SkipOtherTenant \/ Pass
  PROVE  CountInv'
<1>1. /\ Scanning /\ scans' = scans + 1 /\ pos' = pos + 1
      /\ UNCHANGED <<input, phase, queue, head, seen, reason, path>>
  BY DEF SkipOtherTenant, Pass, Admitted, RecordRelationshipScan
<1>2. /\ phase = "deny" => scans' <= Cardinality(Looked')
      /\ phase = "allow" => scans' <= RelationshipCount(input') + Cardinality(Looked')
  BY <1>1, ScanIsCounted DEF IInv
<1>3. phase # "check"
  BY <1>1 DEF Scanning
<1>4. (Distinct => Distinct') /\ (SmallGraphIsDecided => SmallGraphIsDecided')
  BY <1>1 DEF Distinct, SmallGraphIsDecided, RelationshipCount
<1> QED
  BY <1>1, <1>2, <1>3, <1>4 DEF CountInv, Searching

(* A node is queued only where it is not yet known as well. *)
LEMMA VisitIsCounted ==
  ASSUME IInv, IInv', CountInv, Visit
  PROVE  CountInv'
<1> DEFINE next == Following(Entry, Edge)
<1>1. /\ Scanning /\ scans' = scans + 1 /\ pos' = pos + 1 /\ IsNew(next)
      /\ queue' = Append(queue, next)
      /\ UNCHANGED <<input, phase, head, reason, path>>
  BY DEF Visit, Admitted, RecordRelationshipScan
<1>2. /\ head \in DOMAIN queue /\ Entry = queue[head] /\ Entry.path \in Seq(Relationship)
      /\ Entry.hasActionGrant \in BOOLEAN /\ Edge \in Relationship
  BY <1>1, ScanType, EntryType DEF IInv, Entry
<1>3. /\ next.node = Edge.object
      /\ next.hasActionGrant <=>
           (phase = "allow" /\ (Entry.hasActionGrant \/ Edge.relation \in AllowedRelations))
      /\ next.path = Append(Entry.path, Edge)
  BY DEF Following
<1>4. next.hasActionGrant \in BOOLEAN
  BY DEF Following
<1> HIDE DEF next
<1>5. /\ queue \in Seq(QueueEntry) /\ Len(queue) \in Nat /\ DOMAIN queue = 1 .. Len(queue)
      /\ DOMAIN queue' = 1 .. Len(queue) + 1
      /\ queue'[Len(queue) + 1] = next
      /\ \A j \in DOMAIN queue : queue'[j] = queue[j]
  BY <1>1 DEF IInv, TypeOK
<1>6. /\ phase = "deny" => scans' <= Cardinality(Looked')
      /\ phase = "allow" => scans' <= RelationshipCount(input') + Cardinality(Looked')
  BY <1>1, <1>5, ScanIsCounted DEF IInv
<1>7. Distinct /\ (\A j \in DOMAIN queue : Len(queue[j].path) < j) /\ phase \in {"deny", "allow"}
  BY <1>1 DEF CountInv, Searching, Scanning
<1>8. ASSUME NEW j \in DOMAIN queue, queue[j].node = next.node
      PROVE  queue[j].hasActionGrant # next.hasActionGrant
  BY <1>1, <1>8 DEF IsNew
<1>9. Distinct'
  <2> SUFFICES ASSUME NEW i \in DOMAIN queue', NEW j \in DOMAIN queue',
                      queue'[i].node = queue'[j].node,
                      queue'[i].hasActionGrant = queue'[j].hasActionGrant
               PROVE  i = j
    BY DEF Distinct
  <2>1. CASE i \in DOMAIN queue /\ j \in DOMAIN queue
    BY <1>5, <1>7, <2>1 DEF Distinct
  <2>2. CASE i \notin DOMAIN queue /\ j \in DOMAIN queue
    <3>1. i = Len(queue) + 1
      BY <1>5, <2>2
    <3> QED
      BY <1>5, <1>8, <2>2, <3>1
  <2>3. CASE i \in DOMAIN queue /\ j \notin DOMAIN queue
    <3>1. j = Len(queue) + 1
      BY <1>5, <2>3
    <3> QED
      BY <1>5, <1>8, <2>3, <3>1
  <2>4. CASE i \notin DOMAIN queue /\ j \notin DOMAIN queue
    BY <1>5, <2>4
  <2> QED
    BY <2>1, <2>2, <2>3, <2>4
<1>10. ASSUME NEW j \in DOMAIN queue' PROVE Len(queue'[j].path) < j
  <2>1. CASE j \in DOMAIN queue
    BY <1>5, <1>7, <2>1
  <2>2. CASE j = Len(queue) + 1
    <3>1. Len(Entry.path) < head /\ head <= Len(queue) /\ head \in Nat /\ Len(Entry.path) \in Nat
      BY <1>2, <1>5, <1>7
    <3>2. Len(next.path) = Len(Entry.path) + 1
      BY <1>2, <1>3
    <3> QED
      BY <1>5, <2>2, <3>1, <3>2
  <2> QED
    BY <1>5, <2>1, <2>2
<1>11. phase = "deny" => \A j \in DOMAIN queue' : ~queue'[j].hasActionGrant
  <2>1. phase = "deny" => \A j \in DOMAIN queue : ~queue[j].hasActionGrant
    BY DEF CountInv
  <2> QED
    BY <1>3, <1>5, <2>1
<1>12. SmallGraphIsDecided => SmallGraphIsDecided'
  BY <1>1 DEF SmallGraphIsDecided, RelationshipCount
<1> QED
  BY <1>1, <1>6, <1>7, <1>9, <1>10, <1>11, <1>12 DEF CountInv, Searching

(* The next entry is at its first relationship: nothing more was looked at. *)
LEMMA NextEntryIsCounted ==
  ASSUME IInv, IInv', CountInv, NextEntry
  PROVE  CountInv'
<1>1. /\ head <= Len(queue) /\ pos > Len(Listed) /\ head' = head + 1 /\ pos' = 1
      /\ UNCHANGED <<input, phase, queue, scans, seen, reason, path>>
  BY DEF NextEntry
<1>2. Looked \subseteq Looked'
  <2> SUFFICES ASSUME NEW q \in Looked PROVE q \in Looked'
    OBVIOUS
  <2>1. q \in Rels(input) \X BOOLEAN
    BY DEF Looked
  <2>2. PICK j \in DOMAIN queue :
          q[1][1] = queue[j].node /\ q[2] = queue[j].hasActionGrant /\ Handled(j, q[1][2])
    BY DEF Looked
  <2>3. Handled(j, q[1][2])'
    BY <1>1, <2>2 DEF Handled, IInv, TypeOK
  <2> QED
    BY <1>1, <2>1, <2>2, <2>3 DEF Looked, Rels
<1>3. IsFiniteSet(Looked') /\ Cardinality(Looked') \in Nat
  <2>1. input' \in InputRecord /\ Looked' \in SUBSET (Rels(input') \X BOOLEAN)
    BY DEF IInv, TypeOK, Looked
  <2> QED
    BY <2>1, MarkedFinite
<1>4. Cardinality(Looked) <= Cardinality(Looked') /\ Cardinality(Looked) \in Nat
  BY <1>2, <1>3, FS_Subset, LookedBound DEF IInv
<1>5. /\ scans \in Nat /\ RelationshipCount(input) \in Nat
      /\ RelationshipCount(input') = RelationshipCount(input)
  BY <1>1, LookedBound DEF IInv, TypeOK
<1>6. /\ phase = "deny" => scans' <= Cardinality(Looked')
      /\ phase = "allow" => scans' <= RelationshipCount(input') + Cardinality(Looked')
  BY <1>1, <1>3, <1>4, <1>5 DEF CountInv
<1>7. (Distinct => Distinct') /\ (SmallGraphIsDecided => SmallGraphIsDecided')
  BY <1>1 DEF Distinct, SmallGraphIsDecided, RelationshipCount
<1> QED
  BY <1>1, <1>6, <1>7 DEF CountInv, Searching

(* A search starts with nothing looked at and the scans of the one before. *)
LEMMA StartIsCounted ==
  ASSUME IInv, IInv', CountInv, AcceptRequest \/ NoDeny
  PROVE  CountInv'
<1>1. /\ queue' = <<Root>> /\ UNCHANGED <<input, scans, seen, reason, path>>
      /\ \/ phase = "check" /\ phase' = "deny"
         \/ phase = "deny" /\ phase' = "allow"
  BY DEF AcceptRequest, NoDeny, StartSearch
<1>2. \A j \in DOMAIN queue' : j = 1 /\ queue'[j] = Root
  BY <1>1, RootQueue
<1>3. /\ Distinct'
      /\ \A j \in DOMAIN queue' : Len(queue'[j].path) < j /\ ~queue'[j].hasActionGrant
  BY <1>2, RootQueue DEF Distinct
<1>4. /\ Cardinality(Looked') \in Nat /\ Cardinality(Looked) \in Nat
      /\ RelationshipCount(input) \in Nat /\ scans \in Nat
  <2>1. input' \in InputRecord /\ Looked' \in SUBSET (Rels(input') \X BOOLEAN)
    BY DEF IInv, TypeOK, Looked
  <2>2. Cardinality(Looked') \in Nat
    BY <2>1, MarkedFinite
  <2> QED
    BY <2>2, LookedBound DEF IInv, TypeOK
<1>5. phase = "deny" => scans <= RelationshipCount(input)
  BY <1>4, LookedBound DEF CountInv, IInv
<1>6. SmallGraphIsDecided' /\ RelationshipCount(input') = RelationshipCount(input)
  BY <1>1 DEF CountInv, SmallGraphIsDecided, RelationshipCount
<1>7. /\ phase' = "deny" => scans' <= Cardinality(Looked')
      /\ phase' = "allow" => scans' <= RelationshipCount(input') + Cardinality(Looked')
  BY <1>1, <1>4, <1>5, <1>6 DEF CountInv
<1> QED
  BY <1>1, <1>3, <1>6, <1>7 DEF CountInv, Searching

(* Other conclusions than the bound say nothing of the size of the graph. *)
LEMMA ConclusionIsCounted ==
  ASSUME CountInv, phase' = "done", reason' # "DENY_TRAVERSAL_BOUND_EXCEEDED"
  PROVE  CountInv'
BY DEF CountInv, Searching, SmallGraphIsDecided

(* Only a large graph exceeds the bounds of the guard. *)
LEMMA BoundIsCounted ==
  ASSUME IInv, IInv', CountInv, ExceedRelationshipScans \/ ExceedDepth \/ ExceedVisitedNodes
  PROVE  CountInv'
<1>1. /\ Scanning /\ input' = input /\ phase' = "done" /\ scans' = scans + 1
  BY DEF ExceedRelationshipScans, ExceedDepth, ExceedVisitedNodes, Admitted, Conclude,
         RecordRelationshipScan
<1>2. /\ input.bounds.maxDepth \in Nat /\ input.bounds.maxRelationshipScans \in Nat
      /\ input.bounds.maxVisitedNodes \in Nat
  BY DEF IInv, TypeOK, InputRecord, Bounds
<1>3. /\ Distinct /\ (\A j \in DOMAIN queue : Len(queue[j].path) < j) /\ phase \in {"deny", "allow"}
  BY <1>1 DEF CountInv, Searching, Scanning
<1>4. CASE ExceedRelationshipScans
  <2>1. scans + 1 > input.bounds.maxRelationshipScans
    BY <1>2, <1>4 DEF ExceedRelationshipScans, ScanWithinBound, IInv, TypeOK
  <2>2. /\ Cardinality(Looked) \in Nat /\ RelationshipCount(input) \in Nat /\ scans \in Nat
    BY LookedBound DEF IInv, TypeOK
  <2>3. /\ Cardinality(Looked) + 1 <= 2 * RelationshipCount(input)
        /\ phase = "deny" => Cardinality(Looked) + 1 <= RelationshipCount(input)
    BY <1>1, <1>3, CurrentIsNew DEF IInv, CountInv
  <2>4. scans + 1 <= 3 * RelationshipCount(input)
    BY <1>3, <2>2, <2>3 DEF CountInv
  <2>5. 3 * RelationshipCount(input) > input.bounds.maxRelationshipScans
    BY <1>2, <2>1, <2>2, <2>4
  <2> QED
    BY <1>1, <2>5 DEF CountInv, Searching, SmallGraphIsDecided
<1>5. CASE ExceedDepth
  <2>1. /\ head \in DOMAIN queue /\ Entry = queue[head] /\ Entry.path \in Seq(Relationship)
    BY <1>1, ScanType, EntryType DEF IInv, Entry
  <2>2. Len(Entry.path) + 1 > input.bounds.maxDepth
    BY <1>2, <1>5, <2>1 DEF ExceedDepth, DepthWithinBound
  <2>3. Len(queue) <= 2 * Cardinality(Node) /\ Cardinality(Node) \in Nat
    BY <1>3, QueueBound DEF IInv
  <2>4. /\ Len(Entry.path) < head /\ head <= Len(queue) /\ head \in Nat /\ Len(Entry.path) \in Nat
        /\ Len(queue) \in Nat
    BY <1>3, <2>1 DEF IInv, TypeOK
  <2>5. 2 * Cardinality(Node) > input.bounds.maxDepth
    BY <1>2, <2>2, <2>3, <2>4
  <2> QED
    BY <1>1, <2>5 DEF CountInv, Searching, SmallGraphIsDecided
<1>6. CASE ExceedVisitedNodes
  <2>1. Cardinality(seen') > input.bounds.maxVisitedNodes
    BY <1>6 DEF ExceedVisitedNodes
  <2>2. seen' \in SUBSET Node
    BY DEF IInv, TypeOK
  <2>3. /\ Cardinality(seen') <= Cardinality(Node) /\ IsFiniteSet(seen')
    BY <2>2, NodeAssumption, FS_Subset
  <2>4. Cardinality(Node) \in Nat /\ Cardinality(seen') \in Nat
    BY <2>3, NodeAssumption, FS_CardinalityType
  <2>5. Cardinality(Node) > input.bounds.maxVisitedNodes
    BY <1>2, <2>1, <2>3, <2>4
  <2> QED
    BY <1>1, <2>5 DEF CountInv, Searching, SmallGraphIsDecided
<1> QED
  BY <1>4, <1>5, <1>6

-----------------------------------------------------------------------------
(* The end of a search *)

(* When the queue is exhausted, every relationship of the tenant that       *)
(* starts at a queued node has been looked at.                              *)
LEMMA ExhaustedQueue ==
  ASSUME IInv, Searching, head > Len(queue), NEW j \in DOMAIN queue,
         NEW e \in Inside(input, queue[j].node)
  PROVE  /\ e.object \in Node
         /\ phase = "deny" => DenyFact(e)
         /\ phase = "allow" => GrantFact(e, queue[j].hasActionGrant)
         /\ RelationshipMatchesTenantBoundary(input, e)
<1>1. PICK k \in DOMAIN input.relationships[queue[j].node] :
        e = input.relationships[queue[j].node][k]
  BY DEF Inside, Edges
<1>2. e = At(j, k)
  BY <1>1 DEF At
<1>3. Handled(j, k)
  BY DEF Handled, IInv, TypeOK
<1>4. e.object \in Node
  BY <1>2, EntryType DEF IInv, Relationship
<1>5. RelationshipMatchesTenantBoundary(input, e)
  BY DEF Inside, RelationshipMatchesTenantBoundary
<1> QED
  BY <1>2, <1>3, <1>4, <1>5, HandledFacts DEF IInv

(* An exhausted deny search has shown that no deny is reached. *)
LEMMA NoDenyPreserves ==
  ASSUME IInv, NoDeny
  PROVE  IInv'
<1> DEFINE S == {queue[j].node : j \in DOMAIN queue}
<1>1. /\ phase = "deny" /\ Searching /\ head > Len(queue)
      /\ StartSearch("allow") /\ UNCHANGED <<input, scans, seen, reason, path>>
  BY DEF NoDeny, Searching
<1>2. S \in SUBSET Node
  BY EntryType DEF IInv
<1>3. subjectId \in S
  <2>1. 1 \in DOMAIN queue /\ queue[1] = Root
    BY <1>1 DEF IInv, TypeOK, SearchInv
  <2> QED
    BY <2>1, RootQueue
<1>4. ASSUME NEW n \in S, NEW e \in Inside(input, n)
      PROVE  DenyFact(e) /\ RelationshipMatchesTenantBoundary(input, e)
  <2>1. PICK j \in DOMAIN queue : n = queue[j].node
    OBVIOUS
  <2> QED
    BY <1>1, <2>1, ExhaustedQueue
<1>5. DenyClosed(input, S)
  BY <1>3, <1>4 DEF DenyClosed, DenyFact
<1>6. DenyReach(input) \subseteq S
  BY <1>2, <1>5, DenyComplete
<1>7. ~Denied(input)
  BY <1>4, <1>6 DEF Denied, DenyFact
<1>8. Accepted(input)
  BY <1>1 DEF IInv, SearchInv
<1> QED
  BY <1>1, <1>7, <1>8, StartPreserves

(* A grant never takes a way away. *)
LEMMA TraversalIsMonotone ==
  ASSUME NEW e, NEW g \in BOOLEAN, NEW h \in BOOLEAN, g => h, CanTraverseRelationship(e, g)
  PROVE  CanTraverseRelationship(e, h)
BY DEF CanTraverseRelationship

(* An exhausted allow search has shown that no grant is reached. *)
LEMMA NoAllowPreserves ==
  ASSUME IInv, NoAllow
  PROVE  IInv'
<1> DEFINE S == {s \in Node \X BOOLEAN :
                   \E j \in DOMAIN queue :
                     queue[j].node = s[1] /\ (s[2] => queue[j].hasActionGrant)}
<1>1. /\ phase = "allow" /\ Searching /\ head > Len(queue)
      /\ Conclude("DENY_DEFAULT_NO_RELATIONSHIP_PATH", << >>)
      /\ UNCHANGED <<input, queue, head, pos, scans, seen>>
  BY DEF NoAllow, Searching
<1>2. <<subjectId, FALSE>> \in S
  <2>1. 1 \in DOMAIN queue /\ queue[1] = Root
    BY <1>1 DEF IInv, TypeOK, SearchInv
  <2> QED
    BY <2>1, RootQueue, RequestAssumption
<1>3. ASSUME NEW s \in S, NEW e \in Inside(input, s[1]),
             CanTraverseRelationship(e, s[2]), e.object # resourceId,
             IsActiveGraphNode(input, e.object)
      PROVE  <<e.object, s[2] \/ e.relation \in AllowedRelations>> \in S
  <2>1. PICK j \in DOMAIN queue : queue[j].node = s[1] /\ (s[2] => queue[j].hasActionGrant)
    OBVIOUS
  <2>2. /\ e.object \in Node
        /\ GrantFact(e, queue[j].hasActionGrant)
        /\ RelationshipMatchesTenantBoundary(input, e)
    BY <1>1, <2>1, ExhaustedQueue
  <2>3. queue[j].hasActionGrant \in BOOLEAN
    BY EntryType DEF IInv
  <2>4. CanTraverseRelationship(e, queue[j].hasActionGrant)
    BY <1>3, <2>1, <2>3, TraversalIsMonotone
  <2>5. PICK m \in DOMAIN queue :
          /\ queue[m].node = e.object
          /\ queue[j].hasActionGrant \/ e.relation \in AllowedRelations => queue[m].hasActionGrant
    BY <1>3, <2>2, <2>4 DEF GrantFact
  <2> DEFINE new == <<e.object, s[2] \/ e.relation \in AllowedRelations>>
  <2>6. new \in Node \X BOOLEAN /\ new[1] = e.object
        /\ (new[2] <=> s[2] \/ e.relation \in AllowedRelations)
    BY <2>2
  <2>7. queue[m].node = new[1] /\ (new[2] => queue[m].hasActionGrant)
    BY <2>1, <2>5, <2>6
  <2> HIDE DEF new
  <2>8. new \in S
    BY <2>6, <2>7
  <2> QED
    BY <2>8 DEF new
<1>4. GrantClosed(input, S)
  BY <1>2, <1>3 DEF GrantClosed
<1>5. GrantReach(input) \subseteq S
  BY <1>4, GrantComplete
<1>6. ~Granted(input)
  <2> SUFFICES ASSUME NEW s \in S, NEW e \in Inside(input, s[1]), e.object = resourceId,
                      \/ e.relation \in AllowedRelations
                      \/ kindOf[e.relation] = "containment" /\ e.relation \in TraversalRelations /\ s[2]
               PROVE  FALSE
    BY <1>5 DEF Granted
  <2>1. PICK j \in DOMAIN queue : queue[j].node = s[1] /\ (s[2] => queue[j].hasActionGrant)
    OBVIOUS
  <2>2. GrantFact(e, queue[j].hasActionGrant) /\ RelationshipMatchesTenantBoundary(input, e)
    BY <1>1, <2>1, ExhaustedQueue
  <2> QED
    BY <2>1, <2>2 DEF GrantFact
<1>7. ~Denied(input)
  BY <1>1 DEF IInv, GrantFound
<1>8. AllowIsJustified' /\ RefusalIsTrue' /\ PathIsReal'
  BY <1>1, <1>6, <1>7 DEF Conclude, AllowIsJustified, RefusalIsTrue, PathIsReal
<1>9. /\ "DENY_DEFAULT_NO_RELATIONSHIP_PATH" \in Reason
      /\ scans' \in Nat /\ seen' \subseteq Node
      /\ << >> \in Seq(Relationship)
  BY <1>1 DEF Reason, IInv, TypeOK
<1> QED
  BY <1>1, <1>8, <1>9, Concluding

-----------------------------------------------------------------------------
(* Theorems *)

(* The inductive invariant holds of every evaluation. *)
THEOREM Invariance == Spec => []IInv
<1>1. Init => IInv
  BY InitEstablishes
<1>2. IInv /\ [Next]_vars => IInv'
  <2>1. ASSUME IInv, Next PROVE IInv'
    BY <2>1, RejectRequestPreserves, AcceptRequestPreserves, BoundPreserves, SkipOtherTenantPreserves,
       FindDenyPreserves, FindAllowPreserves, PassPreserves, VisitPreserves, NextEntryPreserves,
       NoDenyPreserves, NoAllowPreserves DEF Next
  <2>2. ASSUME IInv, UNCHANGED vars PROVE IInv'
    BY <2>2 DEF vars, IInv, TypeOK, SearchInv, Searching, DenyFound, DenyHandled, GrantFound,
       GrantHandled, Handled, At, Unreported, AllowIsJustified, RefusalIsTrue, PathIsReal, CaveatsPass
  <2> QED
    BY <2>1, <2>2
<1> QED
  BY <1>1, <1>2, PTL DEF Spec

(* The state of an evaluation is well-formed and no entry lies deeper than  *)
(* the guard allows (DecisionTraversalGuard.recordDepth).                   *)
THEOREM TypeCorrect == Spec => []TypeOK
BY Invariance, PTL DEF IInv

(* An allow is granted, not denied, and its caveats are met: findDenyPath   *)
(* and findAllowPath are right for graphs and bounds of any size.           *)
THEOREM AllowIsJustifiedHolds == Spec => []AllowIsJustified
BY Invariance, PTL DEF IInv

(* A refusal by deny or by default is what the graph says, so pruning by    *)
(* bestGrantByNode and visited loses nothing.                               *)
THEOREM RefusalIsTrueHolds == Spec => []RefusalIsTrue
BY Invariance, PTL DEF IInv

(* The path that buildAllowPath or buildDenyPath returns is a chain of      *)
(* listed relationships inside the tenant and within maxDepth.              *)
THEOREM PathIsRealHolds == Spec => []PathIsReal
BY Invariance, PTL DEF IInv
(* What the guard has counted is bounded by the graph. *)
LEMMA Counting == Spec => []CountInv
<1>1. Init => CountInv
  BY NoneAssumption DEF Init, CountInv, Searching, SmallGraphIsDecided, Reason
<1>2. IInv /\ IInv' /\ CountInv /\ [Next]_vars => CountInv'
  <2>1. ASSUME IInv, IInv', CountInv, NEW k \in 1 .. 9, RejectRequest(k) PROVE CountInv'
    <3>1. phase' = "done" /\ reason' # "DENY_TRAVERSAL_BOUND_EXCEEDED"
      BY <2>1 DEF RejectRequest, Conclude, RequestChecks
    <3> QED
      BY <2>1, <3>1, ConclusionIsCounted
  <2>2. ASSUME IInv, IInv', CountInv, FindDeny \/ FindAllow \/ NoAllow PROVE CountInv'
    <3>1. phase' = "done" /\ reason' # "DENY_TRAVERSAL_BOUND_EXCEEDED"
      BY <2>2 DEF FindDeny, FindAllow, NoAllow, Conclude
    <3> QED
      BY <2>2, <3>1, ConclusionIsCounted
  <2>3. ASSUME IInv, IInv', CountInv, Next PROVE CountInv'
    BY <2>1, <2>2, <2>3, StartIsCounted, BoundIsCounted, PassIsCounted, VisitIsCounted,
       NextEntryIsCounted DEF Next
  <2>4. ASSUME CountInv, UNCHANGED vars PROVE CountInv'
    BY <2>4 DEF vars, CountInv, Searching, Distinct, Looked, Rels, Handled, SmallGraphIsDecided,
       RelationshipCount
  <2> QED
    BY <2>3, <2>4
<1> QED
  BY <1>1, <1>2, Invariance, PTL DEF Spec

(* The bounds of DecisionTraversalGuard deny only what is large: a graph    *)
(* with a third of maxRelationshipScans relationships, and nodes that fit   *)
(* in maxVisitedNodes and twice in maxDepth, is decided, however cyclic it  *)
(* is, because a search queues a node once with and once without a grant.   *)
THEOREM SmallGraphIsDecidedHolds == Spec => []SmallGraphIsDecided
BY Counting, PTL DEF CountInv
=============================================================================

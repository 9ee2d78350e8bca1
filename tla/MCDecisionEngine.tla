-------------------------- MODULE MCDecisionEngine --------------------------
(* Small graphs for DecisionEngine: a subject s, a group g, a workspace w   *)
(* and the resource r.                                                      *)
EXTENDS DecisionEngine

CONSTANTS s, g, w, r, t1, t2, k1, k2

MCKindOf ==
  [member_of |-> "membership", contains |-> "containment", viewer_of |-> "grant",
   owner_of |-> "grant", denied |-> "deny", other |-> None]
MCRelation == DOMAIN MCKindOf

\* viewer_of carries one caveat; owner_of two conditional entries.
MCConditional ==
  {[relation |-> "viewer_of", caveats |-> {k1}],
   [relation |-> "owner_of", caveats |-> {k1}], [relation |-> "owner_of", caveats |-> {k2}]}

Tuple(n, relation, m) ==
  [subject |-> n, relation |-> relation, object |-> m, tenant |-> None, met |-> {k1}]

FromSubject ==
  {Tuple(s, "member_of", g), Tuple(s, "viewer_of", w), Tuple(s, "viewer_of", r),
   Tuple(s, "denied", r), [Tuple(s, "viewer_of", w) EXCEPT !.met = {}]}
FromGroup ==
  {Tuple(g, "member_of", s), Tuple(g, "viewer_of", w), Tuple(g, "denied", r),
   Tuple(g, "contains", r), Tuple(g, "other", w)}
FromWorkspace ==
  {Tuple(w, "contains", r), Tuple(w, "member_of", g), Tuple(w, "owner_of", r),
   Tuple(w, "denied", r)}

Lists(E, n) == {l \in UNION {[1 .. m -> E] : m \in 0 .. n} : \A i, j \in DOMAIN l : l[i] = l[j] => i = j}

Graph(lists, lists2, lists3) ==
  {[n \in Node |-> CASE n = s -> a [] n = g -> b [] n = w -> c [] OTHER -> << >>] :
     a \in lists, b \in lists2, c \in lists3}

Roomy == [maxDepth |-> 8, maxRelationshipScans |-> 15, maxVisitedNodes |-> 4]
Plain ==
  [asOf |-> "valid", standing |-> [n \in Node |-> "active"], tenant |-> [n \in Node |-> None],
   relationships |-> [n \in Node |-> << >>], bounds |-> Roomy]

\* Every shape of graph, in bounds that just suffice.
Shapes ==
  {[Plain EXCEPT !.relationships = graph] :
     graph \in Graph(Lists(FromSubject, 2), Lists(FromGroup, 2), Lists(FromWorkspace, 1))}

\* A chain through the group and the workspace, and a direct grant.
Through(a) ==
  [n \in Node |-> CASE n = s -> a
                    [] n = g -> <<Tuple(g, "viewer_of", w)>>
                    [] n = w -> <<Tuple(w, "contains", r)>>
                    [] OTHER -> << >>]
Chains ==
  {Through(<<Tuple(s, "member_of", g)>>),
   Through(<<[Tuple(s, "member_of", g) EXCEPT !.tenant = t1], Tuple(s, "viewer_of", r)>>)}

\* One node in each standing, one node in each tenant.
Standings == {[[n \in Node |-> "active"] EXCEPT ![m] = x] : m \in Node, x \in Standing}
Tenants ==
  {[n \in Node |-> IF n = m THEN x ELSE y] : m \in Node, x \in {None, t1, t2}, y \in {None, t1}}

Worlds ==
  {[Plain EXCEPT !.relationships = graph, !.standing = standing, !.tenant = tenant, !.asOf = asOf] :
     graph \in Chains, standing \in Standings, tenant \in Tenants, asOf \in {"valid", "invalid", "future"}}

\* Chains against every bound that matters to them.
Tight ==
  {[Plain EXCEPT !.relationships = graph,
                 !.bounds = [maxDepth |-> d, maxRelationshipScans |-> n, maxVisitedNodes |-> v]] :
     graph \in Chains, d \in 1 .. 3, n \in 1 .. 5, v \in 1 .. 3}

MCInput == Shapes \cup Worlds \cup Tight
=============================================================================

----------------------------- MODULE MCDiscovery -----------------------------
(* Small tenants and organizations for the two connectors.                    *)
EXTENDS Naturals, FiniteSets

CONSTANTS None, u, g, s, x, t, d, f1, f2, f3, a1, q1

G == INSTANCE GraphDiscovery WITH MaxDriveItemDepth <- 2

\* Directories: a user, a group and an application; x is nobody that was read.
Directory(h) ==
  [users |-> h.users, guests |-> {}, groups |-> {g}, sps |-> h.sps, deleted |-> h.deleted,
   unified |-> h.unified, teams |-> h.teams, unreadable |-> {g},
   members |-> [i \in {g} |-> h.members], owners |-> [i \in {g} |-> h.owners],
   assignments |-> [i \in {s} |-> h.assignments],
   sites |-> {}, siteDrives |-> [i \in {} |-> {}], userDrives |-> [i \in {u} |-> {}], items |-> {}, permissions |-> {}]
Directories ==
  {Directory(h) : h \in [users : {{}, {u}, {u, None}}, sps : {{}, {s}}, deleted : {{}, {u}},
                         unified : {{}, {g}}, teams : {{}, {g}}, members : SUBSET {u, x, None},
                         owners : {{}, {u}, {s, x, None}}, assignments : SUBSET {u, g, x}]}

\* A site and a user with drives, a tree of items below a drive, one permission.
Facets == {"folder", "file", "other"}
Tree(h) ==
  LET i1 == [id |-> h.top, parent |-> G!driveResource(d), facet |-> h.facets[1]]
      i2 == [id |-> f2, parent |-> G!driveItemResource(f1), facet |-> h.facets[2]]
      i3 == [id |-> f3, parent |-> G!driveItemResource(f2), facet |-> "file"]
  IN  {i1} \cup (IF h.top = f1 /\ h.facets[1] = "folder" THEN {i2} ELSE {})
      \cup (IF h.top = f1 /\ h.facets[1] = "folder" /\ h.facets[2] = "folder" THEN {i3} ELSE {})
Site(h) ==
  [users |-> {u}, guests |-> {u}, groups |-> {}, sps |-> {}, deleted |-> h.deleted,
   unified |-> {}, teams |-> {}, unreadable |-> {},
   members |-> [i \in {} |-> {}], owners |-> [i \in {} |-> {}], assignments |-> [i \in {} |-> {}],
   sites |-> {t}, siteDrives |-> [i \in {t} |-> h.siteDrives], userDrives |-> [i \in {u} |-> h.userDrives],
   items |-> Tree(h),
   permissions |-> {[id |-> h.permission, target |-> h.target, link |-> h.deleted # {}, inherited |-> h.roles = {"read"},
                     identities |-> h.identities, roles |-> h.roles]}]
Who(kind, id) == [kind |-> kind, id |-> id]
Identities ==
  {{}, {Who("user", u)}, {Who("user", u), Who("user", x)}, {Who("user", None)}, {Who("siteUser", u)},
   {Who("user", u), Who("siteUser", x)}, {Who("other", x)}, {Who("user", u), Who("other", x)}}
Sites ==
  {Site(h) : h \in [deleted : {{}, {u}}, siteDrives : {{}, {d}, {None}}, userDrives : {{}, {d}},
                    top : {f1, None}, facets : Facets \X Facets,
                    permission : {q1, None}, target : {<<"site", t>>, <<"item", f1>>, <<"item", f3>>},
                    identities : Identities, roles : {{}, {"read"}, {"read", "write"}}]}

\* Organizations: an assignment, a finding and up to two events about the account.
Assignment(h) == [principal |-> h.principal, type |-> "USER", account |-> h.account, permissionSet |-> q1, deleted |-> h.gone]
Finding(h) == [id |-> h.finding, principal |-> h.principal, resource |-> IF h.gone THEN f3 ELSE h.account,
               public |-> h.gone, status |-> h.status, updated |-> h.updated]
Event(h) == [time |-> h.time, delivered |-> h.delivered, retried |-> h.retried, keys |-> {a1}]
Events == {Event(h) : h \in [time : {None, 0, 2}, delivered : {None, 1, 2, 4}, retried : {FALSE}]}
          \cup {Event([time |-> 3, delivered |-> 3, retried |-> b]) : b \in BOOLEAN}
Organizations ==
  {[accounts |-> h.accounts, permissionSets |-> {q1}, roles |-> {[arn |-> f2, account |-> h.account]},
    deleted |-> IF h.gone THEN {f2} ELSE {}, aliases |-> {[key |-> f3, of |-> <<"account", a1>>]},
    assignments |-> {Assignment(h)}, findings |-> {Finding(h)}, events |-> {h.first, h.second}] :
     h \in [accounts : {{}, {a1}, {a1, None}}, principal : {None, u}, account : {None, a1}, gone : BOOLEAN,
            finding : {None, f1}, status : {"ACTIVE", "RESOLVED", None}, updated : {None, 1, 3}, first : Events, second : Events]}
=============================================================================

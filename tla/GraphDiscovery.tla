--------------------------- MODULE GraphDiscovery ---------------------------
(***************************************************************************)
(* What the Microsoft Graph connector makes of the collections it has read *)
(* (connectors-microsoft-graph/src/connector.ts, resource-mappers.ts,      *)
(* provider-utils.ts): subjects, resources, relationships, native grants   *)
(* and warnings. The reads themselves are in CollectionReader.             *)
(*                                                                         *)
(* p is what was read. An identifier None stands for a record without one. *)
(* Hashed identifiers are the identifiers: the hash is taken as injective, *)
(* and the items of different drives as differently named.                 *)
(***************************************************************************)
EXTENDS Naturals, FiniteSets

CONSTANTS
  None,
  MaxDriveItemDepth   \* maxDriveItemDepth of the connector, at least one

Known(ids) == ids \ {None}

\* A warning has a code and a scope, and is about a resource or about none.
Warn(condition, code, scope, resource) == IF condition THEN {<<code, scope, resource>>} ELSE {}

\* #warnMissingId
warnMissingId(ids, scope) == Warn(None \in ids, "OBJECT_MISSING_ID_SKIPPED", scope, None)

\* The resources of an object, by what they represent.
applicationResource(sp) == <<"application", sp>>
m365GroupResource(g) == <<"m365_group", g>>
teamResource(g) == <<"team", g>>
sharePointSiteResource(s) == <<"site", s>>
driveResource(d) == <<"drive", d>>
driveItemResource(i) == <<"item", i>>

\* #buildEntityMaps: users, groups and service principals with an identifier; a group or
\* a service principal replaces a subject of the same identifier.
Subjects(p) == Known(p.users \cup p.groups \cup p.sps)
PrincipalType(p, id) ==
  CASE id \in p.sps -> "service_principal"
    [] id \in p.groups \ p.sps -> "group"
    [] id \in (p.users \cap p.guests) \ (p.groups \cup p.sps) -> "external_user"
    [] OTHER -> "user"
\* graphRecordDeleted and tombstoneAttributes: a removed record stays, as deleted.
LifecycleState(p, id) == IF id \in p.deleted THEN "deleted" ELSE "active"
EntityWarnings(p) == warnMissingId(p.users \cup p.groups \cup p.sps, "subjects")

isM365Group(p, g) == g \in p.unified
isTeamsBackedGroup(p, g) == g \in p.teams

\* nativeGrantTypeForPrincipal
nativeGrantTypeForPrincipal(type) == IF type = "group" THEN "group" ELSE "direct"

nativeGrant(p, subject, resource, permission) ==
  [subject |-> subject, resource |-> resource, permission |-> permission,
   type |-> nativeGrantTypeForPrincipal(PrincipalType(p, subject))]
relationship(subject, relation, object) == <<subject, relation, object>>

\* Wrong: a member is taken over whether or not it was imported.
AllListed(p, listed) == Known(listed)
\* The members or owners that are imported; the others are skipped with a warning.
Imported(p, listed) == listed \cap Subjects(p)
SkipWarnings(p, listed, code, scope, resource) ==
  warnMissingId(listed, scope) \cup Warn(Known(listed) \ Subjects(p) # {}, code, scope, resource)

\* The containers a group stands for: its Microsoft 365 resource and its team.
Containers(p, g) ==
  IF ~isM365Group(p, g) THEN {}
  ELSE {m365GroupResource(g)} \cup (IF isTeamsBackedGroup(p, g) THEN {teamResource(g)} ELSE {})

\* #addM365Owners, called for a Microsoft 365 group only: of other groups no owner is read.
OwnerRelationships(p, g) ==
  {relationship(o, "owner", r) : o \in Imported(p, p.owners[g]), r \in Containers(p, g)}
OwnerGrants(p, g) ==
  {nativeGrant(p, o, r, "owner") : o \in Imported(p, p.owners[g]), r \in Containers(p, g)}
OwnerWarnings(p, g) ==
  IF ~isM365Group(p, g) THEN {}
  ELSE SkipWarnings(p, p.owners[g], "LIMITED_OWNER_SKIPPED", "relationships", None)
       \cup Warn(p.owners[g] = {}, "M365_GROUP_OWNER_COVERAGE_EMPTY", "relationships", None)
       \cup Warn(p.owners[g] \cap p.sps # {}, "GROUP_OWNER_SERVICE_PRINCIPAL_VISIBILITY_LIMITED", "relationships", None)

\* #buildRelationships for one group.
GroupRelationships(p, g) ==
  LET members == Imported(p, p.members[g])
  IN  {relationship(m, "member_of", g) : m \in members}
      \cup {relationship(m, "member", r) : m \in members, r \in Containers(p, g)}
      \cup {relationship(g, "m365_group_represents", r) : r \in Containers(p, g) \cap {m365GroupResource(g)}}
      \cup {relationship(m365GroupResource(g), "m365_group_backs_team", r) :
              r \in Containers(p, g) \cap {teamResource(g)}}
      \cup OwnerRelationships(p, g)
GroupGrants(p, g) ==
  {nativeGrant(p, m, r, "member") : m \in Imported(p, p.members[g]), r \in Containers(p, g)}
  \cup OwnerGrants(p, g)
\* readRecord: a team that cannot be read is kept from the group's marker, with a warning.
readTeamForGroup(p, g) == Warn(g \in p.unreadable, "TEAM_COUPLING_SKIPPED", "resources", None)
GroupWarnings(p, g) ==
  SkipWarnings(p, p.members[g], "LIMITED_MEMBER_SKIPPED", "relationships", None)
  \cup OwnerWarnings(p, g)
  \cup IF teamResource(g) \in Containers(p, g)
       THEN Warn(TRUE, "TEAM_CHANNEL_COVERAGE_UNSUPPORTED", "native_grants", None) \cup readTeamForGroup(p, g)
       ELSE {}

buildRelationships(p) ==
  (UNION {GroupRelationships(p, g) : g \in Known(p.groups)})
  \cup {relationship(sp, "represents", applicationResource(sp)) : sp \in Known(p.sps)}

\* #buildNativeGrants: the app-role assignments of every application.
buildNativeGrants(p) ==
  UNION {{nativeGrant(p, id, applicationResource(sp), "appRole") : id \in Imported(p, p.assignments[sp])} :
           sp \in Known(p.sps)}
AssignmentWarnings(p) ==
  UNION {SkipWarnings(p, p.assignments[sp], "APP_ROLE_PRINCIPAL_SKIPPED", "native_grants", None) : sp \in Known(p.sps)}

\* #addSiteDrives and #addUserDrives: the drives of the sites come first; the drives of a
\* user are read unless the user is deleted.
EnumerableUsers(p) == {u \in Known(p.users) : LifecycleState(p, u) = "active"}
SiteDrives(p) == UNION {p.siteDrives[s] : s \in Known(p.sites)}
UserDrives(p) == UNION {p.userDrives[u] : u \in EnumerableUsers(p)}
Drives(p) == Known(SiteDrives(p) \cup UserDrives(p))
DriveParents(p, d) == {sharePointSiteResource(s) : s \in {s \in Known(p.sites) : d \in p.siteDrives[s]}}

\* #addDriveInventory: a drive that is found a second time is not taken again.
Finders(p, d) ==
  {<<"site", s>> : s \in {s \in Known(p.sites) : d \in p.siteDrives[s]}}
    \cup {<<"user", u>> : u \in {u \in EnumerableUsers(p) : d \in p.userDrives[u]}}
DriveWarnings(p) ==
  warnMissingId(p.sites \cup SiteDrives(p) \cup UserDrives(p), "resources")
  \cup Warn(TRUE, "SHAREPOINT_SITE_SEARCH_COVERAGE_LIMITED", "resources", None)
  \cup Warn(p.sites = {}, "SHAREPOINT_SITES_COVERAGE_EMPTY", "resources", None)
  \cup Warn(EnumerableUsers(p) # {}, "ONEDRIVE_USER_ENUMERATION_SEQUENTIAL", "resources", None)
  \cup {<<"SHAREPOINT_SITE_DRIVES_EMPTY", "resources", sharePointSiteResource(s)>> :
           s \in {s \in Known(p.sites) : p.siteDrives[s] = {}}}
  \cup {<<"ONEDRIVE_DRIVES_EMPTY", "resources", u>> : u \in {u \in EnumerableUsers(p) : p.userDrives[u] = {}}}
  \cup {<<"DRIVE_DUPLICATE_DISCOVERY", "resources", driveResource(d)>> :
           d \in {d \in Drives(p) : \E a, b \in Finders(p, d) : a # b}}
  \cup {<<"SHAREPOINT_ONEDRIVE_INHERITANCE_AMBIGUOUS", "resources", driveResource(d)>> : d \in Drives(p)}

\* driveItemResourceType and isDriveItemContainer
driveItemResourceType(i) ==
  IF i.facet \in {"folder", "package"} THEN "folder" ELSE IF i.facet = "file" THEN "document" ELSE None
isDriveItemContainer(i) == driveItemResourceType(i) = "folder"

Children(p, parents) == {i \in p.items : i.parent \in parents}
Supported(items) == {i \in items : i.id # None /\ driveItemResourceType(i) # None}

\* #addDriveItems: the levels that are read before the depth limit.
Levels == 0..MaxDriveItemDepth - 1

\* The items read at a level: the children of the drives, then of the folders above, so
\* each item at the end of a chain of folders from a drive.
IsChain(p, chain, n) ==
  /\ chain[0] \in Children(p, {driveResource(d) : d \in Drives(p)})
  /\ \A k \in 1..n :
       /\ chain[k - 1] \in Supported(p.items) /\ isDriveItemContainer(chain[k - 1])
       /\ chain[k] \in Children(p, {driveItemResource(chain[k - 1].id)})
ItemsAt(p, n) == {i \in p.items : \E chain \in [0..n -> p.items] : IsChain(p, chain, n) /\ chain[n] = i}
ItemsRead(p) == UNION {ItemsAt(p, n) : n \in Levels}
Unsupported(p) == {i \in ItemsRead(p) : i.id # None /\ driveItemResourceType(i) = None}
TooDeep(p) == {i \in Supported(ItemsAt(p, MaxDriveItemDepth - 1)) : isDriveItemContainer(i)}
ItemWarnings(p) ==
  warnMissingId({i.id : i \in ItemsRead(p)}, "resources")
  \cup {<<"DRIVE_ITEM_UNSUPPORTED_FACET_SKIPPED", "resources", i.parent>> : i \in Unsupported(p)}
  \cup {<<"DRIVE_ITEM_DEPTH_LIMIT_REACHED", "resources", driveItemResource(i.id)>> : i \in TooDeep(p)}
  \cup {<<"SHAREPOINT_ONEDRIVE_INHERITANCE_AMBIGUOUS", "resources", driveItemResource(i.id)>> :
           i \in Supported(ItemsRead(p))}

\* The resources whose permissions are read.
GrantTargets(p) ==
  {sharePointSiteResource(s) : s \in Known(p.sites)} \cup {driveResource(d) : d \in Drives(p)}
  \cup {driveItemResource(i.id) : i \in Supported(ItemsRead(p))}

\* permissionIdentities: users, groups, applications and site users. Any other principal of
\* a permission (a device, a group of a site) is not looked at.
permissionIdentities(perm) == {who \in perm.identities : who.kind # "other"}
\* #addPermissionNativeGrants: a grant per role and known principal that is no site user.
Linkable(perm) == {who \in permissionIdentities(perm) : who.kind # "siteUser"}
PermissionGrants(p, perm) ==
  IF perm.id = None THEN {}
  ELSE {[nativeGrant(p, who.id, perm.target, role) EXCEPT
           !.type = IF perm.inherited THEN "inherited" ELSE @] :
          who \in {who \in Linkable(perm) : who.id \in Subjects(p)}, role \in perm.roles}
PermissionWarnings(p, perm) ==
  LET Unclear(condition, code) == Warn(condition, code, "native_grants", perm.target)
  IN  IF perm.id = None THEN warnMissingId({None}, "native_grants")
      ELSE IF perm.roles = {} THEN Unclear(TRUE, "NATIVE_GRANT_ROLE_UNSUPPORTED")
      ELSE Unclear(perm.link, "NATIVE_GRANT_LINK_SEMANTICS_UNSUPPORTED")
           \cup Unclear(permissionIdentities(perm) = {}, "NATIVE_GRANT_PRINCIPAL_UNSUPPORTED")
           \cup Unclear(\E who \in permissionIdentities(perm) : who.kind = "siteUser", "NATIVE_GRANT_SITE_USER_UNSUPPORTED")
           \cup SkipWarnings(p, {who.id : who \in Linkable(perm)}, "NATIVE_GRANT_PRINCIPAL_SKIPPED", "native_grants", perm.target)

\* #buildSharePointAndOneDriveNativeGrants
TargetPermissions(p) == {perm \in p.permissions : perm.target \in GrantTargets(p)}
SharePointAndOneDriveGrants(p) == UNION {PermissionGrants(p, perm) : perm \in TargetPermissions(p)}
TargetWarnings(p) ==
  (UNION {PermissionWarnings(p, perm) : perm \in TargetPermissions(p)})
  \cup {<<"NATIVE_GRANT_COVERAGE_EMPTY", "native_grants", r>> :
           r \in {r \in GrantTargets(p) : ~\E perm \in p.permissions : perm.target = r}}

\* #loadSnapshot once everything is read.
Resources(p) ==
  {applicationResource(sp) : sp \in Known(p.sps)}
  \cup (UNION {Containers(p, g) : g \in Known(p.groups)}) \cup GrantTargets(p)
Grants(p) ==
  buildNativeGrants(p) \cup SharePointAndOneDriveGrants(p)
  \cup (UNION {GroupGrants(p, g) : g \in Known(p.groups)})
Warnings(p) ==
  EntityWarnings(p) \cup AssignmentWarnings(p) \cup DriveWarnings(p) \cup ItemWarnings(p)
  \cup TargetWarnings(p) \cup (UNION {GroupWarnings(p, g) : g \in Known(p.groups)})

Parents(p) ==
  (UNION {DriveParents(p, d) : d \in Drives(p)})
  \cup {i.parent : i \in Supported(ItemsRead(p))}
  \cup {m365GroupResource(g) : g \in {g \in Known(p.groups) : teamResource(g) \in Containers(p, g)}}

---------------------------------------------------------------------------

\* Every fact of the snapshot is between things that are imported too: both ends of a
\* relationship and of a grant, and the parent of a resource (#loadSnapshot).
NothingDangles(p) ==
  /\ \A r \in buildRelationships(p) : {r[1], r[3]} \subseteq Subjects(p) \cup Resources(p)
  /\ \A g \in Grants(p) : g.subject \in Subjects(p) /\ g.resource \in Resources(p)
  /\ Parents(p) \subseteq Resources(p)

\* The warning about one that is listed and not imported, or has no identifier: it names
\* a resource where the code has it name one, and only then tells which of several it is.
SkipIsTold(p, id, code, scope, resource) ==
  IF id = None THEN <<"OBJECT_MISSING_ID_SKIPPED", scope, None>> \in Warnings(p)
  ELSE id \notin Subjects(p) /\ <<code, scope, resource>> \in Warnings(p)

IsGranted(p, id, resource, permission) ==
  \E grant \in Grants(p) : grant.subject = id /\ grant.resource = resource /\ grant.permission = permission

AssignmentsAreTold(p, sp) ==
  \A id \in p.assignments[sp] :
    \/ IsGranted(p, id, applicationResource(sp), "appRole")
    \/ SkipIsTold(p, id, "APP_ROLE_PRINCIPAL_SKIPPED", "native_grants", None)

\* A member belongs to the group and to all that the group stands for.
MembersAreTold(p, g) ==
  \A id \in p.members[g] :
    \/ /\ <<id, "member_of", g>> \in buildRelationships(p)
       /\ \A r \in Containers(p, g) :
            <<id, "member", r>> \in buildRelationships(p) /\ IsGranted(p, id, r, "member")
    \/ SkipIsTold(p, id, "LIMITED_MEMBER_SKIPPED", "relationships", None)

\* An owner owns the Microsoft 365 group, and its team if it has one.
OwnersAreTold(p, g) ==
  \A id \in p.owners[g] :
    \/ \A r \in {m365GroupResource(g)} \cup Containers(p, g) :
         <<id, "owner", r>> \in buildRelationships(p) /\ IsGranted(p, id, r, "owner")
    \/ SkipIsTold(p, id, "LIMITED_OWNER_SKIPPED", "relationships", None)

DrivesAreTold(p, drives) ==
  \A d \in drives : IF d = None THEN <<"OBJECT_MISSING_ID_SKIPPED", "resources", None>> \in Warnings(p)
                    ELSE driveResource(d) \in Resources(p)

\* What lies below a drive or folder of the snapshot.
ItemIsTold(p, i) ==
  \/ driveItemResource(i.id) \in Resources(p)
  \/ i.id = None /\ <<"OBJECT_MISSING_ID_SKIPPED", "resources", None>> \in Warnings(p)
  \/ driveItemResourceType(i) = None /\ <<"DRIVE_ITEM_UNSUPPORTED_FACET_SKIPPED", "resources", i.parent>> \in Warnings(p)
  \/ <<"DRIVE_ITEM_DEPTH_LIMIT_REACHED", "resources", i.parent>> \in Warnings(p)

\* Some principals of a permission have every role of it, or a warning speaks of its target.
PermissionIsTold(p, perm, principals) ==
  LET told(code) == <<code, "native_grants", perm.target>> \in Warnings(p)
  IN  \/ perm.id = None /\ <<"OBJECT_MISSING_ID_SKIPPED", "native_grants", None>> \in Warnings(p)
      \/ perm.roles = {} /\ told("NATIVE_GRANT_ROLE_UNSUPPORTED")
      \/ perm.roles # {} /\ permissionIdentities(perm) = {} /\ told("NATIVE_GRANT_PRINCIPAL_UNSUPPORTED")
      \/ /\ \A who \in principals :
              \/ \A role \in perm.roles : IsGranted(p, who.id, perm.target, role)
              \/ who.kind = "siteUser" /\ told("NATIVE_GRANT_SITE_USER_UNSUPPORTED")
              \/ SkipIsTold(p, who.id, "NATIVE_GRANT_PRINCIPAL_SKIPPED", "native_grants", perm.target)
         /\ perm.link => told("NATIVE_GRANT_LINK_SEMANTICS_UNSUPPORTED")

\* What the provider lists is a fact of the snapshot or the subject of a warning of its
\* own kind: the assignments, members, permissions, drives and items, and the owners, with
\* three exceptions that the code neither keeps nor tells (#loadSnapshot): the owners of a
\* group that is no Microsoft 365 group (#buildRelationships), the drives of a deleted user
\* (#buildSharePointAndOneDriveInventory), and the principals of an unknown kind beside one
\* of a known kind (permissionIdentities).
NothingIsLostSilently(p) ==
  /\ \A sp \in Known(p.sps) : AssignmentsAreTold(p, sp)
  /\ \A g \in Known(p.groups) : MembersAreTold(p, g)
  /\ \A g \in {g \in Known(p.groups) : isM365Group(p, g)} : OwnersAreTold(p, g)
  /\ \A s \in Known(p.sites) : DrivesAreTold(p, p.siteDrives[s])
  /\ \A u \in Known(p.users) \ p.deleted : DrivesAreTold(p, p.userDrives[u])
  /\ \A i \in p.items : i.parent \in Resources(p) => ItemIsTold(p, i)
  /\ \A perm \in p.permissions : perm.target \in Resources(p) => PermissionIsTold(p, perm, permissionIdentities(perm))

\* The same without the exceptions. It does not hold: each of them occurs.
EverythingIsTold(p) ==
  /\ NothingIsLostSilently(p)
  /\ \A g \in Known(p.groups) : OwnersAreTold(p, g)
  /\ \A u \in Known(p.users) : DrivesAreTold(p, p.userDrives[u])
  /\ \A perm \in p.permissions : perm.target \in Resources(p) => PermissionIsTold(p, perm, perm.identities)
=============================================================================

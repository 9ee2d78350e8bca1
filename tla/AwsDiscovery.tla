---------------------------- MODULE AwsDiscovery ----------------------------
(***************************************************************************)
(* What the AWS connector makes of the collections it has read             *)
(* (connectors-aws/src/discovery.ts, native-grants.ts, drift-findings.ts,  *)
(* latency-confidence.ts): resources, subjects, relationships, grants,     *)
(* drift findings, and the confidence in what CloudTrail says of them.     *)
(*                                                                         *)
(* a is what was read; None stands for a field that is missing. Times are  *)
(* numbers, and a window is the number of units it spans: that the order   *)
(* of two timestamps as texts, which latency-confidence.ts compares, is    *)
(* their order in time is taken for granted, and so is that they parse.    *)
(***************************************************************************)
EXTENDS Integers, FiniteSets

CONSTANTS
  None,
  Now,              \* when the snapshot is loaded
  LatencyWindow,    \* eventBridgeLatencyWindowMinutes
  ActivityWindow,   \* cloudTrailStaleActivityWindowMinutes
  FindingWindow     \* accessAnalyzerStaleFindingWindowMinutes

Named(ids) == ids \ {None}
\* A reason has a code, a warning a code and a scope.
WarnIf(condition, code) == IF condition THEN {code} ELSE {}
Warn(condition, code, scope) == IF condition THEN {<<code, scope>>} ELSE {}

\* The resources of an object, by what they represent.
organizationResourceFor == <<"organization">>
accountResource(id) == <<"account", id>>
permissionSetResource(arn) == <<"permission_set", arn>>
roleResource(arn) == <<"role", arn>>

Accounts(a) == Named(a.accounts)
PermissionSets(a) == Named(a.permissionSets)
Roles(a) == {r \in a.roles : r.arn # None}

\* buildAwsEntityMaps
buildAwsEntityMaps(a) ==
  {organizationResourceFor} \cup {accountResource(id) : id \in Accounts(a)}
  \cup {permissionSetResource(arn) : arn \in PermissionSets(a)} \cup {roleResource(r.arn) : r \in Roles(a)}
\* pushAwsMissingIdWarning and pushAwsTombstoneWarning; a suspended account is a deleted one.
Arns(a) == {r.arn : r \in a.roles}
EntityWarnings(a) ==
  Warn(None \in a.accounts \cup a.permissionSets \cup Arns(a), "OBJECT_MISSING_ID_SKIPPED", "resources")
  \cup Warn(a.deleted \cap Named(a.accounts \cup a.permissionSets \cup Arns(a)) # {}, "TOMBSTONE_MARKED", "resources")

\* addAwsAssignmentSubjects and addAwsAccessAnalyzerSubjects
AssignmentSubjects(a) == Named({x.principal : x \in a.assignments})
AnalyzerSubjects(a) == Named({f.principal : f \in a.findings})
Subjects(a) == AssignmentSubjects(a) \cup AnalyzerSubjects(a)
SubjectWarnings(a) ==
  Warn(\E x \in a.assignments : x.principal = None, "OBJECT_MISSING_ID_SKIPPED", "native_grants")
  \cup Warn(\E x \in a.assignments : x.principal # None /\ x.deleted, "TOMBSTONE_MARKED", "native_grants")
\* subjectForPrincipal, subjectForAnalyzerPrincipal, nativePrincipalType: a principal of an
\* assignment has the type of one of its assignments, another is a service account.
nativePrincipalType(type) == CASE type = "GROUP" -> "group" [] type = "USER" -> "user" [] OTHER -> "service_account"
PrincipalTypes(a, id) ==
  IF id \in AssignmentSubjects(a)
  THEN {nativePrincipalType(x.type) : x \in {x \in a.assignments : x.principal = id}} ELSE {"service_account"}

isDeletedAssignment(x) == x.deleted
Status(deleted) == IF deleted THEN "deleted" ELSE "active"

\* buildAwsRelationships: a role of an account that is missing or unknown lies in no account.
buildAwsRelationships(a) ==
  {<<organizationResourceFor, "contains", accountResource(id), Status(id \in a.deleted)>> : id \in Accounts(a)}
  \cup {<<organizationResourceFor, "defines_permission_set", permissionSetResource(arn), Status(arn \in a.deleted)>> :
          arn \in PermissionSets(a)}
  \cup {<<accountResource(r.account), "contains", roleResource(r.arn), Status(r.arn \in a.deleted)>> :
          r \in {r \in Roles(a) : r.account \in Accounts(a)}}
  \cup {<<x.principal, "assigned_account_access", accountResource(x.account), Status(x.deleted)>> :
          x \in {x \in a.assignments : x.principal # None /\ x.account \in Accounts(a)}}
  \cup {<<x.principal, "assigned_permission_set", permissionSetResource(x.permissionSet), Status(x.deleted)>> :
          x \in {x \in a.assignments : x.principal # None /\ x.permissionSet \in PermissionSets(a)}}

---------------------------------------------------------------------------
(* Activity: what CloudTrail and EventBridge say of an account or a set.   *)

Timed(a) == {e \in a.events : e.time # None}

\* hasPartialOrdering: two delivered events whose order in time and in delivery differ.
hasPartialOrdering(a) ==
  \E e, f \in {e \in Timed(a) : e.delivered # None} : e.time < f.time /\ f.delivered < e.delivered

\* buildActivityIndex: why the activity of an event is to be doubted.
confidenceReasons(a, e) ==
  WarnIf(Now - e.time > ActivityWindow, "stale")
  \cup WarnIf(e.delivered # None /\ e.delivered - e.time > LatencyWindow, "latency")
  \cup WarnIf(e.delivered # None /\ e.delivered < e.time, "precedes")
  \cup WarnIf(e.retried, "retry")
  \cup WarnIf(hasPartialOrdering(a), "ordering")

\* confidenceLevelForReasons
confidenceLevelForReasons(reasons) ==
  IF reasons \cap {"stale", "missing", "timestamp_missing", "finding_stale", "precedes"} # {} THEN "low"
  ELSE IF reasons # {} THEN "medium" ELSE "high"

\* The latest of the events that concern a key; several may share the latest time.
latestActivity(events) == {e \in events : \A f \in events : f.time <= e.time}
Concerning(a, keys) == {e \in Timed(a) : e.keys \cap keys # {}}
\* latestActivityForAssignment and latestActivityForFinding
latestActivityForAssignment(a, x) == latestActivity(Concerning(a, Named({x.account, x.permissionSet})))
latestActivityForFinding(a, f) == latestActivity(Concerning(a, Named({f.resource})))

\* pushAwsLatencyWarnings
latencyWarnings(a) ==
  LET reasons == UNION {confidenceReasons(a, e) : e \in Timed(a)}
      Doubt(condition, code) == Warn(condition, code, "native_grants")
  IN  Doubt(TRUE, "ASYNC_ACTIVITY_WINDOWS_MODELED")
      \cup Doubt("latency" \in reasons, "EVENTBRIDGE_LATENCY_WINDOW_EXCEEDED")
      \cup Doubt("retry" \in reasons, "EVENTBRIDGE_RETRY_OBSERVED")
      \cup Doubt(hasPartialOrdering(a), "EVENT_PARTIAL_ORDERING_OBSERVED")
      \cup Doubt("stale" \in reasons, "CLOUDTRAIL_ACTIVITY_STALE")
      \cup Doubt(a.events = {}, "CLOUDTRAIL_ACTIVITY_EMPTY")

\* buildAwsNativeGrants: the assignments of a known account and permission set.
Grantable(a, x) == x.principal # None /\ x.account \in Accounts(a) /\ x.permissionSet \in PermissionSets(a)
grantConfidence(a, x) ==
  IF latestActivityForAssignment(a, x) = {} THEN {"low"}
  ELSE {confidenceLevelForReasons(confidenceReasons(a, e)) : e \in latestActivityForAssignment(a, x)}
buildAwsNativeGrants(a) ==
  {[subject |-> x.principal, resource |-> accountResource(x.account), permission |-> x.permissionSet,
    status |-> IF isDeletedAssignment(x) THEN "revoked" ELSE "observed", confidence |-> grantConfidence(a, x)] :
     x \in {x \in a.assignments : Grantable(a, x)}}
Unidentified(x) == None \in {x.principal, x.account, x.permissionSet}
GrantWarnings(a) ==
  Warn(\E x \in a.assignments : Unidentified(x), "OBJECT_MISSING_ID_SKIPPED", "native_grants")
  \cup Warn(\E x \in a.assignments : ~Unidentified(x) /\ ~Grantable(a, x),
            "ASSIGNMENT_OUTSIDE_BOUNDARY_SKIPPED", "native_grants")

\* accessAnalyzerReconciliationConfidence
findingReasons(a, f) ==
  WarnIf(f.updated = None, "timestamp_missing")
  \cup WarnIf(f.updated # None /\ Now - f.updated > FindingWindow, "finding_stale")
  \cup (IF latestActivityForFinding(a, f) = {} THEN {"missing"}
        ELSE UNION {confidenceReasons(a, e) : e \in latestActivityForFinding(a, f)})
  \cup WarnIf(hasPartialOrdering(a), "ordering")

\* accessAnalyzerSeverity
accessAnalyzerSeverity(f, level) ==
  CASE f.public -> "critical"
    [] ~f.public /\ f.principal # None -> IF level = "low" THEN "critical" ELSE "high"
    [] OTHER -> IF level = "low" THEN "high" ELSE "medium"

\* resolveFindingResource: the raw key of any imported resource, which for an account may be
\* its arn, for a role its roleId, and for the organization its id or arn (a.aliases).
RawKeys(a) ==
  Accounts(a) \cup PermissionSets(a) \cup Named(Arns(a))
    \cup {k.key : k \in {k \in a.aliases : k.of \in buildAwsEntityMaps(a)}}
\* A finding is open whatever its status, or without one, unless it was archived or resolved.
Open(f) == f.status \notin {"ARCHIVED", "RESOLVED"}
Reviewable(f) == f.id # None /\ Open(f)
\* buildAwsDriftFindings
buildAwsDriftFindings(a) ==
  {[finding |-> f.id, resource |-> f.resource, subject |-> f.principal,
    level |-> confidenceLevelForReasons(findingReasons(a, f)),
    severity |-> accessAnalyzerSeverity(f, confidenceLevelForReasons(findingReasons(a, f))),
    action |-> IF f.public THEN "revoke" ELSE "review"] :
     f \in {f \in a.findings : Reviewable(f) /\ f.resource \in RawKeys(a) /\ f.principal # None}}
FindingWarnings(a) ==
  Warn(\E f \in a.findings : Reviewable(f) /\ (f.resource \notin RawKeys(a) \/ f.principal = None),
       "ACCESS_ANALYZER_FINDING_SKIPPED", "native_grants")
  \cup Warn(\E d \in buildAwsDriftFindings(a) : d.level # "high", "RECONCILIATION_CONFIDENCE_DEGRADED", "native_grants")
  \cup Warn(buildAwsDriftFindings(a) # {}, "ACCESS_ANALYZER_FINDINGS_OBSERVED", "native_grants")

Warnings(a) ==
  EntityWarnings(a) \cup latencyWarnings(a) \cup SubjectWarnings(a) \cup GrantWarnings(a) \cup FindingWarnings(a)

---------------------------------------------------------------------------

\* Both ends of a relationship and of a grant are imported (buildAwsRelationships,
\* buildAwsNativeGrants).
NothingDangles(a) ==
  /\ \A r \in buildAwsRelationships(a) : {r[1], r[3]} \subseteq Subjects(a) \cup buildAwsEntityMaps(a)
  /\ \A g \in buildAwsNativeGrants(a) : g.subject \in Subjects(a) /\ g.resource \in buildAwsEntityMaps(a)

AssignmentIsTold(a, x) ==
  \/ \E grant \in buildAwsNativeGrants(a) :
       grant.subject = x.principal /\ grant.resource = accountResource(x.account) /\ grant.permission = x.permissionSet
  \/ Unidentified(x) /\ <<"OBJECT_MISSING_ID_SKIPPED", "native_grants">> \in Warnings(a)
  \/ ~Unidentified(x) /\ <<"ASSIGNMENT_OUTSIDE_BOUNDARY_SKIPPED", "native_grants">> \in Warnings(a)

\* A reported finding raises the alarm that findings were observed.
FindingIsTold(a, f) ==
  \/ /\ \E d \in buildAwsDriftFindings(a) : d.finding = f.id /\ d.resource = f.resource /\ d.subject = f.principal
     /\ <<"ACCESS_ANALYZER_FINDINGS_OBSERVED", "native_grants">> \in Warnings(a)
  \/ <<"ACCESS_ANALYZER_FINDING_SKIPPED", "native_grants">> \in Warnings(a)

RoleIsTold(a, r) ==
  \/ \E status \in {"active", "deleted"} :
       <<accountResource(r.account), "contains", roleResource(r.arn), status>> \in buildAwsRelationships(a)
  \/ r.arn = None /\ <<"OBJECT_MISSING_ID_SKIPPED", "resources">> \in Warnings(a)

\* An assignment, a finding that was neither archived nor resolved, whatever its status
\* says, or the place of a role is in the snapshot, or a warning of its own kind says that
\* some were left out (buildAwsNativeGrants, buildAwsDriftFindings, buildAwsRelationships),
\* with two exceptions that the code neither keeps nor tells: a finding without an id
\* (buildAwsDriftFindings), and the place of a role whose account is missing or unknown.
NothingIsLostSilently(a) ==
  /\ \A x \in a.assignments : AssignmentIsTold(a, x)
  /\ \A f \in a.findings : Open(f) /\ f.id # None => FindingIsTold(a, f)
  /\ \A r \in a.roles : r.arn = None \/ r.account \in Accounts(a) => RoleIsTold(a, r)

\* The same without the exceptions. It does not hold: both of them occur.
EverythingIsTold(a) ==
  /\ \A x \in a.assignments : AssignmentIsTold(a, x)
  /\ \A f \in a.findings : Open(f) => FindingIsTold(a, f)
  /\ \A r \in a.roles : RoleIsTold(a, r)

\* A grant is reported with high confidence only if the latest event on its account or
\* permission set is recent, was delivered in time, at the first attempt, and no two
\* deliveries were out of order; and it is not shown as low while such an event exists
\* (latency-confidence.ts).
HighConfidenceIsEarned(a) ==
  \A x \in {x \in a.assignments : Grantable(a, x)} :
    LET events == {e \in a.events : e.time # None /\ e.keys \cap {x.account, x.permissionSet} # {}}
        sound(e) == /\ Now - e.time <= ActivityWindow
                    /\ e.delivered # None => e.delivered >= e.time /\ e.delivered <= e.time + LatencyWindow
                    /\ ~e.retried
        ordered == \A e, f \in {e \in a.events : e.time # None /\ e.delivered # None} :
                     e.time < f.time => e.delivered <= f.delivered
        latest == {e \in events : ~\E f \in events : f.time > e.time}
    IN  "high" \in grantConfidence(a, x) <=> ordered /\ \E e \in latest : sound(e)
=============================================================================

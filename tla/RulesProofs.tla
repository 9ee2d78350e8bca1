----------------------------- MODULE RulesProofs -----------------------------
(***************************************************************************)
(* Proofs about the rules that keep no state, for every policy model,      *)
(* configuration, tenant, organization, export and body: a valid model is  *)
(* compiled as it declares, nothing is ready by default, no fact of a      *)
(* snapshot dangles or gets lost without a warning, an evidence package    *)
(* verifies exactly as it was signed, and a body reaches its handler as    *)
(* its schema and its decoder say.                                         *)
(***************************************************************************)
EXTENDS Rules, SequenceTheorems, FiniteSetTheorems, WellFoundedInduction, TLAPS

\* The instances count as this module does.
LEMMA SameCardinality ==
  ASSUME NEW S
  PROVE  P!Cardinality(S) = Cardinality(S) /\ R!Cardinality(S) = Cardinality(S)
BY DEF P!Cardinality, R!Cardinality, Cardinality

-----------------------------------------------------------------------------
(* Policy models *)

\* No relation of a valid model grants and denies, since its names are unique.
LEMMA KindIsUnique ==
  ASSUME NEW m, P!checkUnique(P!NamesOf(m.relations)),
         NEW name \in P!relationNamesOfKind(m, "grant")
  PROVE  name \notin P!relationNamesOfKind(m, "deny")
<1>1. PICK i \in DOMAIN m.relations : m.relations[i].kind = "grant" /\ m.relations[i].name = name
  BY DEF P!relationNamesOfKind, P!ToSet
<1>2. ASSUME name \in P!relationNamesOfKind(m, "deny")
      PROVE  FALSE
  <2>1. PICK j \in DOMAIN m.relations : m.relations[j].kind = "deny" /\ m.relations[j].name = name
    BY <1>2 DEF P!relationNamesOfKind, P!ToSet
  <2>2. i = j
    BY <1>1, <2>1 DEF P!checkUnique, P!NamesOf
  <2>. QED
    BY <1>1, <2>1, <2>2
<1>. QED
  BY <1>2

\* What a valid model declares for an action is there under the action's name in lower
\* case, which is what the engine asks for (compilePolicyModel).
LEMMA ModelCompilesAsDeclared ==
  ASSUME NEW m
  PROVE  P!ValidModelCompilesAsDeclared(m)
<1>. SUFFICES ASSUME P!validatePolicyModel(m)
              PROVE  P!ValidModelCompilesAsDeclared(m)
  BY DEF P!ValidModelCompilesAsDeclared
<1>1. /\ P!checkUnique(P!NamesOf(m.relations)) /\ P!checkActionMappings(m)
      /\ P!checkInheritanceRules(m) /\ P!checkDenyRules(m)
  BY DEF P!validatePolicyModel
<1>2. ASSUME NEW a \in P!ToSet(m.actions)
      PROVE  a.grants \subseteq P!grantRelationsByAction(m, P!toLowerCase(a.name))
  BY <1>1 DEF P!checkActionMappings, P!grantRelationsByAction
<1>3. ASSUME NEW key
      PROVE  P!grantRelationsByAction(m, key) \cap P!denyRelationsByAction(m, key) = {}
  BY <1>1, KindIsUnique DEF P!grantRelationsByAction, P!denyRelationsByAction, P!unscopedDenyRelations
<1>4. ASSUME NEW a, NEW r \in m.denies, r.actions = None \/ a \in r.actions
      PROVE  r.relation \in P!denyRelationsByAction(m, P!toLowerCase(a))
  <2>1. r.relation \in P!relationNamesOfKind(m, "deny")
    BY <1>1 DEF P!checkDenyRules
  <2>2. CASE r.actions = None
    BY <2>1, <2>2 DEF P!denyRelationsByAction, P!unscopedDenyRelations
  <2>3. CASE r.actions # None
    BY <1>4, <2>1, <2>3 DEF P!denyRelationsByAction
  <2>. QED
    BY <2>2, <2>3
<1>5. ASSUME NEW r \in m.inheritance, NEW a \in r.actions
      PROVE  r.through \in P!traversalRelationsByAction(m, P!toLowerCase(a))
  BY <1>1 DEF P!checkInheritanceRules, P!traversalRelationsByAction
<1>. QED
  BY <1>2, <1>3, <1>4, <1>5 DEF P!ValidModelCompilesAsDeclared

\* Two conditional relationships of a valid model never match the same step of a path:
\* those of one relation are bound to different actions.
LEMMA AtMostOneMatches ==
  ASSUME NEW m, NEW q, P!checkConditionalRelationships(m), P!ActionNames(m) # {},
         NEW i \in P!Matching(m, q), NEW j \in P!Matching(m, q)
  PROVE  i = j
<1>. SUFFICES ASSUME i # j
              PROVE  FALSE
  OBVIOUS
<1>1. /\ i \in DOMAIN m.conditionals /\ j \in DOMAIN m.conditionals
      /\ m.conditionals[i].relation = m.conditionals[j].relation
      /\ m.conditionals[i].actions = None \/ q.action \in m.conditionals[i].actions
      /\ m.conditionals[j].actions = None \/ q.action \in m.conditionals[j].actions
  BY DEF P!Matching
<1>2. P!Scoped(m, m.conditionals[i]) \cap P!Scoped(m, m.conditionals[j]) = {}
  BY <1>1 DEF P!checkConditionalRelationships
<1>3. \A n \in {i, j} : /\ m.conditionals[n].actions # None => m.conditionals[n].actions \subseteq P!ActionNames(m)
                        /\ m.conditionals[n].actions # None => q.action \in m.conditionals[n].actions
  BY <1>1 DEF P!checkConditionalRelationships, P!ToSet
<1>4. \A n \in {i, j} : m.conditionals[n].actions = None => P!Scoped(m, m.conditionals[n]) = P!ActionNames(m)
  BY DEF P!Scoped
<1>5. \A n \in {i, j} : m.conditionals[n].actions # None => P!Scoped(m, m.conditionals[n]) = m.conditionals[n].actions
  BY DEF P!Scoped
<1>. QED
  BY <1>2, <1>3, <1>4, <1>5

\* A condition on the context or on the time is met or not met when the context is valid:
\* its value is there, and of the type that the condition compares.
LEMMA ConditionIsDecided ==
  ASSUME NEW m, NEW q \in Request, P!validateRequestContext(m, q),
         NEW k, P!validateCaveatCondition(m, k), k.source \in {"context", "environment"}
  PROVE  P!evaluateCaveatCondition(k, q) \in {"pass", "fail"}
<1>1. SUFFICES P!resolveConditionValue(k, q) # None /\ P!valueMatchesType(P!resolveConditionValue(k, q), k.type)
  BY DEF P!evaluateCaveatCondition
<1>2. CASE k.source = "context"
  <2>1. PICK c \in P!ToSet(m.context) : c.name = k.key /\ c.type = k.type /\ c.required
    BY <1>2 DEF P!validateCaveatCondition
  <2>2. q.context[k.key] # None /\ P!valueMatchesType(q.context[k.key], k.type)
    BY <2>1 DEF P!validateRequestContext
  <2>. QED
    BY <1>2, <2>2 DEF P!resolveConditionValue
<1>3. CASE k.source = "environment"
  <2>1. k.key = "evaluatedAt" /\ k.type = "datetime"
    BY <1>3 DEF P!validateCaveatCondition
  <2>. QED
    BY <1>3, <2>1, RequestAssumption DEF P!resolveConditionValue, P!valueMatchesType
<1>. QED
  BY <1>2, <1>3

\* A caveat of a valid model is decided (evaluateConditionalRelationshipCaveats).
LEMMA CaveatIsDecided ==
  ASSUME NEW m, NEW q \in Request
  PROVE  P!ValidCaveatIsDecided(m, q)
<1>. SUFFICES ASSUME P!validatePolicyModel(m)
              PROVE  P!ValidCaveatIsDecided(m, q)
  BY DEF P!ValidCaveatIsDecided
<1>1. P!checkInheritanceRules(m) /\ P!checkCaveats(m) /\ P!checkConditionalRelationships(m)
  BY DEF P!validatePolicyModel
<1>2. P!ActionNames(m) # {}
  BY <1>1 DEF P!checkInheritanceRules
<1>3. ~(Cardinality(P!Matching(m, q)) > 1)
  <2>1. CASE P!Matching(m, q) = {}
    BY <2>1, FS_EmptySet
  <2>2. CASE P!Matching(m, q) # {}
    <3>1. PICK n : P!Matching(m, q) = {n}
      BY <1>1, <1>2, <2>2, AtMostOneMatches
    <3>. QED
      BY <3>1, FS_Singleton
  <2>. QED
    BY <2>1, <2>2
<1>4. \A n \in P!Matching(m, q) : m.conditionals[n].caveats \subseteq P!Names(m.caveats)
  BY <1>1 DEF P!checkConditionalRelationships, P!Matching, P!ToSet
<1>5. P!evaluateConditionalRelationshipCaveats(m, q) # "DENY_POLICY_CAVEAT_INVALID"
  <2>. DEFINE tooMany == P!Cardinality(P!Matching(m, q)) > 1
              missing == \E n \in P!Matching(m, q) : ~m.conditionals[n].caveats \subseteq P!Names(m.caveats)
              unmet == \E c \in P!CaveatsOf(m, q) : \E k \in c.conditions : P!evaluateCaveatCondition(k, q) # "pass"
  <2>1. P!evaluateConditionalRelationshipCaveats(m, q) =
          CASE tooMany -> "DENY_POLICY_CAVEAT_INVALID" [] missing -> "DENY_POLICY_CAVEAT_INVALID"
            [] unmet -> "DENY_POLICY_CAVEAT" [] OTHER -> "ALLOW"
    BY DEF P!evaluateConditionalRelationshipCaveats
  <2>2. ~tooMany /\ ~missing
    BY <1>3, <1>4, SameCardinality
  <2>. HIDE DEF tooMany, missing, unmet
  <2>. QED
    BY <2>1, <2>2
<1>6. \A c \in P!CaveatsOf(m, q) : \A k \in c.conditions : P!validateCaveatCondition(m, k)
  BY <1>1 DEF P!CaveatsOf, P!checkCaveats
<1>. QED
  BY <1>5, <1>6, ConditionIsDecided DEF P!ValidCaveatIsDecided

-----------------------------------------------------------------------------
(* Configurations *)

\* A set of natural numbers has a least one.
LEMMA LeastNumber ==
  ASSUME NEW S \in SUBSET Nat, S # {}
  PROVE  \E n \in S : \A p \in S : n <= p
<1>1. PICK n \in S : \A p \in S : ~(<<p, n>> \in OpToRel(<, Nat))
  BY NatLessThanWellFounded, WFMin
<1>2. OpToRel(<, Nat) = {pair \in Nat \X Nat : pair[1] < pair[2]}
  BY DEF OpToRel
<1>3. ASSUME NEW p \in S
      PROVE  n <= p
  <2>1. <<p, n>> \notin {pair \in Nat \X Nat : pair[1] < pair[2]}
    BY <1>1, <1>2, Zenon
  <2>2. n \in Nat /\ p \in Nat /\ ~(p < n)
    BY <2>1
  <2>. QED
    BY <2>2
<1>. QED
  BY <1>3

\* An entry that is not blank has a token: the whole entry, or what follows its colon.
LEMMA KeptEntryHasToken ==
  ASSUME NEW entry \in ApiKeyEntry, ~R!Blank(entry)
  PROVE  R!HasToken(R!parseApiKeyEntry(entry))
<1>1. CASE ~entry.colon \/ entry.before = "" \/ entry.after = ""
  <2>1. R!parseApiKeyEntry(entry).token = entry
    BY <1>1 DEF R!parseApiKeyEntry
  <2>. QED
    BY <2>1 DEF R!HasToken
<1>2. CASE ~(~entry.colon \/ entry.before = "" \/ entry.after = "")
  <2>1. R!parseApiKeyEntry(entry).token = R!Text(entry.after)
    BY <1>2 DEF R!parseApiKeyEntry
  <2>2. R!Text(entry.after).before = entry.after /\ entry.after # ""
    BY <1>2 DEF R!Text
  <2>. QED
    BY <2>1, <2>2 DEF R!HasToken, R!Blank
<1>. QED
  BY <1>1, <1>2

\* Where an entry is kept there is a key: the first entry that is kept has one, whatever
\* the others are (readList, parseApiKeys).
LEMMA KeptEntriesHaveKeys ==
  ASSUME NEW entries \in Seq(ApiKeyEntry), R!readList(entries) # {}
  PROVE  R!parseApiKeys(entries, R!readList(entries)) # {}
<1>. DEFINE kept == R!readList(entries)
            parsed == [n \in kept |-> R!parseApiKeyEntry(entries[n])]
<1>1. \A n \in kept : n \in Nat /\ entries[n] \in ApiKeyEntry /\ ~R!Blank(entries[n])
  BY DEF R!readList
<1>2. PICK n \in kept : \A p \in kept : n <= p
  BY <1>1, LeastNumber
<1>3. R!HasToken(parsed[n])
  BY <1>1, <1>2, KeptEntryHasToken
<1>4. \A p \in kept : p < n => parsed[p].token # parsed[n].token
  BY <1>1, <1>2
<1>5. parsed[n] \in R!parseApiKeys(entries, kept)
  BY <1>2, <1>3, <1>4 DEF R!parseApiKeys
<1>. QED
  BY <1>5

\* A configuration for other hosts is accepted only with an entry, so there is a key, and a
\* request without a token is refused (assertSafeAuthenticationConfig, authenticateRequest).
LEMMA GuardIsThere ==
  ASSUME NEW env \in Environment
  PROVE  R!ExposedApiIsGuarded(env)
<1>. SUFFICES ASSUME R!Accepted(env), ~R!isLoopbackHost(R!readHost(env.host))
              PROVE  ~R!AnonymousIsAuthenticated(R!parseApiKeys(env.keys, R!readList(env.keys)))
  BY DEF R!ExposedApiIsGuarded
<1>1. R!readList(env.keys) # {}
  BY DEF R!Accepted, R!AuthenticationConfigIsSafe
<1>. QED
  BY <1>1, EnvironmentAssumption, KeptEntriesHaveKeys DEF R!AnonymousIsAuthenticated

\* The default of a number passes no check.
LEMMA NoNumberByDefault ==
  ASSUME NEW value, NEW limit, R!Within(R!Or(value, 0), limit)
  PROVE  value # None
BY DEF R!Within, R!Or

\* Neither does the default of a switch.
LEMMA NoSwitchByDefault ==
  ASSUME NEW value, R!Or(value, FALSE)
  PROVE  value # None
BY Zenon DEF R!Or

\* What is absent is none of the texts, sets, switches and numbers that pass the checks.
LEMMA ReadyIsDecided ==
  ASSUME NEW env, NEW app
  PROVE  R!ReadyIsNeverByDefault(env, app)
<1>. DEFINE d == R!readAdminAuthorizationDescriptor(env)
<1>. SUFFICES ASSUME R!Accepted(env), R!buildRuntimeReadiness(env, app) = "ready"
              PROVE  /\ \A v \in R!Decided : env[v] # None
                     /\ env.headers # None \/ env.authority # None
                     /\ env.keys # <<>>
  BY DEF R!ReadyIsNeverByDefault
<1>1. /\ R!parseApiKeys(env.keys, R!readList(env.keys)) # {}
      /\ R!assessAdminAuthorizationReadiness(d)
  BY DEF R!buildRuntimeReadiness
<1>2. /\ R!identityProviderCheck(d) /\ R!gatewayOrMtlsCheck(d) /\ R!adminRebacCheck(d) /\ R!secretsManagerCheck(d)
      /\ R!breakGlassApprovalCheck(d) /\ R!incidentNotificationCheck(d) /\ R!postActionReviewCheck(d)
  BY <1>1 DEF R!assessAdminAuthorizationReadiness
<1>3. R!Or(env.mode, "local_bearer_token") # "local_bearer_token"
  <2>1. ASSUME R!Or(env.mode, "local_bearer_token") = "local_bearer_token"
        PROVE  d.authentication.mode = "local_bearer_token"
    BY <2>1 DEF R!readAdminAuthorizationDescriptor, R!createLocalBearerTokenAdminAuthorizationDescriptor
  <2>. QED
    BY <1>2, <2>1 DEF R!identityProviderCheck
<1>4. env.mode # None
  BY <1>3 DEF R!Or
<1>5. /\ d.authentication.provider = (env.provider # None) /\ d.authentication.issuer = (env.issuer # None)
      /\ d.authentication.mfaRequired = R!Or(env.mfa, FALSE)
      /\ d.authentication.sessionTtlMinutes = R!Or(env.ttl, 0)
      /\ d.authentication.revocationSlaMinutes = R!Or(env.sla, 0)
      /\ d.evidence = (env.evidence # None)
  BY <1>3 DEF R!readAdminAuthorizationDescriptor, R!Given, R!NumberDefault
<1>6. /\ d.ingress.headers = (env.headers # None) /\ d.ingress.authority = (env.authority # None)
      /\ d.adminRebac.policy = (env.policy # None) /\ d.adminRebac.separate = R!Or(env.separate, FALSE)
      /\ d.adminRebac.roles = (env.roles # None) /\ d.adminRebac.bindings = (env.bindings # None)
      /\ d.adminRebac.revocationSlaMinutes = R!Or(env.rebacSla, 0)
  BY <1>3 DEF R!readAdminAuthorizationDescriptor, R!Given, R!NumberDefault
<1>7. /\ d.secrets.manager = R!Or(env.manager, "local_env") /\ d.secrets.secretRefs = (env.secretRefs # None)
      /\ d.secrets.rotationDays = R!Or(env.rotation, 0) /\ d.secrets.noPlaintext = R!Or(env.noPlaintext, FALSE)
  BY <1>3 DEF R!readAdminAuthorizationDescriptor, R!Given, R!NumberDefault
<1>8. /\ d.emergency.approvalRequired = R!Or(env.approval, FALSE) /\ d.emergency.approverRoles = R!Or(env.approvers, {})
      /\ d.emergency.elevationMinutes = R!Or(env.elevation, 0) /\ d.emergency.targets = (env.targets # None)
      /\ d.emergency.review = R!Or(env.review, FALSE) /\ d.audit.events = R!Or(env.events, {})
      /\ d.audit.exportRequired = R!Or(env.export, FALSE)
  BY <1>3 DEF R!readAdminAuthorizationDescriptor, R!Given, R!NumberDefault
<1>. HIDE DEF d
<1>9. /\ env.provider # None /\ env.issuer # None /\ env.mfa # None /\ env.ttl # None /\ env.sla # None
      /\ env.evidence # None
  <2>1. /\ d.authentication.provider /\ d.authentication.issuer /\ d.authentication.mfaRequired /\ d.evidence
        /\ R!Within(d.authentication.sessionTtlMinutes, 480) /\ R!Within(d.authentication.revocationSlaMinutes, 60)
    BY <1>2, Zenon DEF R!identityProviderCheck
  <2>2. env.provider # None /\ env.issuer # None /\ env.evidence # None
    BY <1>5, <2>1, Zenon
  <2>3. env.mfa # None
    BY <1>5, <2>1, NoSwitchByDefault, Zenon
  <2>4. env.ttl # None /\ env.sla # None
    <3>1. d.authentication.sessionTtlMinutes = R!Or(env.ttl, 0) /\ R!Within(d.authentication.sessionTtlMinutes, 480)
      BY <1>5, <2>1, Zenon
    <3>2. d.authentication.revocationSlaMinutes = R!Or(env.sla, 0) /\ R!Within(d.authentication.revocationSlaMinutes, 60)
      BY <1>5, <2>1, Zenon
    <3>. QED
      BY <3>1, <3>2, NoNumberByDefault
  <2>. QED
    BY <2>2, <2>3, <2>4
<1>10. /\ env.policy # None /\ env.separate # None /\ env.roles # None /\ env.bindings # None /\ env.rebacSla # None
       /\ env.headers # None \/ env.authority # None
  BY <1>2, <1>6, NoNumberByDefault, NoSwitchByDefault, Zenon DEF R!adminRebacCheck, R!gatewayOrMtlsCheck
<1>11. env.manager # None /\ env.secretRefs # None /\ env.rotation # None /\ env.noPlaintext # None
  <2>1. env.manager # None
    BY <1>2, <1>7, Zenon DEF R!secretsManagerCheck, R!Or
  <2>. QED
    BY <1>2, <1>7, <2>1, NoNumberByDefault, NoSwitchByDefault, Zenon DEF R!secretsManagerCheck
<1>12. env.approval # None /\ env.elevation # None /\ env.targets # None /\ env.review # None /\ env.export # None
  BY <1>2, <1>8, NoNumberByDefault, NoSwitchByDefault, Zenon
     DEF R!breakGlassApprovalCheck, R!incidentNotificationCheck, R!postActionReviewCheck
<1>13. env.approvers # None /\ env.events # None
  <2>1. R!Cardinality({}) = 0
    BY SameCardinality, FS_EmptySet
  <2>. QED
    BY <1>2, <1>8, <2>1 DEF R!breakGlassApprovalCheck, R!postActionReviewCheck, R!Or
<1>14. env.keys # <<>>
  <2>1. R!parseApiKeys(<<>>, R!readList(<<>>)) = {}
    BY DEF R!parseApiKeys, R!readList
  <2>. QED
    BY <1>1, <2>1
<1>. QED
  BY <1>4, <1>9, <1>10, <1>11, <1>12, <1>13, <1>14 DEF R!Decided

-----------------------------------------------------------------------------
(* Persistence and the pilot *)

\* What a backend needs to pass the checks of a component.
Passes(d, component) ==
  /\ d.durable /\ d.capable
  /\ component = "audit" => d.immutable /\ d.retentionDays # None /\ d.retentionDays >= 365
\* The component has one backend, and it passes.
HasItsBackend(ds, component) ==
  \E n \in DOMAIN ds : R!Described(ds, component) = {n} /\ Passes(ds[n], component)

IsList(ds) == Len(ds) \in Nat /\ DOMAIN ds = 1..Len(ds)

\* The checks of a component are about the first backend described for it, and pass exactly
\* if that one is the only one and passes.
LEMMA ComponentIsReady ==
  ASSUME NEW ds, IsList(ds), NEW component
  PROVE  R!UniqueDescriptor(ds, component) \cup R!ComponentChecks(ds, component) = {}
           <=> HasItsBackend(ds, component)
<1>. DEFINE described == R!Described(ds, component)
<1>1. /\ described \subseteq 1..Len(ds) /\ described \subseteq DOMAIN ds
      /\ IsFiniteSet(described) /\ Cardinality(described) \in Nat
  <2>1. described \subseteq 1..Len(ds) /\ described \subseteq DOMAIN ds /\ Len(ds) \in Nat
    BY DEF IsList, R!Described
  <2>2. IsFiniteSet(1..Len(ds))
    BY <2>1, FS_Interval
  <2>. QED
    BY <2>1, <2>2, FS_Subset, FS_CardinalityType
<1>2. R!UniqueDescriptor(ds, component) = {} <=> ~(Cardinality(described) > 1)
  BY SameCardinality DEF R!UniqueDescriptor
<1>3. ~(Cardinality(described) > 1) <=> described = {} \/ \E n \in described : described = {n}
  <2>1. Cardinality(described) = 0 <=> described = {}
    BY <1>1, FS_EmptySet
  <2>2. Cardinality(described) = 1 <=> \E n : described = {n}
    BY <1>1, FS_Singleton
  <2>3. ~(Cardinality(described) > 1) <=> Cardinality(described) = 0 \/ Cardinality(described) = 1
    BY <1>1
  <2>. QED
    BY <2>1, <2>2, <2>3
<1>4. ASSUME NEW n \in described, described = {n}
      PROVE  R!ComponentChecks(ds, component) = {} <=> Passes(ds[n], component)
  <2>1. R!Min(described) = n
    BY <1>1, <1>4 DEF R!Min
  <2>2. /\ (IF ds[n].durable THEN {} ELSE {<<component, "durable">>}) = {} <=> ds[n].durable
        /\ (IF ds[n].capable THEN {} ELSE {<<component, "capabilities">>}) = {} <=> ds[n].capable
        /\ (IF ds[n].immutable THEN {} ELSE {<<component, "immutable">>}) = {} <=> ds[n].immutable
        /\ (IF ds[n].retentionDays # None /\ ds[n].retentionDays >= 365 THEN {} ELSE {<<component, "retention">>}) = {}
             <=> ds[n].retentionDays # None /\ ds[n].retentionDays >= 365
    OBVIOUS
  <2>. QED
    BY <1>4, <2>1, <2>2 DEF R!ComponentChecks, Passes
<1>5. described = {} => R!ComponentChecks(ds, component) # {}
  BY DEF R!ComponentChecks
<1>6. CASE \E n \in described : described = {n}
  BY <1>1, <1>2, <1>3, <1>4, <1>6 DEF HasItsBackend
<1>7. CASE ~\E n \in described : described = {n}
  BY <1>1, <1>2, <1>3, <1>5, <1>7 DEF HasItsBackend
<1>. QED
  BY <1>6, <1>7

\* Readiness is that every component has its backend (assessPersistenceReadiness).
LEMMA ReadyHasItsBackends ==
  ASSUME NEW ds, IsList(ds)
  PROVE  R!assessPersistenceReadiness(ds) = {} <=> \A c \in R!Components : HasItsBackend(ds, c)
<1>1. R!assessPersistenceReadiness(ds) = {}
        <=> \A c \in R!Components : R!UniqueDescriptor(ds, c) \cup R!ComponentChecks(ds, c) = {}
  BY DEF R!assessPersistenceReadiness
<1>. QED
  BY <1>1, ComponentIsReady

\* Turning the list around leaves each component its backend.
LEMMA ReverseKeepsBackends ==
  ASSUME NEW ds, IsList(ds), NEW component, HasItsBackend(ds, component)
  PROVE  IsList(R!Reverse(ds)) /\ HasItsBackend(R!Reverse(ds), component)
<1>. DEFINE rs == R!Reverse(ds)
<1>1. /\ IsList(rs) /\ Len(rs) = Len(ds) /\ Len(ds) \in Nat /\ DOMAIN ds = 1..Len(ds)
      /\ \A n \in 1..Len(ds) : rs[n] = ds[(Len(ds) - n) + 1]
  BY DEF IsList, R!Reverse
<1>2. PICK n \in 1..Len(ds) : R!Described(ds, component) = {n} /\ Passes(ds[n], component)
  BY <1>1 DEF HasItsBackend
<1>. HIDE DEF rs
<1>3. \A p \in 1..Len(ds) : p \in R!Described(rs, component) <=> (Len(ds) - p) + 1 \in R!Described(ds, component)
  BY <1>1 DEF R!Described, IsList
<1>4. R!Described(rs, component) \subseteq 1..Len(ds)
  BY <1>1 DEF R!Described, IsList
<1>5. /\ (Len(ds) - n) + 1 \in 1..Len(ds) /\ rs[(Len(ds) - n) + 1] = ds[n]
      /\ R!Described(rs, component) = {(Len(ds) - n) + 1}
  <2>1. (Len(ds) - n) + 1 \in 1..Len(ds) /\ (Len(ds) - ((Len(ds) - n) + 1)) + 1 = n
    BY <1>1
  <2>2. \A p \in 1..Len(ds) : (Len(ds) - p) + 1 = n <=> p = (Len(ds) - n) + 1
    BY <1>1
  <2>. QED
    BY <1>1, <1>2, <1>3, <1>4, <2>1, <2>2
<1>. QED
  BY <1>1, <1>2, <1>5 DEF HasItsBackend, rs, IsList

\* The verdict is about every backend of a component and not about the order of the list.
LEMMA OrderDoesNotMatter ==
  ASSUME NEW ds \in Description
  PROVE  R!VerdictIgnoresOrder(ds)
<1>1. IsList(ds)
  BY DescriptionAssumption DEF IsList
<1>2. IsList(R!Reverse(ds)) /\ R!Reverse(R!Reverse(ds)) = ds
  <2>1. /\ IsList(R!Reverse(ds)) /\ Len(R!Reverse(ds)) = Len(ds)
        /\ \A n \in 1..Len(ds) : R!Reverse(ds)[n] = ds[(Len(ds) - n) + 1]
    BY <1>1 DEF IsList, R!Reverse
  <2>2. R!Reverse(R!Reverse(ds)) = [n \in 1..Len(ds) |-> ds[n]]
    BY <1>1, <2>1 DEF IsList, R!Reverse
  <2>3. ds = [n \in 1..Len(ds) |-> ds[n]]
    <3>1. ds \in [1..Len(ds) -> {ds[n] : n \in DOMAIN ds}]
      BY DescriptionAssumption, LenProperties
    <3>. QED
      BY <3>1
  <2>. QED
    BY <2>1, <2>2, <2>3
<1>3. R!assessPersistenceReadiness(ds) = {} <=> R!assessPersistenceReadiness(R!Reverse(ds)) = {}
  BY <1>1, <1>2, ReadyHasItsBackends, ReverseKeepsBackends
<1>4. ASSUME R!assessPersistenceReadiness(ds) = {}, NEW d \in R!ToSet(ds), d.component \in R!Components
      PROVE  d.durable /\ d.capable
  <2>1. PICK n \in DOMAIN ds : R!Described(ds, d.component) = {n} /\ Passes(ds[n], d.component)
    BY <1>1, <1>4, ReadyHasItsBackends DEF HasItsBackend
  <2>2. d = ds[n]
    BY <2>1 DEF R!ToSet, R!Described
  <2>. QED
    BY <2>1, <2>2, Zenon DEF Passes
<1>. QED
  BY <1>3, <1>4 DEF R!VerdictIgnoresOrder

\* One write scope, and at least two different roles (checkNarrowWritePath,
\* checkApprovalWorkflow).
LEMMA NarrowPilot ==
  ASSUME NEW p \in Pilot
  PROVE  R!PilotIsNarrow(p)
<1>. SUFFICES ASSUME R!assessLiveEnforcementPilotReadiness(p)
              PROVE  Len(p.scopes) = 1 /\ Cardinality(R!ToSet(p.roles)) >= 2
  BY SameCardinality DEF R!PilotIsNarrow
<1>1. R!checkNarrowWritePath(p) /\ R!checkApprovalWorkflow(p)
  BY DEF R!assessLiveEnforcementPilotReadiness
<1>2. /\ p.scopes \in Seq(STRING) /\ p.scopes # <<>> /\ R!Distinct(p.scopes)
      /\ R!ToSet(p.scopes) \subseteq {"GroupMember.ReadWrite.All"}
  BY <1>1, PilotAssumption DEF R!checkNarrowWritePath, R!approvedLiveEnforcementPilotWriteScopes
<1>3. R!ToSet(p.scopes) = {"GroupMember.ReadWrite.All"}
  <2>1. Len(p.scopes) \in Nat /\ Len(p.scopes) # 0 /\ DOMAIN p.scopes = 1..Len(p.scopes)
    BY <1>2, EmptySeq
  <2>2. 1 \in DOMAIN p.scopes
    BY <2>1
  <2>. QED
    BY <1>2, <2>2 DEF R!ToSet
<1>4. Len(p.scopes) = 1
  BY <1>2, <1>3, SameCardinality, FS_Singleton DEF R!Distinct
<1>5. Cardinality(R!ToSet(p.roles)) = Len(p.roles) /\ Len(p.roles) \in Nat
      /\ Len(p.roles) >= p.minApprovers /\ p.minApprovers >= 2 /\ p.minApprovers \in Nat
  BY <1>1, PilotAssumption, SameCardinality DEF R!checkApprovalWorkflow, R!Distinct
<1>. QED
  BY <1>4, <1>5

-----------------------------------------------------------------------------
(* The snapshot of a tenant *)

\* What has a resource: applications, the containers of groups, and what has permissions.
LEMMA TenantResources ==
  ASSUME NEW p
  PROVE  /\ \A sp \in G!Known(p.sps) : G!applicationResource(sp) \in G!Resources(p)
         /\ \A g \in G!Known(p.groups) : G!Containers(p, g) \subseteq G!Resources(p)
         /\ G!GrantTargets(p) \subseteq G!Resources(p)
BY DEF G!Resources

\* An item that is read below a folder is read one level below it (#addDriveItems).
LEMMA ItemsBelow ==
  ASSUME NEW p, NEW n \in Nat
  PROVE  /\ \A i \in G!Children(p, {G!driveResource(d) : d \in G!Drives(p)}) : i \in G!ItemsAt(p, 0)
         /\ \A j \in G!Supported(G!ItemsAt(p, n)) :
              G!isDriveItemContainer(j) => G!Children(p, {G!driveItemResource(j.id)}) \subseteq G!ItemsAt(p, n + 1)
<1>1. ASSUME NEW i \in G!Children(p, {G!driveResource(d) : d \in G!Drives(p)})
      PROVE  i \in G!ItemsAt(p, 0)
  <2>. DEFINE chain == [k \in 0..0 |-> i]
  <2>1. chain \in [0..0 -> p.items] /\ chain[0] = i
    BY <1>1 DEF G!Children
  <2>2. G!IsChain(p, chain, 0)
    BY <1>1, <2>1 DEF G!IsChain
  <2>. QED
    BY <2>1, <2>2 DEF G!ItemsAt
<1>2. ASSUME NEW j \in G!Supported(G!ItemsAt(p, n)), G!isDriveItemContainer(j),
             NEW i \in G!Children(p, {G!driveItemResource(j.id)})
      PROVE  i \in G!ItemsAt(p, n + 1)
  <2>1. PICK chain \in [0..n -> p.items] : G!IsChain(p, chain, n) /\ chain[n] = j
    BY <1>2 DEF G!Supported, G!ItemsAt
  <2>. DEFINE longer == [k \in 0..n + 1 |-> IF k = n + 1 THEN i ELSE chain[k]]
  <2>2. /\ longer \in [0..n + 1 -> p.items] /\ longer[n + 1] = i
        /\ \A k \in 0..n : longer[k] = chain[k]
    BY <1>2, <2>1 DEF G!Children
  <2>. HIDE DEF longer
  <2>3. longer[0] \in G!Children(p, {G!driveResource(d) : d \in G!Drives(p)})
    BY <2>1, <2>2 DEF G!IsChain
  <2>4. ASSUME NEW k \in 1..n + 1
        PROVE  /\ longer[k - 1] \in G!Supported(p.items) /\ G!isDriveItemContainer(longer[k - 1])
               /\ longer[k] \in G!Children(p, {G!driveItemResource(longer[k - 1].id)})
    <3>1. CASE k = n + 1
      <4>1. k - 1 = n /\ longer[k - 1] = j /\ longer[k] = i
        BY <2>1, <2>2, <3>1
      <4>2. j \in p.items
        BY <2>1
      <4>. QED
        BY <1>2, <4>1, <4>2 DEF G!Supported
    <3>2. CASE k # n + 1
      <4>1. k \in 1..n /\ longer[k - 1] = chain[k - 1] /\ longer[k] = chain[k]
        BY <2>2, <3>2
      <4>. QED
        BY <2>1, <4>1 DEF G!IsChain
    <3>. QED
      BY <3>1, <3>2
  <2>5. G!IsChain(p, longer, n + 1)
    BY <2>3, <2>4 DEF G!IsChain
  <2>. QED
    BY <2>2, <2>5 DEF G!ItemsAt, G!Children
<1>. QED
  BY <1>1, <1>2

\* The parent of an item that is read is a drive, or a folder that is read above it.
LEMMA ParentIsRead ==
  ASSUME NEW p, NEW n \in Nat, NEW i \in G!ItemsAt(p, n)
  PROVE  \/ \E d \in G!Drives(p) : i.parent = G!driveResource(d)
         \/ n > 0 /\ \E j \in G!Supported(G!ItemsAt(p, n - 1)) : i.parent = G!driveItemResource(j.id)
<1>1. PICK chain \in [0..n -> p.items] : G!IsChain(p, chain, n) /\ chain[n] = i
  BY DEF G!ItemsAt
<1>2. CASE n = 0
  BY <1>1, <1>2 DEF G!IsChain, G!Children
<1>3. CASE n > 0
  <2>. DEFINE shorter == [k \in 0..n - 1 |-> chain[k]]
  <2>1. shorter \in [0..n - 1 -> p.items] /\ \A k \in 0..n - 1 : shorter[k] = chain[k]
    BY <1>1, <1>3
  <2>. HIDE DEF shorter
  <2>2. G!IsChain(p, shorter, n - 1)
    <3>1. shorter[0] = chain[0]
      BY <1>3, <2>1
    <3>2. \A k \in 1..n - 1 : k \in 1..n /\ shorter[k - 1] = chain[k - 1] /\ shorter[k] = chain[k]
      BY <1>3, <2>1
    <3>. QED
      BY <1>1, <3>1, <3>2 DEF G!IsChain
  <2>3. /\ chain[n - 1] \in G!Supported(p.items) /\ shorter[n - 1] = chain[n - 1]
        /\ i \in G!Children(p, {G!driveItemResource(chain[n - 1].id)})
    <3>1. n \in 1..n /\ n - 1 \in 0..n - 1
      BY <1>3
    <3>. QED
      BY <1>1, <2>1, <3>1 DEF G!IsChain
  <2>4. chain[n - 1] \in G!Supported(G!ItemsAt(p, n - 1))
    BY <2>1, <2>2, <2>3 DEF G!ItemsAt, G!Supported
  <2>. QED
    BY <1>3, <2>3, <2>4 DEF G!Children
<1>. QED
  BY <1>2, <1>3

\* Both ends of a relationship of a group are imported (#buildRelationships).
LEMMA GroupRelationshipsHold ==
  ASSUME NEW p, NEW g \in G!Known(p.groups), NEW r \in G!GroupRelationships(p, g)
  PROVE  {r[1], r[3]} \subseteq G!Subjects(p) \cup G!Resources(p)
<1>1. /\ G!Imported(p, p.members[g]) \subseteq G!Subjects(p) /\ G!Imported(p, p.owners[g]) \subseteq G!Subjects(p)
      /\ g \in G!Subjects(p)
  BY DEF G!Imported, G!Subjects, G!Known
<1>2. G!Containers(p, g) \subseteq G!Resources(p)
  BY TenantResources
<1>3. G!teamResource(g) \in G!Containers(p, g) => G!m365GroupResource(g) \in G!Containers(p, g)
  BY DEF G!Containers
<1>. QED
  BY <1>1, <1>2, <1>3 DEF G!GroupRelationships, G!OwnerRelationships, G!relationship

\* Every grant is of an imported subject and on an imported resource (#buildNativeGrants,
\* #addPermissionNativeGrants).
LEMMA GrantsHold ==
  ASSUME NEW p, NEW grant \in G!Grants(p)
  PROVE  grant.subject \in G!Subjects(p) /\ grant.resource \in G!Resources(p)
<1>1. ASSUME NEW listed, NEW id \in G!Imported(p, listed)
      PROVE  id \in G!Subjects(p)
  BY <1>1 DEF G!Imported
<1>2. ASSUME NEW id, NEW resource, NEW permission
      PROVE  /\ G!nativeGrant(p, id, resource, permission).subject = id
             /\ G!nativeGrant(p, id, resource, permission).resource = resource
  BY DEF G!nativeGrant
<1>3. CASE grant \in G!buildNativeGrants(p)
  <2>1. PICK sp \in G!Known(p.sps) : \E id \in G!Imported(p, p.assignments[sp]) :
               grant = G!nativeGrant(p, id, G!applicationResource(sp), "appRole")
    BY <1>3 DEF G!buildNativeGrants
  <2>. QED
    BY <1>1, <1>2, <2>1, TenantResources
<1>4. CASE grant \in G!SharePointAndOneDriveGrants(p)
  <2>1. PICK perm \in p.permissions : perm.target \in G!GrantTargets(p) /\ grant \in G!PermissionGrants(p, perm)
    BY <1>4 DEF G!SharePointAndOneDriveGrants, G!TargetPermissions
  <2>2. grant.subject \in G!Subjects(p) /\ grant.resource = perm.target
    <3>1. PICK who \in G!Linkable(perm), role \in perm.roles :
            /\ who.id \in G!Subjects(p)
            /\ grant = [G!nativeGrant(p, who.id, perm.target, role) EXCEPT
                          !.type = IF perm.inherited THEN "inherited" ELSE @]
      BY <2>1 DEF G!PermissionGrants
    <3>. QED
      BY <3>1 DEF G!nativeGrant
  <2>. QED
    BY <2>1, <2>2, TenantResources
<1>5. CASE grant \in UNION {G!GroupGrants(p, g) : g \in G!Known(p.groups)}
  <2>1. PICK g \in G!Known(p.groups) : grant \in G!GroupGrants(p, g)
    BY <1>5
  <2>2. \E listed : \E id \in G!Imported(p, listed), resource \in G!Containers(p, g), permission \in {"member", "owner"} :
          grant = G!nativeGrant(p, id, resource, permission)
    BY <2>1 DEF G!GroupGrants, G!OwnerGrants
  <2>. QED
    BY <1>1, <1>2, <2>2, TenantResources
<1>. QED
  BY <1>3, <1>4, <1>5 DEF G!Grants

\* No fact of a tenant's snapshot dangles (#loadSnapshot).
LEMMA TenantDoesNotDangle ==
  ASSUME NEW p
  PROVE  G!NothingDangles(p)
<1>1. ASSUME NEW r \in G!buildRelationships(p)
      PROVE  {r[1], r[3]} \subseteq G!Subjects(p) \cup G!Resources(p)
  <2>1. CASE \E g \in G!Known(p.groups) : r \in G!GroupRelationships(p, g)
    BY <2>1, GroupRelationshipsHold
  <2>2. CASE \E sp \in G!Known(p.sps) : r = G!relationship(sp, "represents", G!applicationResource(sp))
    <3>1. PICK sp \in G!Known(p.sps) : r = G!relationship(sp, "represents", G!applicationResource(sp))
      BY <2>2
    <3>2. sp \in G!Subjects(p) /\ G!applicationResource(sp) \in G!Resources(p)
      BY TenantResources DEF G!Subjects, G!Known
    <3>. QED
      BY <3>1, <3>2 DEF G!relationship
  <2>. QED
    BY <1>1, <2>1, <2>2 DEF G!buildRelationships
<1>2. ASSUME NEW r \in G!Parents(p)
      PROVE  r \in G!Resources(p)
  <2>1. CASE \E d \in G!Drives(p) : r \in G!DriveParents(p, d)
    BY <2>1, TenantResources DEF G!DriveParents, G!GrantTargets
  <2>2. CASE \E i \in G!Supported(G!ItemsRead(p)) : r = i.parent
    <3>1. PICK n \in G!Levels : \E i \in G!ItemsAt(p, n) : r = i.parent
      BY <2>2 DEF G!Supported, G!ItemsRead
    <3>2. n \in Nat /\ (n > 0 => n - 1 \in G!Levels)
      BY DepthAssumption DEF G!Levels
    <3>3. \/ \E d \in G!Drives(p) : r = G!driveResource(d)
          \/ n > 0 /\ \E j \in G!Supported(G!ItemsAt(p, n - 1)) : r = G!driveItemResource(j.id)
      BY <3>1, <3>2, ParentIsRead
    <3>4. n > 0 => G!Supported(G!ItemsAt(p, n - 1)) \subseteq G!Supported(G!ItemsRead(p))
      BY <3>2 DEF G!Supported, G!ItemsRead
    <3>5. r \in G!GrantTargets(p)
      BY <3>3, <3>4 DEF G!GrantTargets
    <3>. QED
      BY <3>5, TenantResources
  <2>3. CASE \E g \in G!Known(p.groups) : G!teamResource(g) \in G!Containers(p, g) /\ r = G!m365GroupResource(g)
    BY <2>3, TenantResources DEF G!Containers
  <2>. QED
    BY <1>2, <2>1, <2>2, <2>3 DEF G!Parents
<1>. QED
  BY <1>1, <1>2, GrantsHold DEF G!NothingDangles

\* Every part of the connector adds its warnings to the snapshot's.
LEMMA WarningsAreKept ==
  ASSUME NEW p
  PROVE  /\ G!ItemWarnings(p) \subseteq G!Warnings(p) /\ G!DriveWarnings(p) \subseteq G!Warnings(p)
         /\ \A sp \in G!Known(p.sps) :
              G!SkipWarnings(p, p.assignments[sp], "APP_ROLE_PRINCIPAL_SKIPPED", "native_grants", None) \subseteq G!Warnings(p)
         /\ \A g \in G!Known(p.groups) :
              G!SkipWarnings(p, p.members[g], "LIMITED_MEMBER_SKIPPED", "relationships", None) \subseteq G!Warnings(p)
         /\ \A g \in G!Known(p.groups) :
              G!isM365Group(p, g) =>
                G!SkipWarnings(p, p.owners[g], "LIMITED_OWNER_SKIPPED", "relationships", None) \subseteq G!Warnings(p)
         /\ \A perm \in G!TargetPermissions(p) : G!PermissionWarnings(p, perm) \subseteq G!Warnings(p)
<1>1. G!ItemWarnings(p) \subseteq G!Warnings(p) /\ G!DriveWarnings(p) \subseteq G!Warnings(p)
  BY DEF G!Warnings
<1>2. ASSUME NEW sp \in G!Known(p.sps)
      PROVE  G!SkipWarnings(p, p.assignments[sp], "APP_ROLE_PRINCIPAL_SKIPPED", "native_grants", None) \subseteq G!Warnings(p)
  BY DEF G!Warnings, G!AssignmentWarnings
<1>3. ASSUME NEW g \in G!Known(p.groups)
      PROVE  G!GroupWarnings(p, g) \subseteq G!Warnings(p)
  BY DEF G!Warnings
<1>4. ASSUME NEW g \in G!Known(p.groups)
      PROVE  G!SkipWarnings(p, p.members[g], "LIMITED_MEMBER_SKIPPED", "relationships", None) \subseteq G!GroupWarnings(p, g)
  BY DEF G!GroupWarnings
<1>5. ASSUME NEW g \in G!Known(p.groups), G!isM365Group(p, g)
      PROVE  G!SkipWarnings(p, p.owners[g], "LIMITED_OWNER_SKIPPED", "relationships", None) \subseteq G!GroupWarnings(p, g)
  BY <1>5 DEF G!GroupWarnings, G!OwnerWarnings
<1>6. ASSUME NEW perm \in G!TargetPermissions(p)
      PROVE  G!PermissionWarnings(p, perm) \subseteq G!Warnings(p)
  BY DEF G!Warnings, G!TargetWarnings
<1>. QED
  BY <1>1, <1>2, <1>3, <1>4, <1>5, <1>6

\* One that is listed and not imported is skipped with a warning of that list.
LEMMA SkipIsWarned ==
  ASSUME NEW p, NEW listed, NEW id \in listed, id \notin G!Subjects(p), NEW code, NEW scope, NEW resource,
         G!SkipWarnings(p, listed, code, scope, resource) \subseteq G!Warnings(p)
  PROVE  G!SkipIsTold(p, id, code, scope, resource)
<1>1. CASE id = None
  <2>1. <<"OBJECT_MISSING_ID_SKIPPED", scope, None>> \in G!SkipWarnings(p, listed, code, scope, resource)
    BY <1>1 DEF G!SkipWarnings, G!warnMissingId, G!Warn
  <2>. QED
    BY <1>1, <2>1 DEF G!SkipIsTold
<1>2. CASE id # None
  <2>1. <<code, scope, resource>> \in G!SkipWarnings(p, listed, code, scope, resource)
    BY <1>2 DEF G!SkipWarnings, G!Warn, G!Known
  <2>. QED
    BY <1>2, <2>1 DEF G!SkipIsTold
<1>. QED
  BY <1>1, <1>2

\* A principal of an assignment has a grant on the application (#buildNativeGrants).
LEMMA AssignmentsAreKept ==
  ASSUME NEW p, NEW sp \in G!Known(p.sps)
  PROVE  G!AssignmentsAreTold(p, sp)
<1>. SUFFICES ASSUME NEW id \in p.assignments[sp]
              PROVE  \/ G!IsGranted(p, id, G!applicationResource(sp), "appRole")
                     \/ G!SkipIsTold(p, id, "APP_ROLE_PRINCIPAL_SKIPPED", "native_grants", None)
  BY DEF G!AssignmentsAreTold
<1>1. CASE id \notin G!Subjects(p)
  BY <1>1, WarningsAreKept, SkipIsWarned
<1>2. CASE id \in G!Subjects(p)
  <2>. DEFINE grant == G!nativeGrant(p, id, G!applicationResource(sp), "appRole")
  <2>1. grant \in G!Grants(p)
    BY <1>2 DEF G!Grants, G!buildNativeGrants, G!Imported
  <2>2. grant.subject = id /\ grant.resource = G!applicationResource(sp) /\ grant.permission = "appRole"
    BY DEF G!nativeGrant
  <2>. QED
    BY <2>1, <2>2 DEF G!IsGranted
<1>. QED
  BY <1>1, <1>2

\* A member or an owner that is imported belongs to, or owns, what the group stands for
\* (#buildRelationships, #addM365Owners).
LEMMA GroupIsKept ==
  ASSUME NEW p, NEW g \in G!Known(p.groups), NEW id \in G!Subjects(p), NEW r \in G!Containers(p, g)
  PROVE  /\ id \in p.members[g] => <<id, "member", r>> \in G!buildRelationships(p) /\ G!IsGranted(p, id, r, "member")
         /\ id \in p.owners[g] => <<id, "owner", r>> \in G!buildRelationships(p) /\ G!IsGranted(p, id, r, "owner")
<1>1. ASSUME NEW permission
      PROVE  LET grant == G!nativeGrant(p, id, r, permission)
             IN  grant.subject = id /\ grant.resource = r /\ grant.permission = permission
  BY DEF G!nativeGrant
<1>2. G!GroupGrants(p, g) \subseteq G!Grants(p)
  BY DEF G!Grants
<1>3. G!GroupRelationships(p, g) \subseteq G!buildRelationships(p)
  BY DEF G!buildRelationships
<1>4. ASSUME id \in p.members[g]
      PROVE  <<id, "member", r>> \in G!GroupRelationships(p, g) /\ G!nativeGrant(p, id, r, "member") \in G!GroupGrants(p, g)
  BY <1>4 DEF G!GroupRelationships, G!GroupGrants, G!Imported, G!relationship
<1>5. ASSUME id \in p.owners[g]
      PROVE  <<id, "owner", r>> \in G!GroupRelationships(p, g) /\ G!nativeGrant(p, id, r, "owner") \in G!GroupGrants(p, g)
  BY <1>5 DEF G!GroupRelationships, G!GroupGrants, G!OwnerRelationships, G!OwnerGrants, G!Imported, G!relationship
<1>. QED
  BY <1>1, <1>2, <1>3, <1>4, <1>5 DEF G!IsGranted

LEMMA MembersAreKept ==
  ASSUME NEW p, NEW g \in G!Known(p.groups)
  PROVE  G!MembersAreTold(p, g)
<1>. SUFFICES ASSUME NEW id \in p.members[g], id \in G!Subjects(p)
              PROVE  <<id, "member_of", g>> \in G!buildRelationships(p)
  BY GroupIsKept, WarningsAreKept, SkipIsWarned DEF G!MembersAreTold
<1>1. <<id, "member_of", g>> \in G!GroupRelationships(p, g)
  BY DEF G!GroupRelationships, G!Imported, G!relationship
<1>. QED
  BY <1>1 DEF G!buildRelationships

LEMMA OwnersAreKept ==
  ASSUME NEW p, NEW g \in G!Known(p.groups), G!isM365Group(p, g)
  PROVE  G!OwnersAreTold(p, g)
<1>1. {G!m365GroupResource(g)} \cup G!Containers(p, g) = G!Containers(p, g)
  BY DEF G!Containers
<1>. QED
  BY <1>1, GroupIsKept, WarningsAreKept, SkipIsWarned DEF G!OwnersAreTold

\* A drive of a site, or of a user who is not deleted, has a resource (#addSiteDrives,
\* #addUserDrives).
LEMMA DrivesAreKept ==
  ASSUME NEW p, NEW drives, drives \subseteq G!SiteDrives(p) \cup G!UserDrives(p)
  PROVE  G!DrivesAreTold(p, drives)
<1>1. ASSUME None \in drives
      PROVE  <<"OBJECT_MISSING_ID_SKIPPED", "resources", None>> \in G!Warnings(p)
  <2>1. None \in p.sites \cup G!SiteDrives(p) \cup G!UserDrives(p)
    BY <1>1
  <2>2. <<"OBJECT_MISSING_ID_SKIPPED", "resources", None>> \in G!DriveWarnings(p)
    BY <2>1 DEF G!DriveWarnings, G!warnMissingId, G!Warn
  <2>. QED
    BY <2>2, WarningsAreKept
<1>2. ASSUME NEW d \in drives, d # None
      PROVE  G!driveResource(d) \in G!Resources(p)
  <2>1. d \in G!Drives(p)
    BY <1>2 DEF G!Drives, G!Known
  <2>. QED
    BY <2>1, TenantResources DEF G!GrantTargets
<1>. QED
  BY <1>1, <1>2 DEF G!DrivesAreTold

\* What has the tag of a site, a drive or an item is one that has permissions.
LEMMA TargetsHavePermissions ==
  ASSUME NEW p, NEW r \in G!Resources(p), r[1] \in {"site", "drive", "item"}
  PROVE  r \in G!GrantTargets(p)
<1>1. \A sp : G!applicationResource(sp)[1] = "application"
  BY DEF G!applicationResource
<1>2. \A g : \A c \in G!Containers(p, g) : c[1] \in {"m365_group", "team"}
  BY DEF G!Containers, G!m365GroupResource, G!teamResource
<1>. QED
  BY <1>1, <1>2 DEF G!Resources

\* The grant of a permission to a principal, for a role.
PermissionGrant(p, perm, who, role) ==
  [G!nativeGrant(p, who.id, perm.target, role) EXCEPT !.type = IF perm.inherited THEN "inherited" ELSE @]

\* What becomes of a permission that is read: a grant for every principal it looks at and
\* role, or a warning about its target (#addPermissionNativeGrants).
LEMMA PermissionIsNotLost ==
  ASSUME NEW p, NEW perm \in G!TargetPermissions(p)
  PROVE  G!PermissionIsTold(p, perm, G!permissionIdentities(perm))
<1>. DEFINE told(code) == <<code, "native_grants", perm.target>> \in G!Warnings(p)
            identities == G!permissionIdentities(perm)
<1>1. G!PermissionWarnings(p, perm) \subseteq G!Warnings(p)
  BY WarningsAreKept
<1>2. CASE perm.id = None
  <2>1. <<"OBJECT_MISSING_ID_SKIPPED", "native_grants", None>> \in G!PermissionWarnings(p, perm)
    BY <1>2 DEF G!PermissionWarnings, G!warnMissingId, G!Warn
  <2>. QED
    BY <1>1, <1>2, <2>1 DEF G!PermissionIsTold
<1>3. CASE perm.id # None /\ perm.roles = {}
  <2>1. <<"NATIVE_GRANT_ROLE_UNSUPPORTED", "native_grants", perm.target>> \in G!PermissionWarnings(p, perm)
    BY <1>3 DEF G!PermissionWarnings, G!Warn
  <2>. QED
    BY <1>1, <1>3, <2>1 DEF G!PermissionIsTold
<1>4. CASE perm.id # None /\ perm.roles # {}
  <2>. DEFINE skipped == G!SkipWarnings(p, {who.id : who \in G!Linkable(perm)}, "NATIVE_GRANT_PRINCIPAL_SKIPPED",
                                        "native_grants", perm.target)
  <2>1. /\ G!Warn(perm.link, "NATIVE_GRANT_LINK_SEMANTICS_UNSUPPORTED", "native_grants", perm.target) \subseteq G!Warnings(p)
        /\ G!Warn(identities = {}, "NATIVE_GRANT_PRINCIPAL_UNSUPPORTED", "native_grants", perm.target) \subseteq G!Warnings(p)
        /\ G!Warn(\E who \in identities : who.kind = "siteUser", "NATIVE_GRANT_SITE_USER_UNSUPPORTED", "native_grants",
                  perm.target) \subseteq G!Warnings(p)
        /\ skipped \subseteq G!Warnings(p)
    BY <1>1, <1>4 DEF G!PermissionWarnings
  <2>2. /\ perm.link => told("NATIVE_GRANT_LINK_SEMANTICS_UNSUPPORTED")
        /\ identities = {} => told("NATIVE_GRANT_PRINCIPAL_UNSUPPORTED")
        /\ (\E who \in identities : who.kind = "siteUser") => told("NATIVE_GRANT_SITE_USER_UNSUPPORTED")
    BY <2>1 DEF G!Warn
  <2>3. ASSUME NEW who \in identities, who.kind # "siteUser", who.id \notin G!Subjects(p)
        PROVE  G!SkipIsTold(p, who.id, "NATIVE_GRANT_PRINCIPAL_SKIPPED", "native_grants", perm.target)
    <3>1. who.id \in {y.id : y \in G!Linkable(perm)}
      BY <2>3 DEF G!Linkable
    <3>. QED
      BY <2>1, <2>3, <3>1, SkipIsWarned
  <2>4. ASSUME NEW who \in identities, who.kind # "siteUser", who.id \in G!Subjects(p), NEW role \in perm.roles
        PROVE  G!IsGranted(p, who.id, perm.target, role)
    <3>. DEFINE grant == PermissionGrant(p, perm, who, role)
    <3>1. grant \in G!PermissionGrants(p, perm)
      <4>1. G!PermissionGrants(p, perm) =
              {PermissionGrant(p, perm, w, r) : w \in {w \in G!Linkable(perm) : w.id \in G!Subjects(p)}, r \in perm.roles}
        BY <1>4 DEF G!PermissionGrants, PermissionGrant
      <4>2. who \in {w \in G!Linkable(perm) : w.id \in G!Subjects(p)}
        BY <2>4 DEF G!Linkable
      <4>. QED
        BY <2>4, <4>1, <4>2
    <3>2. grant \in G!Grants(p)
      BY <3>1 DEF G!Grants, G!SharePointAndOneDriveGrants
    <3>3. grant.subject = who.id /\ grant.resource = perm.target /\ grant.permission = role
      BY DEF G!nativeGrant, PermissionGrant
    <3>. QED
      BY <3>2, <3>3 DEF G!IsGranted
  <2>5. \A who \in identities :
          \/ \A role \in perm.roles : G!IsGranted(p, who.id, perm.target, role)
          \/ who.kind = "siteUser" /\ told("NATIVE_GRANT_SITE_USER_UNSUPPORTED")
          \/ G!SkipIsTold(p, who.id, "NATIVE_GRANT_PRINCIPAL_SKIPPED", "native_grants", perm.target)
    BY <2>2, <2>3, <2>4
  <2>. QED
    BY <2>2, <2>5 DEF G!PermissionIsTold
<1>. QED
  BY <1>2, <1>3, <1>4

\* What becomes of an item below a drive or a folder of the snapshot: a resource, or a
\* warning about its identifier, its facet or the depth of its folder (#addDriveItems).
LEMMA ItemIsNotLost ==
  ASSUME NEW p \in Tenant, NEW i \in p.items, i.parent \in G!Resources(p)
  PROVE  G!ItemIsTold(p, i)
<1>1. ASSUME i \in G!ItemsRead(p)
      PROVE  G!ItemIsTold(p, i)
  <2>1. CASE i.id = None
    <3>1. <<"OBJECT_MISSING_ID_SKIPPED", "resources", None>> \in G!ItemWarnings(p)
      BY <1>1, <2>1 DEF G!ItemWarnings, G!warnMissingId, G!Warn
    <3>. QED
      BY <2>1, <3>1, WarningsAreKept DEF G!ItemIsTold
  <2>2. CASE i.id # None /\ G!driveItemResourceType(i) = None
    <3>1. <<"DRIVE_ITEM_UNSUPPORTED_FACET_SKIPPED", "resources", i.parent>> \in G!ItemWarnings(p)
      BY <1>1, <2>2 DEF G!ItemWarnings, G!Unsupported
    <3>. QED
      BY <2>2, <3>1, WarningsAreKept DEF G!ItemIsTold
  <2>3. CASE i.id # None /\ G!driveItemResourceType(i) # None
    <3>1. G!driveItemResource(i.id) \in G!GrantTargets(p)
      BY <1>1, <2>3 DEF G!Supported, G!GrantTargets
    <3>. QED
      BY <3>1, TenantResources DEF G!ItemIsTold
  <2>. QED
    BY <2>1, <2>2, <2>3
<1>2. CASE i.parent[1] = "drive" /\ i.parent = G!driveResource(i.parent[2])
  <2>1. i.parent \in G!GrantTargets(p)
    BY <1>2, TargetsHavePermissions
  <2>2. PICK d \in G!Drives(p) : i.parent = G!driveResource(d)
    BY <1>2, <2>1 DEF G!GrantTargets, G!driveResource, G!sharePointSiteResource, G!driveItemResource
  <2>3. i \in G!ItemsAt(p, 0)
    BY <2>2, ItemsBelow DEF G!Children
  <2>4. 0 \in G!Levels
    BY DepthAssumption DEF G!Levels
  <2>. QED
    BY <1>1, <2>3, <2>4 DEF G!ItemsRead
<1>3. ASSUME NEW j \in p.items, j.id # None, G!isDriveItemContainer(j), i.parent = G!driveItemResource(j.id)
      PROVE  G!ItemIsTold(p, i)
  <2>1. i.parent \in G!GrantTargets(p)
    BY <1>3, TargetsHavePermissions DEF G!driveItemResource
  <2>2. PICK k \in G!Supported(G!ItemsRead(p)) : k.id = j.id
    BY <1>3, <2>1 DEF G!GrantTargets, G!driveResource, G!sharePointSiteResource, G!driveItemResource
  <2>3. PICK n \in G!Levels : k \in G!Supported(G!ItemsAt(p, n))
    BY <2>2 DEF G!Supported, G!ItemsRead
  <2>4. k \in p.items
    BY <2>3 DEF G!Supported, G!ItemsAt
  <2>5. k = j
    BY <1>3, <2>2, <2>4, TenantAssumption
  <2>6. n \in Nat /\ MaxDriveItemDepth \in Nat
    BY DepthAssumption DEF G!Levels
  <2>7. CASE n = MaxDriveItemDepth - 1
    <3>1. <<"DRIVE_ITEM_DEPTH_LIMIT_REACHED", "resources", i.parent>> \in G!ItemWarnings(p)
      BY <1>3, <2>3, <2>5, <2>7 DEF G!ItemWarnings, G!TooDeep
    <3>. QED
      BY <3>1, WarningsAreKept DEF G!ItemIsTold
  <2>8. CASE n # MaxDriveItemDepth - 1
    <3>1. n + 1 \in G!Levels
      BY <2>3, <2>6, <2>8 DEF G!Levels
    <3>2. i \in G!ItemsAt(p, n + 1)
      BY <1>3, <2>3, <2>5, <2>6, ItemsBelow DEF G!Children
    <3>. QED
      BY <1>1, <3>1, <3>2 DEF G!ItemsRead
  <2>. QED
    BY <2>7, <2>8
<1>. QED
  BY <1>2, <1>3, TenantAssumption

\* What the provider lists is in the snapshot or the subject of a warning of its kind.
LEMMA TenantLosesNothing ==
  ASSUME NEW p \in Tenant
  PROVE  G!NothingIsLostSilently(p)
<1>1. ASSUME NEW s \in G!Known(p.sites)
      PROVE  G!DrivesAreTold(p, p.siteDrives[s])
  BY DrivesAreKept DEF G!SiteDrives
<1>2. ASSUME NEW u \in G!Known(p.users) \ p.deleted
      PROVE  G!DrivesAreTold(p, p.userDrives[u])
  <2>1. u \in G!EnumerableUsers(p)
    BY DEF G!EnumerableUsers, G!LifecycleState
  <2>. QED
    BY <2>1, DrivesAreKept DEF G!UserDrives
<1>3. ASSUME NEW perm \in p.permissions, perm.target \in G!Resources(p)
      PROVE  G!PermissionIsTold(p, perm, G!permissionIdentities(perm))
  <2>1. perm \in G!TargetPermissions(p)
    BY <1>3, TenantAssumption, TargetsHavePermissions DEF G!TargetPermissions
  <2>. QED
    BY <2>1, PermissionIsNotLost
<1>. QED
  BY <1>1, <1>2, <1>3, AssignmentsAreKept, MembersAreKept, OwnersAreKept, ItemIsNotLost DEF G!NothingIsLostSilently

-----------------------------------------------------------------------------
(* The snapshot of an organization *)

\* Both ends of a relationship are imported (buildAwsRelationships).
LEMMA OrganizationRelationshipsHold ==
  ASSUME NEW a, NEW r \in A!buildAwsRelationships(a)
  PROVE  {r[1], r[3]} \subseteq A!Subjects(a) \cup A!buildAwsEntityMaps(a)
<1>1. /\ A!organizationResourceFor \in A!buildAwsEntityMaps(a)
      /\ \A id \in A!Accounts(a) : A!accountResource(id) \in A!buildAwsEntityMaps(a)
      /\ \A arn \in A!PermissionSets(a) : A!permissionSetResource(arn) \in A!buildAwsEntityMaps(a)
      /\ \A role \in A!Roles(a) : A!roleResource(role.arn) \in A!buildAwsEntityMaps(a)
  BY DEF A!buildAwsEntityMaps
<1>2. \A x \in a.assignments : x.principal # None => x.principal \in A!Subjects(a)
  BY DEF A!Subjects, A!AssignmentSubjects, A!Named
<1>3. CASE \E id \in A!Accounts(a) :
             r = <<A!organizationResourceFor, "contains", A!accountResource(id), A!Status(id \in a.deleted)>>
  BY <1>1, <1>3
<1>4. CASE \E arn \in A!PermissionSets(a) :
             r = <<A!organizationResourceFor, "defines_permission_set", A!permissionSetResource(arn), A!Status(arn \in a.deleted)>>
  BY <1>1, <1>4
<1>5. CASE \E role \in A!Roles(a) :
             role.account \in A!Accounts(a) /\ r = <<A!accountResource(role.account), "contains", A!roleResource(role.arn), A!Status(role.arn \in a.deleted)>>
  BY <1>1, <1>5
<1>6. CASE \E x \in a.assignments :
             /\ x.principal # None /\ x.account \in A!Accounts(a)
             /\ r = <<x.principal, "assigned_account_access", A!accountResource(x.account), A!Status(x.deleted)>>
  BY <1>1, <1>2, <1>6
<1>7. CASE \E x \in a.assignments :
             /\ x.principal # None /\ x.permissionSet \in A!PermissionSets(a)
             /\ r = <<x.principal, "assigned_permission_set", A!permissionSetResource(x.permissionSet), A!Status(x.deleted)>>
  BY <1>1, <1>2, <1>7
<1>. QED
  BY <1>3, <1>4, <1>5, <1>6, <1>7 DEF A!buildAwsRelationships

\* The grant of an assignment (buildAwsNativeGrants).
AssignmentGrant(a, x) ==
  [subject |-> x.principal, resource |-> A!accountResource(x.account), permission |-> x.permissionSet,
   status |-> IF A!isDeletedAssignment(x) THEN "revoked" ELSE "observed", confidence |-> A!grantConfidence(a, x)]

\* Every grant of an organization is one of its assignments.
LEMMA GrantsOfAssignments ==
  ASSUME NEW a
  PROVE  /\ A!buildAwsNativeGrants(a) = {AssignmentGrant(a, x) : x \in {x \in a.assignments : A!Grantable(a, x)}}
         /\ \A x : /\ AssignmentGrant(a, x).subject = x.principal
                   /\ AssignmentGrant(a, x).resource = A!accountResource(x.account)
                   /\ AssignmentGrant(a, x).permission = x.permissionSet
BY DEF A!buildAwsNativeGrants, AssignmentGrant

\* No fact of an organization's snapshot dangles.
LEMMA OrganizationDoesNotDangle ==
  ASSUME NEW a
  PROVE  A!NothingDangles(a)
<1>1. ASSUME NEW grant \in A!buildAwsNativeGrants(a)
      PROVE  grant.subject \in A!Subjects(a) /\ grant.resource \in A!buildAwsEntityMaps(a)
  <2>1. PICK x \in a.assignments : A!Grantable(a, x) /\ grant = AssignmentGrant(a, x)
    BY <1>1, GrantsOfAssignments
  <2>2. x.principal \in A!Subjects(a) /\ A!accountResource(x.account) \in A!buildAwsEntityMaps(a)
    BY <2>1 DEF A!Grantable, A!Subjects, A!AssignmentSubjects, A!Named, A!buildAwsEntityMaps
  <2>. QED
    BY <2>1, <2>2, GrantsOfAssignments
<1>. QED
  BY <1>1, OrganizationRelationshipsHold DEF A!NothingDangles

\* An assignment has a grant, or is left out with a warning (buildAwsNativeGrants).
LEMMA AssignmentIsKept ==
  ASSUME NEW a, NEW x \in a.assignments
  PROVE  A!AssignmentIsTold(a, x)
<1>1. CASE A!Grantable(a, x)
  <2>1. AssignmentGrant(a, x) \in A!buildAwsNativeGrants(a)
    BY <1>1, GrantsOfAssignments
  <2>. QED
    BY <2>1, GrantsOfAssignments DEF A!AssignmentIsTold
<1>2. CASE A!Unidentified(x)
  <2>1. <<"OBJECT_MISSING_ID_SKIPPED", "native_grants">> \in A!GrantWarnings(a)
    BY <1>2 DEF A!GrantWarnings, A!Warn
  <2>. QED
    BY <1>2, <2>1 DEF A!Warnings, A!AssignmentIsTold
<1>3. CASE ~A!Unidentified(x) /\ ~A!Grantable(a, x)
  <2>1. <<"ASSIGNMENT_OUTSIDE_BOUNDARY_SKIPPED", "native_grants">> \in A!GrantWarnings(a)
    BY <1>3 DEF A!GrantWarnings, A!Warn
  <2>. QED
    BY <1>3, <2>1 DEF A!Warnings, A!AssignmentIsTold
<1>. QED
  BY <1>1, <1>2, <1>3

\* The report of a finding (buildAwsDriftFindings).
FindingReport(a, f) ==
  [finding |-> f.id, resource |-> f.resource, subject |-> f.principal,
   level |-> A!confidenceLevelForReasons(A!findingReasons(a, f)),
   severity |-> A!accessAnalyzerSeverity(f, A!confidenceLevelForReasons(A!findingReasons(a, f))),
   action |-> IF f.public THEN "revoke" ELSE "review"]

\* An open finding with an id is reported, or is left out with a warning.
LEMMA FindingIsKept ==
  ASSUME NEW a, NEW f \in a.findings, A!Reviewable(f)
  PROVE  A!FindingIsTold(a, f)
<1>1. CASE f.resource \in A!RawKeys(a) /\ f.principal # None
  <2>1. A!buildAwsDriftFindings(a) =
          {FindingReport(a, y) : y \in {y \in a.findings : A!Reviewable(y) /\ y.resource \in A!RawKeys(a) /\ y.principal # None}}
    BY DEF A!buildAwsDriftFindings, FindingReport
  <2>2. /\ FindingReport(a, f).finding = f.id /\ FindingReport(a, f).resource = f.resource
        /\ FindingReport(a, f).subject = f.principal
    BY DEF FindingReport
  <2>3. FindingReport(a, f) \in A!buildAwsDriftFindings(a)
    BY <1>1, <2>1
  <2>4. <<"ACCESS_ANALYZER_FINDINGS_OBSERVED", "native_grants">> \in A!FindingWarnings(a)
    BY <2>3 DEF A!FindingWarnings, A!Warn
  <2>. QED
    BY <2>2, <2>3, <2>4 DEF A!Warnings, A!FindingIsTold
<1>2. CASE f.resource \notin A!RawKeys(a) \/ f.principal = None
  <2>1. <<"ACCESS_ANALYZER_FINDING_SKIPPED", "native_grants">> \in A!FindingWarnings(a)
    BY <1>2 DEF A!FindingWarnings, A!Warn
  <2>. QED
    BY <2>1 DEF A!Warnings, A!FindingIsTold
<1>. QED
  BY <1>1, <1>2

\* A role of an imported account lies in it (buildAwsRelationships).
LEMMA RoleIsKept ==
  ASSUME NEW a, NEW r \in a.roles, r.arn = None \/ r.account \in A!Accounts(a)
  PROVE  A!RoleIsTold(a, r)
<1>1. CASE r.arn = None
  <2>1. <<"OBJECT_MISSING_ID_SKIPPED", "resources">> \in A!EntityWarnings(a)
    BY <1>1 DEF A!EntityWarnings, A!Warn, A!Arns
  <2>. QED
    BY <1>1, <2>1 DEF A!Warnings, A!RoleIsTold
<1>2. CASE r.arn # None
  <2>. DEFINE place(status) == <<A!accountResource(r.account), "contains", A!roleResource(r.arn), status>>
  <2>1. place(A!Status(r.arn \in a.deleted)) \in A!buildAwsRelationships(a)
    BY <1>2 DEF A!buildAwsRelationships, A!Roles
  <2>2. A!Status(r.arn \in a.deleted) \in {"active", "deleted"}
    BY DEF A!Status
  <2>. QED
    BY <2>1, <2>2 DEF A!RoleIsTold
<1>. QED
  BY <1>1, <1>2

\* What an organization lists is in the snapshot or the subject of a warning of its kind.
LEMMA OrganizationLosesNothing ==
  ASSUME NEW a
  PROVE  A!NothingIsLostSilently(a)
BY AssignmentIsKept, FindingIsKept, RoleIsKept DEF A!NothingIsLostSilently, A!Reviewable

\* A grant has high confidence exactly if the last event about it leaves no reason to doubt
\* it (confidenceReasons, confidenceLevelForReasons).
LEMMA ConfidenceIsEarned ==
  ASSUME NEW a \in Organization
  PROVE  A!HighConfidenceIsEarned(a)
<1>. SUFFICES ASSUME NEW x \in a.assignments, A!Grantable(a, x)
              PROVE  LET events == {e \in a.events : e.time # None /\ e.keys \cap {x.account, x.permissionSet} # {}}
                         sound(e) == /\ Now - e.time <= ActivityWindow
                                     /\ e.delivered # None => e.delivered >= e.time /\ e.delivered <= e.time + LatencyWindow
                                     /\ ~e.retried
                         ordered == \A e, f \in {e \in a.events : e.time # None /\ e.delivered # None} :
                                      e.time < f.time => e.delivered <= f.delivered
                         latest == {e \in events : ~\E f \in events : f.time > e.time}
                     IN  "high" \in A!grantConfidence(a, x) <=> ordered /\ \E e \in latest : sound(e)
  BY DEF A!HighConfidenceIsEarned
<1>. DEFINE events == {e \in a.events : e.time # None /\ e.keys \cap {x.account, x.permissionSet} # {}}
            sound(e) == /\ Now - e.time <= ActivityWindow
                        /\ e.delivered # None => e.delivered >= e.time /\ e.delivered <= e.time + LatencyWindow
                        /\ ~e.retried
            delivered == {e \in a.events : e.time # None /\ e.delivered # None}
            ordered == \A e, f \in delivered : e.time < f.time => e.delivered <= f.delivered
            latest == {e \in events : ~\E f \in events : f.time > e.time}
<1>1. /\ \A e \in a.events : e.time # None => e.time \in Int
      /\ \A e \in a.events : e.delivered # None => e.delivered \in Int
      /\ Now \in Int /\ LatencyWindow \in Int /\ ActivityWindow \in Int
  BY OrganizationAssumption, WindowAssumption
<1>2. latest = A!latestActivityForAssignment(a, x)
  <2>1. A!Named({x.account, x.permissionSet}) = {x.account, x.permissionSet}
    BY DEF A!Grantable, A!Named, A!Accounts, A!PermissionSets
  <2>2. A!Concerning(a, A!Named({x.account, x.permissionSet})) = events
    BY <2>1 DEF A!Concerning, A!Timed
  <2>3. \A e, f \in events : ~(f.time > e.time) <=> f.time <= e.time
    BY <1>1
  <2>. QED
    BY <2>2, <2>3 DEF A!latestActivityForAssignment, A!latestActivity
<1>3. A!hasPartialOrdering(a) <=> ~ordered
  <2>1. {e \in A!Timed(a) : e.delivered # None} = delivered
    BY DEF A!Timed
  <2>2. \A e, f \in delivered : f.delivered < e.delivered <=> ~(e.delivered <= f.delivered)
    BY <1>1
  <2>. QED
    BY <2>1, <2>2 DEF A!hasPartialOrdering
<1>. HIDE DEF ordered
<1>4. ASSUME NEW e \in latest
      PROVE  A!confidenceReasons(a, e) = {} <=> sound(e) /\ ordered
  <2>1. e \in a.events /\ e.time # None /\ e.time \in Int
    BY <1>1, <1>4
  <2>2. A!confidenceReasons(a, e) = {} <=>
          /\ ~(Now - e.time > ActivityWindow)
          /\ ~(e.delivered # None /\ e.delivered - e.time > LatencyWindow)
          /\ ~(e.delivered # None /\ e.delivered < e.time)
          /\ ~e.retried
          /\ ~A!hasPartialOrdering(a)
    <3>1. \A condition, code : A!WarnIf(condition, code) = {} <=> ~condition
      BY DEF A!WarnIf
    <3>. QED
      BY <3>1 DEF A!confidenceReasons
  <2>3. e.delivered # None => e.delivered \in Int
    BY <1>1, <2>1
  <2>. QED
    BY <1>1, <1>3, <2>1, <2>2, <2>3
<1>5. \A reasons : A!confidenceLevelForReasons(reasons) = "high" <=> reasons = {}
  BY DEF A!confidenceLevelForReasons
<1>6. "high" \in A!grantConfidence(a, x) <=> \E e \in latest : A!confidenceLevelForReasons(A!confidenceReasons(a, e)) = "high"
  BY <1>2 DEF A!grantConfidence
<1>7. "high" \in A!grantConfidence(a, x) <=> ordered /\ \E e \in latest : sound(e)
  <2>. HIDE DEF latest, sound
  <2>. QED
    BY <1>4, <1>5, <1>6
<1>. QED
  BY <1>7 DEF ordered

-----------------------------------------------------------------------------
(* Evidence packages *)

\* A package that is made of a content and signed by the signer.
IsSigned(o, content) ==
  LET s == o.signedPackage
  IN /\ o.content = content
     /\ o.integrityManifest # None
     /\ o.integrityManifest.packageHash = E!hashReference(content)
     /\ \A n \in E!Sections : o.integrityManifest.sections[n] = E!hashReference(content[n])
     /\ s # None /\ s = [f \in DOMAIN s |-> s[f]] /\ "signature" \in DOMAIN s
     /\ {"packageId", "packageHash", "algorithm", "keyId", "scope"} \subseteq DOMAIN s \ {"signature"}
     /\ s.signature = [algorithm |-> Signer.algorithm, key |-> Signer.key, payload |-> E!Unsigned(s)]
     /\ s.algorithm = Signer.algorithm /\ s.keyId = Signer.keyId
     /\ s.packageHash = E!hashReference(content) /\ s.scope = content.oscal.scope
     /\ s.packageId = E!signedEvidencePackageId(content.exportId)

\* The signature is made over all the other fields of the metadata.
LEMMA SignatureCoversFields ==
  ASSUME NEW unsigned, NEW signature, unsigned = [f \in DOMAIN unsigned |-> unsigned[f]],
         "signature" \notin DOMAIN unsigned,
         NEW s, s = [f \in DOMAIN unsigned \cup {"signature"} |-> IF f = "signature" THEN signature ELSE unsigned[f]]
  PROVE  /\ E!Unsigned(s) = unsigned /\ s.signature = signature
         /\ DOMAIN s = DOMAIN unsigned \cup {"signature"} /\ \A f \in DOMAIN unsigned : s[f] = unsigned[f]
<1>1. /\ DOMAIN s = DOMAIN unsigned \cup {"signature"} /\ s["signature"] = signature
      /\ \A f \in DOMAIN unsigned : s[f] = unsigned[f]
  OBVIOUS
<1>2. DOMAIN s \ {"signature"} = DOMAIN unsigned
  BY <1>1
<1>3. E!Unsigned(s) = [f \in DOMAIN unsigned |-> s[f]]
  BY <1>2 DEF E!Unsigned
<1>. QED
  BY <1>1, <1>3

\* What the runtime exports is signed by its signer.
LEMMA ExportIsSigned ==
  ASSUME NEW i \in EvidenceInput
  PROVE  IsSigned(Exported(i), Content(i))
<1>. DEFINE content == Content(i)
            manifest == E!attachEvidenceIntegrityManifest(content)
            signed == E!attachSignedEvidencePackage(manifest, Signer)
            o == Exported(i)
            unsigned == [packageId |-> E!signedEvidencePackageId(content.exportId), packageHash |-> manifest.integrityManifest.packageHash,
                         algorithm |-> Signer.algorithm, keyId |-> Signer.keyId, signedAt |-> content.generatedAt,
                         scope |-> content.oscal.scope, sourceEventIds |-> content.sourceEventIds,
                         statements |-> E!Map(content.controlStatements, LAMBDA y : y.control),
                         traces |-> E!Ids(content.controlTraceViews)]
            s == [f \in DOMAIN unsigned \cup {"signature"} |->
                    IF f = "signature" THEN E!sign(Signer, unsigned) ELSE unsigned[f]]
<1>1. o = [signed EXCEPT !.verifierChecks = E!verifyEvidenceExport(signed, OwnKeys)]
  BY SignerAssumption DEF Exported, Content, E!finalizeEvidenceExport, E!attachEvidenceVerifierChecks
<1>2. manifest = [content |-> content, integrityManifest |-> E!integrityManifest(content),
                  signedPackage |-> None, verifierChecks |-> None, storageReceipt |-> None]
  BY DEF E!attachEvidenceIntegrityManifest
<1>3. signed = [manifest EXCEPT !.signedPackage = s]
  <2>1. manifest.content = content
    BY <1>2
  <2>. QED
    BY <2>1 DEF E!attachSignedEvidencePackage
<1>. HIDE DEF content, manifest, signed, s, o
<1>4. /\ o.content = content /\ o.integrityManifest = E!integrityManifest(content) /\ o.signedPackage = s
      /\ signed.signedPackage = s /\ manifest.integrityManifest = E!integrityManifest(content)
  BY <1>1, <1>2, <1>3
<1>5. s # None /\ E!integrityManifest(content) # None
  BY <1>4, NoneAssumption DEF content, manifest, signed
<1>6. /\ o.integrityManifest.packageHash = E!hashReference(content)
      /\ \A n \in E!Sections : o.integrityManifest.sections[n] = E!hashReference(content[n])
  BY <1>4 DEF E!integrityManifest
<1>7. /\ unsigned = [f \in DOMAIN unsigned |-> unsigned[f]] /\ "signature" \notin DOMAIN unsigned
      /\ {"packageId", "packageHash", "algorithm", "keyId", "scope"} \subseteq DOMAIN unsigned
      /\ unsigned.algorithm = Signer.algorithm /\ unsigned.keyId = Signer.keyId
      /\ unsigned.packageHash = manifest.integrityManifest.packageHash /\ unsigned.scope = content.oscal.scope
      /\ unsigned.packageId = E!signedEvidencePackageId(content.exportId)
  OBVIOUS
<1>8. s = [f \in DOMAIN unsigned \cup {"signature"} |->
             IF f = "signature" THEN E!sign(Signer, unsigned) ELSE unsigned[f]]
  BY DEF s
<1>. HIDE DEF unsigned
<1>9. /\ E!Unsigned(s) = unsigned /\ s.signature = E!sign(Signer, unsigned)
      /\ DOMAIN s = DOMAIN unsigned \cup {"signature"} /\ \A f \in DOMAIN unsigned : s[f] = unsigned[f]
  BY <1>7, <1>8, SignatureCoversFields
<1>10. s = [f \in DOMAIN s |-> s[f]]
  BY <1>8, <1>9
<1>11. s.signature = [algorithm |-> Signer.algorithm, key |-> Signer.key, payload |-> E!Unsigned(s)]
  BY <1>9 DEF E!sign
<1>12. /\ s.algorithm = Signer.algorithm /\ s.keyId = Signer.keyId
       /\ s.packageHash = E!hashReference(content) /\ s.scope = content.oscal.scope
       /\ s.packageId = E!signedEvidencePackageId(content.exportId)
  BY <1>4, <1>6, <1>7, <1>9
<1>13. "signature" \in DOMAIN s
       /\ {"packageId", "packageHash", "algorithm", "keyId", "scope"} \subseteq DOMAIN s \ {"signature"}
  BY <1>7, <1>9
<1>. QED
  BY <1>4, <1>5, <1>6, <1>10, <1>11, <1>12, <1>13 DEF IsSigned, content, o

\* A package that verifies is the one that was signed: the signature fixes the metadata, the
\* hash in them the content.
LEMMA VerifiedIsAsSigned ==
  ASSUME NEW i \in EvidenceInput, NEW p \in Presented(Exported(i)), E!verifyEvidenceExport(p, i.trusted)
  PROVE  /\ E!Trusts(i.trusted, Signer)
         /\ E!VouchedFor(p) = E!VouchedFor(Exported(i))
         /\ E!SectionsAgree(p, Exported(i))
<1>. DEFINE o == Exported(i)
            content == Content(i)
            s == p.signedPackage
            t == o.signedPackage
<1>0. i.trusted \in TrustedKeys
  BY DEF EvidenceInput
<1>1. IsSigned(o, content)
  BY ExportIsSigned
<1>2. /\ E!packageHashMatches(p) /\ E!verifySectionHashes(p) /\ E!signedHashMatches(p)
      /\ E!signatureVerifies(p, i.trusted)
  BY DEF E!verifyEvidenceExport
<1>3. /\ s # None /\ s.keyId \in DOMAIN i.trusted
      /\ i.trusted[s.keyId].algorithm = s.algorithm /\ s.signature.key = i.trusted[s.keyId].key
      /\ s.signature.payload = E!Unsigned(s)
  BY <1>2 DEF E!signatureVerifies, E!verifySignedPackageSignature
<1>4. s = [f \in DOMAIN t |-> s[f]] /\ s.signature = t.signature
  BY <1>3, PresentedAssumption
<1>. HIDE DEF o, content, s, t
<1>5. E!Unsigned(s) = E!Unsigned(t) /\ DOMAIN s = DOMAIN t
  <2>1. t.signature.payload = E!Unsigned(t)
    BY <1>1 DEF IsSigned, t
  <2>. QED
    BY <1>3, <1>4, <2>1
<1>6. \A f \in DOMAIN t : s[f] = t[f]
  <2>1. ASSUME NEW f \in DOMAIN t \ {"signature"}
        PROVE  s[f] = t[f]
    <3>1. E!Unsigned(s)[f] = s[f] /\ E!Unsigned(t)[f] = t[f]
      BY <1>5 DEF E!Unsigned
    <3>. QED
      BY <1>5, <3>1
  <2>. QED
    BY <1>4, <2>1
<1>7. s = t
  <2>1. t = [f \in DOMAIN t |-> t[f]]
    BY <1>1 DEF IsSigned, t
  <2>. QED
    BY <1>4, <1>6, <2>1
<1>8. E!Manifest(p, "packageHash", None) = E!hashReference(p.content)
  BY <1>2 DEF E!packageHashMatches, E!canonicalEvidenceContent
<1>9. s.packageHash = E!Manifest(p, "packageHash", None)
  BY <1>2, <1>3 DEF E!signedHashMatches, E!Signed, s
<1>10. E!hashReference(p.content) = E!hashReference(content) /\ p.content = content
  BY <1>1, <1>7, <1>8, <1>9 DEF IsSigned, E!hashReference, t
<1>11. E!VouchedFor(p) = E!VouchedFor(o)
  <2>1. E!Manifest(o, "packageHash", None) = E!hashReference(content) /\ o.content = content
    BY <1>1 DEF IsSigned, E!Manifest
  <2>. QED
    BY <1>7, <1>8, <1>10, <2>1 DEF E!VouchedFor, s, t
<1>12. E!SectionsAgree(p, o)
  <2>. DEFINE sections == E!Manifest(p, "sections", <<>>)
  <2>1. DOMAIN sections # {} /\ \A n \in DOMAIN sections : sections[n] = E!hashReference(p.content[n])
    BY <1>2 DEF E!verifySectionHashes
  <2>2. DOMAIN sections \subseteq E!Sections
    <3>1. CASE p.integrityManifest = None
      BY <3>1 DEF E!Manifest
    <3>2. CASE p.integrityManifest # None
      BY <3>2, PresentedAssumption DEF E!Manifest, o
    <3>. QED
      BY <3>1, <3>2
  <2>. HIDE DEF sections
  <2>3. \A n \in DOMAIN sections : sections[n] = o.integrityManifest.sections[n]
    BY <1>1, <1>10, <2>1, <2>2 DEF IsSigned
  <2>. QED
    BY <2>1, <2>3 DEF E!SectionsAgree, sections
<1>13. E!Trusts(i.trusted, Signer)
  <2>1. /\ s.keyId = Signer.keyId /\ s.algorithm = Signer.algorithm /\ s.signature.key = Signer.key
    BY <1>1, <1>4, <1>7 DEF IsSigned, t
  <2>2. i.trusted[s.keyId] \in [algorithm : {i.trusted[s.keyId].algorithm}, key : {i.trusted[s.keyId].key}]
    BY <1>0, <1>3, SignerAssumption
  <2>. QED
    BY <1>3, <2>1, <2>2 DEF E!Trusts
<1>. QED
  BY <1>11, <1>12, <1>13 DEF o

\* A period begins and ends somewhere (exportAuditEvents).
LEMMA PeriodIsKnown ==
  ASSUME NEW i \in EvidenceInput
  PROVE  E!PeriodStart(i.app.events, i.period, ExportedAt) \in Nat /\ E!PeriodEnd(i.period, ExportedAt) \in Nat
<1>. DEFINE events == i.app.events
            times == {events[n].at : n \in DOMAIN events}
<1>1. i.app \in Exporter /\ i.period \in Period
  BY DEF EvidenceInput
<1>2. {i.period.start, i.period.end} \subseteq Nat \cup {None} /\ ExportedAt \in Nat
  BY <1>1, ExportAssumption
<1>3. events \in Seq({events[n] : n \in DOMAIN events}) /\ \A n \in DOMAIN events : events[n].at \in Nat
  BY <1>1, ExportAssumption
<1>4. times \in SUBSET Nat
  BY <1>3
<1>5. ASSUME events # <<>>
      PROVE  E!Min(times) \in Nat
  <2>1. times # {}
    <3>. HIDE DEF events
    <3>1. 1 \in DOMAIN events
      BY <1>3, <1>5
    <3>. QED
      BY <3>1
  <2>. HIDE DEF times
  <2>2. \E n \in times : \A k \in times : n <= k
    BY <1>4, <2>1, LeastNumber
  <2>3. E!Min(times) \in times
    BY <2>2 DEF E!Min
  <2>. QED
    BY <1>4, <2>3
<1>. QED
  BY <1>2, <1>5 DEF E!PeriodStart, E!PeriodEnd, E!OrElse

\* The builder fills in what the export leaves out and keeps the rest (buildEvidencePackageContent).
LEMMA ContentIsComplete ==
  ASSUME NEW i \in EvidenceInput
  PROVE  LET draft == Draft(i)
             content == Content(i)
             scope == E!buildDeploymentScope(draft)
         IN /\ content.poamExport = E!buildPoamExport(draft)
            /\ content.oscal = E!buildOscalArtifacts(draft, scope, E!buildPoamExport(draft))
            /\ content.controlTraceViews = E!buildControlTraceViews(draft, scope, Signer.keyId)
            /\ \A n \in {"exportId", "controls", "generatedAt", "periodStart", "periodEnd", "controlMappings",
                         "controlStatements", "poamItems", "systemBoundary", "others"} : content[n] = draft[n]
            /\ \A n \in E!Sections : content[n] # None
            /\ E!buildExpectedDeploymentScope(content) = scope
            /\ content.oscal.scope = scope /\ E!oscalFragmentsPresent(content.oscal)
            /\ E!poamExportMirrors(content)
            /\ scope.end \in Nat /\ draft.generatedAt \in Nat
<1>. DEFINE draft == Draft(i)
            content == Content(i)
            scope == E!buildDeploymentScope(draft)
            poam == E!buildPoamExport(draft)
            implementations == E!buildOscalControlImplementations(draft.controlMappings, draft.controlStatements)
<1>1. /\ draft = [n \in DOMAIN draft |-> draft[n]]
      /\ draft.poamExport = None /\ draft.oscal = None /\ draft.controlTraceViews = None
      /\ draft.periodStart = E!PeriodStart(i.app.events, i.period, ExportedAt)
      /\ draft.periodEnd = E!PeriodEnd(i.period, ExportedAt) /\ draft.generatedAt = ExportedAt
      /\ DOMAIN draft = {"exportId", "controls", "generatedAt", "periodStart", "periodEnd", "sourceEventIds", "controlMappings",
                         "controlStatements", "poamItems", "systemBoundary", "others", "poamExport", "oscal", "controlTraceViews"}
  BY DEF Draft, E!exportDraft
<1>. HIDE DEF draft
<1>2. content = [draft EXCEPT !.poamExport = poam,
                              !.oscal = E!buildOscalArtifacts(draft, scope, poam),
                              !.controlTraceViews = E!buildControlTraceViews(draft, scope, Signer.keyId)]
  BY <1>1 DEF Content, draft, E!buildEvidencePackageContent, E!OrElse
<1>3. /\ \A n \in {"controls", "controlMappings", "controlStatements", "poamItems", "systemBoundary", "others"} :
           draft[n] # None
      /\ poam # None /\ E!buildControlTraceViews(draft, scope, Signer.keyId) # None
      /\ E!buildOscalArtifacts(draft, scope, poam) # None
      /\ implementations # None
  BY NoneAssumption DEF draft
<1>. HIDE DEF content, poam, scope, implementations
<1>4. /\ content.poamExport = poam
      /\ content.oscal = E!buildOscalArtifacts(draft, scope, poam)
      /\ content.controlTraceViews = E!buildControlTraceViews(draft, scope, Signer.keyId)
  BY <1>1, <1>2
<1>5. \A n \in {"exportId", "controls", "generatedAt", "periodStart", "periodEnd", "controlMappings",
                "controlStatements", "poamItems", "systemBoundary", "others"} : content[n] = draft[n]
  BY <1>1, <1>2
<1>6. \A n \in E!Sections : content[n] # None
  BY <1>3, <1>4, <1>5 DEF E!Sections
<1>7. draft.periodStart \in Nat /\ draft.periodEnd \in Nat /\ None \notin Nat
  BY <1>1, PeriodIsKnown, NoneAssumption
<1>8. E!buildExpectedDeploymentScope(content) = scope
  <2>1. /\ content.systemBoundary = draft.systemBoundary /\ content.controls = draft.controls
        /\ content.periodStart = draft.periodStart /\ content.periodEnd = draft.periodEnd
    BY <1>5
  <2>2. E!buildDeploymentScope(content) = scope
    BY <2>1 DEF E!buildDeploymentScope, scope
  <2>3. None \notin {content.systemBoundary, content.periodStart, content.periodEnd}
    BY <1>3, <1>7, <2>1
  <2>. QED
    BY <2>2, <2>3 DEF E!buildExpectedDeploymentScope
<1>9. content.oscal = [componentDefinition |-> implementations, scope |-> scope, systemSecurityPlan |-> implementations,
                       assessmentResults |-> implementations, planOfActionAndMilestones |-> poam]
  BY <1>4 DEF E!buildOscalArtifacts, implementations
<1>10. content.oscal.scope = scope /\ E!oscalFragmentsPresent(content.oscal)
  <2>1. content.oscal # None
    BY <1>3, <1>4
  <2>. QED
    BY <1>3, <1>9, <2>1 DEF E!oscalFragmentsPresent
<1>11. E!poamExportMirrors(content)
  <2>1. content.poamItems = draft.poamItems /\ draft.poamItems # None
    BY <1>3, <1>5
  <2>2. content.poamExport # None /\ content.poamExport.items = draft.poamItems
    BY <1>3, <1>4 DEF E!buildPoamExport, poam
  <2>. QED
    BY <2>1, <2>2 DEF E!poamExportMirrors, E!OrElse, E!SameItems
<1>12. scope.end \in Nat /\ draft.generatedAt \in Nat
  <2>1. scope.end = draft.periodEnd
    BY <1>7 DEF scope, E!buildDeploymentScope, E!OrElse
  <2>. QED
    BY <1>1, <1>7, <2>1, ExportAssumption
<1>. QED
  BY <1>4, <1>5, <1>6, <1>8, <1>10, <1>11, <1>12 DEF draft, content, scope, poam

\* A finite set of positions has a last one.
LEMMA LastPosition ==
  ASSUME NEW n \in Nat, NEW I \in SUBSET (1..n), I # {}
  PROVE  E!Max(I) \in I
<1>. DEFINE D == {n - k : k \in I}
<1>1. D \in SUBSET Nat
  <2>1. \A k \in I : n - k \in Nat
    OBVIOUS
  <2>. QED
    BY <2>1
<1>5. D # {}
  OBVIOUS
<1>2. PICK d \in D : \A k \in D : d <= k
  BY <1>1, <1>5, LeastNumber
<1>3. PICK m \in I : d = n - m
  BY <1>2
<1>4. \A k \in I : m >= k
  <2>1. ASSUME NEW k \in I
        PROVE  m >= k
    <3>1. n - k \in D
      OBVIOUS
    <3>2. n - m <= n - k
      BY <1>2, <1>3, <3>1
    <3>3. n \in Int /\ m \in Int /\ k \in Int
      OBVIOUS
    <3>. QED
      BY <3>2, <3>3
  <2>. QED
    BY <2>1
<1>. QED
  BY <1>4 DEF E!Max

\* A statement that is found about a control is one of the statements.
LEMMA StatementIsOne ==
  ASSUME NEW S, NEW statements \in Seq(S), NEW control
  PROVE  E!FindControl(statements, control) = None
         \/ \E n \in DOMAIN statements : E!FindControl(statements, control) = statements[n]
<1>. DEFINE I == {n \in 1..Len(statements) : statements[n].control = control}
<1>1. E!SelectInSeq(statements, LAMBDA y : y.control = control) = IF I = {} THEN 0 ELSE E!Min(I)
  BY DEF E!SelectInSeq
<1>2. CASE I = {}
  BY <1>1, <1>2 DEF E!FindControl
<1>3. CASE I # {}
  <2>1. I \in SUBSET Nat /\ I \subseteq DOMAIN statements
    OBVIOUS
  <2>. HIDE DEF I
  <2>2. E!Min(I) \in I
    BY <1>3, <2>1, LeastNumber DEF E!Min
  <2>3. E!FindControl(statements, control) = IF E!Min(I) = 0 THEN None ELSE statements[E!Min(I)]
    BY <1>1, <1>3 DEF E!FindControl
  <2>. QED
    BY <2>1, <2>2, <2>3
<1>. QED
  BY <1>2, <1>3

\* Every control has a trace with its evidence, its reviewer and the signed scope, and two
\* entries for one control have the same evidence (buildControlMappings, buildControlTraceViews).
LEMMA TracesAreComplete ==
  ASSUME NEW i \in EvidenceInput
  PROVE  LET content == Content(i)
             mappings == content.controlMappings
             traces == content.controlTraceViews
         IN /\ Len(traces) \in Nat /\ DOMAIN traces = 1..Len(traces) /\ DOMAIN mappings = DOMAIN traces
            /\ \A n \in DOMAIN traces :
                 /\ traces[n] # None
                 /\ traces[n].control = mappings[n].control /\ traces[n].events = mappings[n].events
                 /\ traces[n].scope = content.oscal.scope /\ traces[n].keyId = Signer.keyId
                 /\ traces[n].packageId = E!signedEvidencePackageId(content.exportId)
                 /\ traces[n].reviewer # None /\ traces[n].reviewedAt # None
            /\ \A m, n \in DOMAIN mappings : mappings[m].control = mappings[n].control =>
                 mappings[m].events = mappings[n].events
<1>. DEFINE draft == Draft(i)
            content == Content(i)
            controls == i.controls
            events == E!InPeriod(i.app.events, i.period, ExportedAt)
            mappings == E!buildControlMappings(controls, events)
            statements == E!buildControlStatements(mappings, ExportedAt)
            scope == E!buildDeploymentScope(draft)
            traces == E!buildControlTraceViews(draft, scope, Signer.keyId)
            Statement(n) == E!FindControl(statements, mappings[n].control)
<1>1. controls \in Seq(STRING) /\ Len(controls) \in Nat /\ DOMAIN controls = 1..Len(controls)
  BY ExportAssumption DEF EvidenceInput
<1>2. /\ draft.controlMappings = mappings /\ draft.controlStatements = statements
      /\ draft.exportId = <<"evidence", ExportedAt>> /\ draft.generatedAt = ExportedAt
  BY DEF Draft, E!exportDraft
<1>3. /\ content.controlMappings = mappings /\ content.controlTraceViews = traces
      /\ content.oscal.scope = scope /\ content.exportId = draft.exportId
      /\ scope.end \in Nat /\ ExportedAt \in Nat
  BY <1>2, ContentIsComplete
<1>4. mappings = [n \in DOMAIN controls |-> E!ControlMapping(controls[n], events)]
  BY DEF E!buildControlMappings, E!Map
<1>. HIDE DEF controls, events
<1>5. statements = [n \in DOMAIN controls |->
                      [control |-> mappings[n].control, status |-> mappings[n].status,
                       reviewer |-> "assessor", reviewedAt |-> ExportedAt]]
  BY <1>4 DEF E!buildControlStatements, E!Map
<1>. HIDE DEF mappings, draft, content, scope
<1>6. traces = [n \in DOMAIN controls |->
                  [id |-> <<draft.exportId, mappings[n].control>>, control |-> mappings[n].control,
                   events |-> mappings[n].events, scope |-> scope,
                   packageId |-> E!signedEvidencePackageId(draft.exportId), keyId |-> Signer.keyId,
                   reviewer |-> IF Statement(n) = None THEN "assessor" ELSE Statement(n).reviewer,
                   reviewedAt |-> IF Statement(n) = None THEN scope.end ELSE Statement(n).reviewedAt]]
  BY <1>2, <1>4 DEF E!buildControlTraceViews, E!Map
<1>7. \A n \in DOMAIN controls : mappings[n].control = controls[n]
  <2>1. \A c : E!ControlMapping(c, events).control = c
    BY DEF E!ControlMapping
  <2>. QED
    BY <1>4, <2>1
<1>. HIDE DEF statements, traces
<1>8. ASSUME NEW n \in DOMAIN controls
      PROVE  Statement(n) # None => Statement(n).reviewer = "assessor" /\ Statement(n).reviewedAt = ExportedAt
  <2>1. statements \in Seq({statements[m] : m \in DOMAIN controls}) /\ DOMAIN statements = DOMAIN controls
    <3>1. \A m \in DOMAIN controls : statements[m] \in {statements[k] : k \in DOMAIN controls}
      OBVIOUS
    <3>2. statements = [m \in 1..Len(controls) |-> statements[m]]
      BY <1>1, <1>5
    <3>. QED
      BY <1>1, <3>1, <3>2
  <2>2. Statement(n) = None \/ \E m \in DOMAIN controls : Statement(n) = statements[m]
    BY <2>1, StatementIsOne
  <2>3. ASSUME NEW m \in DOMAIN controls
        PROVE  statements[m].reviewer = "assessor" /\ statements[m].reviewedAt = ExportedAt
    BY <1>5
  <2>. QED
    BY <2>2, <2>3
<1>9. \A n \in DOMAIN controls :
        /\ traces[n].control = mappings[n].control /\ traces[n].events = mappings[n].events
        /\ traces[n].scope = scope /\ traces[n].keyId = Signer.keyId
        /\ traces[n].packageId = E!signedEvidencePackageId(draft.exportId)
  BY <1>6
<1>10. ASSUME NEW n \in DOMAIN controls
       PROVE  traces[n].reviewer # None /\ traces[n].reviewedAt # None
  <2>1. None # "assessor" /\ None # ExportedAt /\ None # scope.end
    <3>1. None \notin Nat /\ None # "assessor"
      BY NoneAssumption
    <3>2. ExportedAt \in Nat /\ scope.end \in Nat
      BY <1>3
    <3>. QED
      BY <3>1, <3>2
  <2>2. /\ traces[n].reviewer = IF Statement(n) = None THEN "assessor" ELSE Statement(n).reviewer
        /\ traces[n].reviewedAt = IF Statement(n) = None THEN scope.end ELSE Statement(n).reviewedAt
    BY <1>6
  <2>. QED
    BY <1>8, <2>1, <2>2
<1>11. Len(traces) = Len(controls) /\ DOMAIN traces = DOMAIN controls /\ DOMAIN mappings = DOMAIN controls
  <2>1. DOMAIN traces = 1..Len(controls)
    BY <1>1, <1>6
  <2>2. DOMAIN mappings = DOMAIN controls
    BY <1>4 DEF mappings
  <2>. QED
    BY <1>1, <2>1, <2>2
<1>12. \A n \in DOMAIN traces : traces[n] # None
  BY NoneAssumption DEF draft, scope, traces
<1>13. \A m, n \in DOMAIN controls : mappings[m].control = mappings[n].control => mappings[m].events = mappings[n].events
  BY <1>4, <1>7
<1>. QED
  BY <1>1, <1>3, <1>9, <1>10, <1>11, <1>12, <1>13 DEF content

\* A package whose content, hash and metadata are those of the export verifies with a verifier
\* that trusts the signer (verifyEvidenceExport).
LEMMA AsSignedVerifies ==
  ASSUME NEW i \in EvidenceInput, NEW p, E!Trusts(i.trusted, Signer),
         p.integrityManifest # None => DOMAIN p.integrityManifest.sections \subseteq E!Sections,
         E!VouchedFor(p) = E!VouchedFor(Exported(i)), E!SectionsAgree(p, Exported(i))
  PROVE  E!verifyEvidenceExport(p, i.trusted)
<1>. DEFINE o == Exported(i)
            content == Content(i)
            s == o.signedPackage
            mappings == content.controlMappings
            traces == content.controlTraceViews
<1>1. IsSigned(o, content)
  BY ExportIsSigned
<1>2. p.content = content /\ p.signedPackage = s
      /\ E!Manifest(p, "packageHash", None) = E!hashReference(content)
  <2>1. E!Manifest(o, "packageHash", None) = E!hashReference(content) /\ o.content = content
    BY <1>1 DEF IsSigned, E!Manifest
  <2>. HIDE DEF o, content
  <2>2. /\ E!VouchedFor(p).content = p.content /\ E!VouchedFor(o).content = o.content
        /\ E!VouchedFor(p).hash = E!Manifest(p, "packageHash", None)
        /\ E!VouchedFor(o).hash = E!Manifest(o, "packageHash", None)
        /\ E!VouchedFor(p).signed = p.signedPackage /\ E!VouchedFor(o).signed = o.signedPackage
    BY DEF E!VouchedFor
  <2>. QED
    BY <2>1, <2>2 DEF o
<1>3. E!packageHashMatches(p)
  BY <1>2 DEF E!packageHashMatches, E!canonicalEvidenceContent
<1>4. \A n \in E!Sections : content[n] # None
  BY ContentIsComplete
<1>5. E!verifySectionHashes(p)
  <2>. DEFINE sections == E!Manifest(p, "sections", <<>>)
  <2>1. DOMAIN sections # {} /\ \A n \in DOMAIN sections : sections[n] = o.integrityManifest.sections[n]
    BY DEF E!SectionsAgree
  <2>2. DOMAIN sections \subseteq E!Sections
    BY DEF E!Manifest
  <2>. HIDE DEF sections, o, content
  <2>3. \A n \in DOMAIN sections : sections[n] = E!hashReference(content[n])
    BY <1>1, <2>1, <2>2 DEF IsSigned
  <2>. QED
    BY <1>2, <1>4, <2>1, <2>2, <2>3 DEF E!verifySectionHashes, sections
<1>. HIDE DEF o, content
<1>6. E!signedHashMatches(p)
  BY <1>1, <1>2 DEF E!signedHashMatches, E!Signed, IsSigned
<1>7. E!signatureVerifies(p, i.trusted)
  <2>1. /\ Signer.keyId \in DOMAIN i.trusted
        /\ i.trusted[Signer.keyId].algorithm = Signer.algorithm /\ i.trusted[Signer.keyId].key = Signer.key
    BY DEF E!Trusts
  <2>2. /\ s.keyId = Signer.keyId /\ s.algorithm = Signer.algorithm /\ s # None
        /\ s.signature.algorithm = Signer.algorithm /\ s.signature.key = Signer.key
        /\ s.signature.payload = E!Unsigned(s)
    BY <1>1 DEF IsSigned
  <2>. HIDE DEF s
  <2>. QED
    BY <1>2, <2>1, <2>2 DEF E!signatureVerifies, E!verifySignedPackageSignature
<1>8. /\ E!Signed(p, "scope") = E!buildExpectedDeploymentScope(p.content)
      /\ E!oscalFragmentsPresent(p.content.oscal) /\ E!poamExportMirrors(p.content)
  <2>1. /\ E!buildExpectedDeploymentScope(content) = content.oscal.scope
        /\ E!oscalFragmentsPresent(content.oscal) /\ E!poamExportMirrors(content)
    BY ContentIsComplete DEF content
  <2>2. s # None /\ s.scope = content.oscal.scope
    BY <1>1 DEF IsSigned
  <2>. HIDE DEF s
  <2>. QED
    BY <1>2, <2>1, <2>2 DEF E!Signed
<1>9. ASSUME NEW n \in DOMAIN mappings
      PROVE  E!traceIsComplete(E!TraceOf(traces, mappings[n].control), mappings[n].events, p)
  <2>1. /\ Len(traces) \in Nat /\ DOMAIN traces = 1..Len(traces) /\ DOMAIN mappings = DOMAIN traces
        /\ \A m \in DOMAIN traces :
             /\ traces[m] # None
             /\ traces[m].control = mappings[m].control /\ traces[m].events = mappings[m].events
             /\ traces[m].scope = content.oscal.scope /\ traces[m].keyId = Signer.keyId
             /\ traces[m].packageId = E!signedEvidencePackageId(content.exportId)
             /\ traces[m].reviewer # None /\ traces[m].reviewedAt # None
        /\ \A m, k \in DOMAIN mappings : mappings[m].control = mappings[k].control =>
             mappings[m].events = mappings[k].events
    BY TracesAreComplete DEF content
  <2>. DEFINE I == {m \in 1..Len(traces) : traces[m].control = mappings[n].control}
  <2>2. E!SelectLastInSeq(traces, LAMBDA y : y.control = mappings[n].control) = IF I # {} THEN E!Max(I) ELSE 0
    BY DEF E!SelectLastInSeq
  <2>3. n \in I /\ I \in SUBSET (1..Len(traces))
    BY <2>1
  <2>4. \A m \in I : m \in DOMAIN traces /\ m # 0 /\ traces[m].control = mappings[n].control
    BY <2>1
  <2>. HIDE DEF I, mappings, traces
  <2>5. E!Max(I) \in I
    BY <2>1, <2>3, LastPosition
  <2>6. PICK m \in I : m = E!Max(I)
    BY <2>5
  <2>7. E!TraceOf(traces, mappings[n].control) = traces[m]
    BY <2>2, <2>3, <2>4, <2>6 DEF E!TraceOf
  <2>8. m \in DOMAIN traces /\ n \in DOMAIN mappings /\ traces[m].events = mappings[n].events
    BY <2>1, <2>4
  <2>9. /\ s # None /\ s.keyId = Signer.keyId /\ s.scope = content.oscal.scope
        /\ s.packageId = E!signedEvidencePackageId(content.exportId)
    BY <1>1 DEF IsSigned
  <2>. HIDE DEF s
  <2>10. E!SameItems(traces[m].events, mappings[n].events)
    BY <2>8 DEF E!SameItems
  <2>. QED
    BY <1>2, <2>1, <2>7, <2>8, <2>9, <2>10 DEF E!traceIsComplete
<1>10. E!missingControlTraceIds(p) = {}
  <2>1. mappings # None /\ traces # None
    BY <1>4 DEF E!Sections
  <2>2. E!OrElse(p.content.controlMappings, <<>>) = mappings /\ E!OrElse(p.content.controlTraceViews, <<>>) = traces
    BY <1>2, <2>1 DEF E!OrElse
  <2>. HIDE DEF mappings, traces
  <2>. QED
    BY <1>9, <2>2 DEF E!missingControlTraceIds
<1>. QED
  BY <1>3, <1>5, <1>6, <1>7, <1>8, <1>10 DEF E!verifyEvidenceExport

\* The rule of the evidence packages as a whole.
LEMMA OnlySignedVerifies ==
  ASSUME NEW i \in EvidenceInput, NEW p \in Presented(Exported(i))
  PROVE  E!VerifiesExactlyAsSigned(p, Exported(i), Signer, i.trusted)
<1>1. p.integrityManifest # None => DOMAIN p.integrityManifest.sections \subseteq E!Sections
  BY PresentedAssumption
<1>2. E!verifyEvidenceExport(p, i.trusted) =>
        /\ E!Trusts(i.trusted, Signer)
        /\ E!VouchedFor(p) = E!VouchedFor(Exported(i))
        /\ E!SectionsAgree(p, Exported(i))
  BY VerifiedIsAsSigned
<1>3. /\ E!Trusts(i.trusted, Signer)
      /\ E!VouchedFor(p) = E!VouchedFor(Exported(i))
      /\ E!SectionsAgree(p, Exported(i))
      => E!verifyEvidenceExport(p, i.trusted)
  BY <1>1, AsSignedVerifies
<1>. QED
  BY <1>2, <1>3 DEF E!VerifiesExactlyAsSigned

-----------------------------------------------------------------------------
(* Bodies *)

\* What is neither a list nor an object is as valid at every depth.
LEMMA ScalarIsValid ==
  ASSUME NEW schema, schema.kind \notin {"list", "object"}, NEW y
  PROVE  /\ B!Valid2(schema, y) <=> B!ValidScalar(schema, y)
         /\ B!Valid3(schema, y) <=> B!ValidScalar(schema, y)
         /\ B!Valid(schema, y) <=> B!ValidScalar(schema, y)
BY DEF B!Valid, B!Valid2, B!Valid3, B!ValidOf

\* A schema of an object has a say in every field, and its required fields are there.
LEMMA BodyIsObject ==
  ASSUME NEW required, NEW properties, NEW y, B!Valid(B!object(required, properties), y)
  PROVE  /\ y.is = "object" /\ required \subseteq DOMAIN y.f /\ DOMAIN y.f \subseteq DOMAIN properties
         /\ \A f \in DOMAIN y.f : B!Valid3(properties[f], y.f[f])
BY DEF B!Valid, B!ValidOf, B!ValidScalar, B!object

\* So it is for the objects that are fields of a body,
LEMMA PartIsObject ==
  ASSUME NEW required, NEW properties, NEW y, B!Valid3(B!object(required, properties), y)
  PROVE  /\ y.is = "object" /\ required \subseteq DOMAIN y.f /\ DOMAIN y.f \subseteq DOMAIN properties
         /\ \A f \in DOMAIN y.f : B!Valid2(properties[f], y.f[f])
BY DEF B!Valid3, B!ValidOf, B!ValidScalar, B!object

\* and for the objects that are fields or items of those.
LEMMA ItemIsObject ==
  ASSUME NEW required, NEW properties, NEW y, B!Valid2(B!object(required, properties), y)
  PROVE  /\ y.is = "object" /\ required \subseteq DOMAIN y.f /\ DOMAIN y.f \subseteq DOMAIN properties
         /\ \A f \in DOMAIN y.f : B!ValidScalar(properties[f], y.f[f])
BY DEF B!Valid2, B!ValidOf, B!ValidScalar, B!object

\* A text is given, and what is left out is not.
LEMMA GivenOrAbsent ==
  /\ ~B!IsGiven(B!Absent) /\ B!Absent.v = ""
  /\ \A y : B!IsText(y) => B!IsGiven(y) /\ y.is = "string"
<1>1. ~B!IsGiven(B!Absent) /\ B!Absent.v = ""
  BY DEF B!Absent, B!IsGiven
<1>2. ASSUME NEW y, B!IsText(y)
      PROVE  B!IsGiven(y) /\ y.is = "string"
  BY <1>2 DEF B!IsText, B!IsGiven
<1>. QED
  BY <1>1, <1>2

\* isEnforcementControl looks again at what the schema says.
LEMMA ControlIsComplete ==
  ASSUME NEW y, B!Valid3(B!enforcementControlSchema, y)
  PROVE  B!isControl(y) /\ DOMAIN y.f = B!Flags
<1>1. /\ y.is = "object" /\ DOMAIN y.f = B!Flags
      /\ \A f \in DOMAIN y.f : B!Valid2(B!each(B!Flags, B!boolean)[f], y.f[f])
  BY PartIsObject DEF B!enforcementControlSchema, B!each
<1>2. \A f \in B!Flags : B!ValidScalar(B!boolean, y.f[f])
  BY <1>1, ScalarIsValid DEF B!each, B!boolean
<1>. QED
  BY <1>1, <1>2 DEF B!isControl, B!Field, B!ValidScalar, B!boolean

\* isProvisioningApproval does, too.
LEMMA ApprovalIsComplete ==
  ASSUME NEW y, B!Valid3(B!provisioningApprovalSchema, y)
  PROVE  /\ B!isProvisioningApproval(y)
         /\ \A f \in {"approverId", "changeTicket", "approvedAt"} : B!IsText(B!Field(y, f))
         /\ \A f \in {"expiresAt", "reason"} : B!Field(y, f) = B!Absent \/ B!IsText(B!Field(y, f))
<1>. DEFINE texts == {"approverId", "changeTicket", "approvedAt", "expiresAt", "reason"}
            properties == B!Fields([decision |-> B!one({"approved"})], B!each(texts, B!text))
<1>1. /\ y.is = "object" /\ {"decision", "approverId", "changeTicket", "approvedAt"} \subseteq DOMAIN y.f
      /\ \A f \in DOMAIN y.f : B!Valid2(properties[f], y.f[f])
  BY PartIsObject DEF B!provisioningApprovalSchema
<1>2. properties["decision"] = B!one({"approved"}) /\ \A f \in texts : properties[f] = B!text
  BY DEF B!Fields, B!each
<1>3. B!Is(y.f["decision"], "approved")
  <2>1. B!Valid2(B!one({"approved"}), y.f["decision"])
    BY <1>1, <1>2
  <2>2. B!ValidScalar(B!one({"approved"}), y.f["decision"])
    BY <2>1, ScalarIsValid DEF B!one
  <2>. QED
    BY <2>2 DEF B!ValidScalar, B!one, B!IsOneOf, B!Is
<1>4. \A f \in texts \cap DOMAIN y.f : B!IsText(y.f[f])
  <2>. TAKE f \in texts \cap DOMAIN y.f
  <2>1. B!Valid2(B!text, y.f[f])
    BY <1>1, <1>2
  <2>2. B!ValidScalar(B!text, y.f[f])
    BY <2>1, ScalarIsValid DEF B!text
  <2>. QED
    BY <2>2 DEF B!ValidScalar, B!text
<1>. QED
  BY <1>1, <1>3, <1>4 DEF B!isProvisioningApproval, B!Field, B!IsText

\* So do isDriftAutoRepairPolicy and isDriftHookEvidenceArray.
LEMMA PolicyIsComplete ==
  ASSUME NEW y, B!Valid3(B!driftAutoRepairPolicySchema, y)
  PROVE  B!isDriftAutoRepairPolicy(y)
<1>. DEFINE severities == {"low", "medium", "high", "critical"}
            properties == B!Fields([allowedActions |-> B!set(B!one(B!repairActions)), maxSeverity |-> B!one(severities),
                                    reason |-> B!text], B!each(B!PolicyFlags, B!boolean))
<1>1. /\ y.is = "object" /\ B!PolicyFlags \cup {"allowedActions", "maxSeverity"} \subseteq DOMAIN y.f
      /\ \A f \in DOMAIN y.f : B!Valid2(properties[f], y.f[f])
  BY PartIsObject DEF B!driftAutoRepairPolicySchema
<1>2. /\ properties["allowedActions"] = B!set(B!one(B!repairActions)) /\ properties["maxSeverity"] = B!one(severities)
      /\ \A f \in B!PolicyFlags : properties[f] = B!boolean
  BY DEF B!Fields, B!each, B!PolicyFlags
<1>3. \A f \in B!PolicyFlags : y.f[f].is = "boolean"
  <2>. TAKE f \in B!PolicyFlags
  <2>1. B!Valid2(B!boolean, y.f[f])
    BY <1>1, <1>2
  <2>2. B!ValidScalar(B!boolean, y.f[f])
    BY <2>1, ScalarIsValid DEF B!boolean
  <2>. QED
    BY <2>2 DEF B!ValidScalar, B!boolean
<1>4. B!IsOneOf(y.f["maxSeverity"], B!driftSeverities)
  <2>1. B!Valid2(B!one(severities), y.f["maxSeverity"])
    BY <1>1, <1>2
  <2>2. B!ValidScalar(B!one(severities), y.f["maxSeverity"])
    BY <2>1, ScalarIsValid DEF B!one
  <2>. QED
    BY <2>2 DEF B!ValidScalar, B!one, B!driftSeverities
<1>5. /\ y.f["allowedActions"].is = "array"
      /\ \A i \in DOMAIN y.f["allowedActions"].items : B!IsOneOf(y.f["allowedActions"].items[i], B!repairActions)
  <2>1. B!Valid2(B!set(B!one(B!repairActions)), y.f["allowedActions"])
    BY <1>1, <1>2
  <2>. QED
    BY <2>1 DEF B!Valid2, B!ValidOf, B!ValidScalar, B!set, B!list, B!one
<1>. QED
  BY <1>1, <1>3, <1>4, <1>5 DEF B!isDriftAutoRepairPolicy, B!Field

\* Every hook of a valid list has a known system and status, a reference and a date.
LEMMA HooksAreComplete ==
  ASSUME NEW y, B!Valid3(B!list(B!hookEvidenceSchema, 0), y)
  PROVE  B!isDriftHookEvidenceArray(y)
<1>. DEFINE systems == {"ticket", "siem"}
            statuses == {"pending", "linked", "notified", "failed"}
            properties == [system |-> B!one(systems), referenceId |-> B!text, status |-> B!one(statuses),
                           recordedAt |-> B!dateTime, url |-> B!text, evidence |-> B!jsonObject]
<1>1. y.is = "array" /\ \A i \in DOMAIN y.items : B!Valid2(B!hookEvidenceSchema, y.items[i])
  BY DEF B!Valid3, B!ValidOf, B!ValidScalar, B!list
<1>2. ASSUME NEW i \in DOMAIN y.items
      PROVE  LET hook == y.items[i]
             IN /\ B!IsOneOf(B!Field(hook, "system"), systems)
                /\ B!IsOneOf(B!Field(hook, "status"), statuses)
                /\ \A f \in {"referenceId", "recordedAt"} : B!Field(hook, f).is = "string"
  <2>. DEFINE hook == y.items[i]
  <2>1. /\ hook.is = "object" /\ {"system", "referenceId", "status", "recordedAt"} \subseteq DOMAIN hook.f
        /\ \A f \in DOMAIN hook.f : B!ValidScalar(properties[f], hook.f[f])
    BY <1>1, ItemIsObject DEF B!hookEvidenceSchema
  <2>2. /\ B!ValidScalar(B!one(systems), hook.f["system"]) /\ B!ValidScalar(B!one(statuses), hook.f["status"])
        /\ B!ValidScalar(B!text, hook.f["referenceId"]) /\ B!ValidScalar(B!dateTime, hook.f["recordedAt"])
    BY <2>1
  <2>3. B!IsOneOf(hook.f["system"], systems) /\ B!IsOneOf(hook.f["status"], statuses)
    BY <2>2 DEF B!ValidScalar, B!one
  <2>4. hook.f["referenceId"].is = "string" /\ hook.f["recordedAt"].is = "string"
    BY <2>2 DEF B!ValidScalar, B!text, B!dateTime, B!IsText, B!Is
  <2>. QED
    BY <2>1, <2>3, <2>4 DEF B!Field
<1>. QED
  BY <1>1, <1>2 DEF B!isDriftHookEvidenceArray

-----------------------------------------------------------------------------
(* Decoders *)

\* The checks of a decoder, whatever their order
Made(checks) == {checks[n] : n \in DOMAIN checks}
IsDecoder(checks) == checks \in Seq(Made(checks)) /\ \A c \in Made(checks) : c.code # "none"
Accepts(checks) == \A c \in Made(checks) : c.holds
Agrees(checks) == \A c \in Made(checks) : c.repeats => c.holds

\* A decoder of one check accepts a body when the check holds.
LEMMA OneCheck ==
  ASSUME NEW c, c.code # "none"
  PROVE  /\ IsDecoder(<<c>>)
         /\ Accepts(<<c>>) <=> c.holds
         /\ Agrees(<<c>>) <=> (c.repeats => c.holds)
BY DEF IsDecoder, Made, Accepts, Agrees

\* A decoder of two accepts it when both do.
LEMMA TwoChecks ==
  ASSUME NEW c, c.code # "none", NEW d, d.code # "none"
  PROVE  /\ IsDecoder(<<c, d>>)
         /\ Accepts(<<c, d>>) <=> c.holds /\ d.holds
         /\ Agrees(<<c, d>>) <=> (c.repeats => c.holds) /\ (d.repeats => d.holds)
<1>1. DOMAIN <<c, d>> = {1, 2} /\ <<c, d>> \in Seq({c, d})
  OBVIOUS
<1>2. Made(<<c, d>>) = {c, d}
  BY <1>1 DEF Made
<1>. QED
  BY <1>1, <1>2 DEF IsDecoder, Accepts, Agrees

\* One decoder after another makes the checks of both.
LEMMA BothAreMade ==
  ASSUME NEW a, IsDecoder(a), NEW b, IsDecoder(b)
  PROVE  /\ IsDecoder(a \o b)
         /\ Accepts(a \o b) <=> Accepts(a) /\ Accepts(b)
         /\ Agrees(a \o b) <=> Agrees(a) /\ Agrees(b)
<1>. DEFINE S == Made(a) \cup Made(b)
<1>1. a \in Seq(S) /\ b \in Seq(S)
  BY SeqMonotonic DEF IsDecoder
<1>2. /\ a \o b \in Seq(S) /\ DOMAIN (a \o b) = 1 .. (Len(a) + Len(b))
      /\ DOMAIN a = 1 .. Len(a) /\ DOMAIN b = 1 .. Len(b)
      /\ \A n \in 1 .. Len(a) : (a \o b)[n] = a[n]
      /\ \A n \in 1 .. Len(b) : (a \o b)[Len(a) + n] = b[n]
      /\ Len(a) \in Nat /\ Len(b) \in Nat
  BY <1>1
<1>3. Made(a \o b) \subseteq S
  BY <1>2, ElementOfSeq DEF Made
<1>4. ASSUME NEW n \in DOMAIN a
      PROVE  a[n] \in Made(a \o b)
  BY <1>2 DEF Made
<1>5. ASSUME NEW n \in DOMAIN b
      PROVE  b[n] \in Made(a \o b)
  <2>1. Len(a) + n \in DOMAIN (a \o b) /\ (a \o b)[Len(a) + n] = b[n]
    BY <1>2
  <2>. QED
    BY <2>1 DEF Made
<1>6. Made(a \o b) = S
  BY <1>3, <1>4, <1>5 DEF Made
<1>. QED
  BY <1>2, <1>6 DEF IsDecoder, Accepts, Agrees

\* A body that no check refuses holds them all.
LEMMA NothingIsRefused ==
  ASSUME NEW checks, IsDecoder(checks), B!Refusal(checks) = "none"
  PROVE  Accepts(checks)
<1>. DEFINE failed == {i \in DOMAIN checks : ~checks[i].holds}
<1>1. DOMAIN checks \subseteq Nat
  BY DEF IsDecoder
<1>2. ASSUME failed # {}
      PROVE  FALSE
  <2>1. \E i \in failed : \A j \in failed : i <= j
    BY <1>1, <1>2, LeastNumber
  <2>. DEFINE i == CHOOSE i \in failed : \A j \in failed : i <= j
  <2>2. i \in failed
    BY <2>1
  <2>3. checks[i].code # "none"
    BY <2>2 DEF IsDecoder, Made
  <2>. QED
    BY <1>2, <2>3 DEF B!Refusal
<1>. QED
  BY <1>2 DEF Made, Accepts

\* The checks that the schema makes, and those of the parts of a body
LEMMA BodyCheck ==
  ASSUME NEW route \in B!Routes, NEW body
  PROVE  LET checks == B!decodeSchemaBacked(route, body)
         IN IsDecoder(checks) /\ (Accepts(checks) <=> B!Valid(B!schemas[route], body))
                              /\ (Agrees(checks) <=> B!Valid(B!schemas[route], body))
<1>1. B!invalidBody[route] # "none"
  BY DEF B!Routes, B!schemas, B!invalidBody
<1>. QED
  BY <1>1, OneCheck DEF B!decodeSchemaBacked, B!Shape

\* decodeProvisioningMode lets no mode contradict dryRun.
LEMMA ModeChecks ==
  ASSUME NEW mode, NEW dryRun
  PROVE  LET checks == B!decodeProvisioningMode(mode, dryRun)
         IN /\ IsDecoder(checks)
            /\ Accepts(checks) =>
                 /\ B!IsGiven(mode) \/ B!IsTrue(dryRun)
                 /\ B!Is(mode, "dry_run") => B!IsTrue(dryRun)
                 /\ B!Is(mode, "enforcement") => dryRun = B!Bool(FALSE)
                 /\ B!IsGiven(mode) => B!IsOneOf(mode, B!modes)
            /\ (B!IsGiven(mode) => B!IsOneOf(mode, B!modes)) => Agrees(checks)
<1>. DEFINE c1 == B!Check(B!IsGiven(mode) \/ B!IsTrue(dryRun), "DRY_RUN_REQUIRED")
            c2 == B!Check(B!Is(mode, "dry_run") => B!IsTrue(dryRun), "DRY_RUN_REQUIRED")
            c3 == B!Check(B!Is(mode, "enforcement") => dryRun = B!Bool(FALSE), "ENFORCEMENT_DRY_RUN_FALSE_REQUIRED")
            c4 == B!Shape(B!IsGiven(mode) => B!IsOneOf(mode, B!modes), "INVALID_PROVISIONING_MODE")
<1>1. B!decodeProvisioningMode(mode, dryRun) = <<c1, c2, c3, c4>>
  BY DEF B!decodeProvisioningMode
<1>2. /\ c1.code # "none" /\ c2.code # "none" /\ c3.code # "none" /\ c4.code # "none"
      /\ ~c1.repeats /\ ~c2.repeats /\ ~c3.repeats
      /\ c1.holds <=> (B!IsGiven(mode) \/ B!IsTrue(dryRun))
      /\ c2.holds <=> (B!Is(mode, "dry_run") => B!IsTrue(dryRun))
      /\ c3.holds <=> (B!Is(mode, "enforcement") => dryRun = B!Bool(FALSE))
      /\ c4.holds <=> (B!IsGiven(mode) => B!IsOneOf(mode, B!modes))
  BY DEF B!Check, B!Shape
<1>. HIDE DEF c1, c2, c3, c4
<1>3. <<c1, c2, c3, c4>> = <<c1, c2>> \o <<c3, c4>>
  OBVIOUS
<1>4. /\ IsDecoder(<<c1, c2>> \o <<c3, c4>>)
      /\ Accepts(<<c1, c2>> \o <<c3, c4>>) => c1.holds /\ c2.holds /\ c3.holds /\ c4.holds
      /\ c4.holds => Agrees(<<c1, c2>> \o <<c3, c4>>)
  <2>1. IsDecoder(<<c1, c2>>) /\ IsDecoder(<<c3, c4>>)
    BY <1>2, TwoChecks
  <2>. QED
    BY <1>2, <2>1, TwoChecks, BothAreMade
<1>. QED
  BY <1>1, <1>2, <1>3, <1>4

\* decodeProvisioningApproval refuses dates that cannot be read.
LEMMA ApprovalChecks ==
  ASSUME NEW approval
  PROVE  LET checks == B!decodeProvisioningApproval(approval)
             expiresAt == B!Field(approval, "expiresAt")
         IN /\ IsDecoder(checks)
            /\ Accepts(checks) /\ B!IsGiven(approval) =>
                 /\ B!DateParses(B!Field(approval, "approvedAt"))
                 /\ B!IsGiven(expiresAt) => B!DateParses(expiresAt)
            /\ (B!IsGiven(approval) => B!Valid3(B!provisioningApprovalSchema, approval)) => Agrees(checks)
<1>. DEFINE expiresAt == B!Field(approval, "expiresAt")
            reason == B!Field(approval, "reason")
            shape == B!isProvisioningApproval(approval) /\ \A y \in {expiresAt, reason} : B!IsGiven(y) => y.is = "string"
            readable == B!DateParses(B!Field(approval, "approvedAt")) /\ (B!IsGiven(expiresAt) => B!DateParses(expiresAt))
            c1 == B!Shape(B!IsGiven(approval) => shape, "INVALID_PROVISIONING_APPROVAL")
            c2 == B!Check(B!IsGiven(approval) => readable, "INVALID_PROVISIONING_APPROVAL")
<1>1. B!decodeProvisioningApproval(approval) = <<c1, c2>>
  BY DEF B!decodeProvisioningApproval
<1>2. B!Valid3(B!provisioningApprovalSchema, approval) => shape
  BY ApprovalIsComplete, GivenOrAbsent
<1>3. /\ c1.code # "none" /\ c2.code # "none" /\ ~c2.repeats
      /\ c1.holds <=> (B!IsGiven(approval) => shape)
      /\ c2.holds <=> (B!IsGiven(approval) => readable)
  <2>. HIDE DEF shape, readable
  <2>. QED
    BY DEF B!Check, B!Shape
<1>. HIDE DEF c1, c2, shape
<1>. QED
  BY <1>1, <1>2, <1>3, TwoChecks

\* decodeEnforcementControl refuses nothing that the schema accepts.
LEMMA ControlCheck ==
  ASSUME NEW control
  PROVE  LET checks == B!decodeEnforcementControl(control)
         IN /\ IsDecoder(checks)
            /\ (B!IsGiven(control) => B!Valid3(B!enforcementControlSchema, control)) => Agrees(checks)
<1>. DEFINE c == B!Shape(B!IsGiven(control) => B!isControl(control), "INVALID_ENFORCEMENT_CONTROL")
<1>1. c.code # "none" /\ (c.holds <=> (B!IsGiven(control) => B!isControl(control)))
  BY DEF B!Shape
<1>2. B!decodeEnforcementControl(control) = <<c>>
  BY DEF B!decodeEnforcementControl
<1>. HIDE DEF c
<1>. QED
  BY <1>1, <1>2, OneCheck, ControlIsComplete

\* Nor do the checks of a text.
LEMMA TextCheck ==
  ASSUME NEW y, NEW code, code # "none"
  PROVE  LET checks == B!textWhenGiven(y, code)
         IN IsDecoder(checks) /\ ((B!IsGiven(y) => B!IsText(y)) => Agrees(checks))
<1>. DEFINE c == B!Shape(B!IsGiven(y) => B!IsText(y), code)
<1>1. c.code # "none" /\ (c.holds <=> (B!IsGiven(y) => B!IsText(y)))
  BY DEF B!Shape
<1>2. B!textWhenGiven(y, code) = <<c>>
  BY DEF B!textWhenGiven
<1>. HIDE DEF c
<1>. QED
  BY <1>1, <1>2, OneCheck

\* A check of what no schema says
LEMMA OwnCheck ==
  ASSUME NEW holds \in BOOLEAN, NEW code, code # "none"
  PROVE  /\ IsDecoder(<<B!Check(holds, code)>>) /\ Agrees(<<B!Check(holds, code)>>)
         /\ Accepts(<<B!Check(holds, code)>>) <=> holds
<1>. DEFINE c == B!Check(holds, code)
<1>1. c.code # "none" /\ ~c.repeats /\ (c.holds <=> holds)
  BY DEF B!Check
<1>2. IsDecoder(<<c>>) /\ Agrees(<<c>>) /\ (Accepts(<<c>>) <=> holds)
  <2>. HIDE DEF c
  <2>. QED
    BY <1>1, OneCheck
<1>. QED
  BY <1>2

\* A check of what the schema says
LEMMA ShapeCheck ==
  ASSUME NEW holds \in BOOLEAN, NEW code, code # "none"
  PROVE  /\ IsDecoder(<<B!Shape(holds, code)>>)
         /\ Accepts(<<B!Shape(holds, code)>>) <=> holds
         /\ Agrees(<<B!Shape(holds, code)>>) <=> holds
<1>. DEFINE c == B!Shape(holds, code)
<1>1. c.code # "none" /\ c.repeats /\ (c.holds <=> holds)
  BY DEF B!Shape
<1>2. IsDecoder(<<c>>) /\ (Accepts(<<c>>) <=> holds) /\ (Agrees(<<c>>) <=> holds)
  <2>. HIDE DEF c
  <2>. QED
    BY <1>1, OneCheck
<1>. QED
  BY <1>2

\* What is given in a valid body is valid, and so is what its schema requires.
LEMMA GivenIsValid ==
  ASSUME NEW required, NEW properties, NEW body, B!Valid(B!object(required, properties), body)
  PROVE  /\ body.is = "object"
         /\ \A f : B!IsGiven(B!Field(body, f)) => f \in DOMAIN properties /\ B!Valid3(properties[f], B!Field(body, f))
         /\ \A f \in required : B!Valid3(properties[f], B!Field(body, f))
<1>1. /\ body.is = "object" /\ required \subseteq DOMAIN body.f /\ DOMAIN body.f \subseteq DOMAIN properties
      /\ \A f \in DOMAIN body.f : B!Valid3(properties[f], body.f[f])
  BY BodyIsObject
<1>. QED
  BY <1>1 DEF B!Field, B!IsGiven, B!Absent

\* What a valid text and a valid member of an enumeration are.
LEMMA ScalarFields ==
  ASSUME NEW y
  PROVE  /\ B!Valid3(B!text, y) => B!IsText(y)
         /\ \A texts : B!Valid3(B!one(texts), y) => B!IsOneOf(y, texts)
<1>1. B!Valid3(B!text, y) => B!ValidScalar(B!text, y)
  BY ScalarIsValid DEF B!text
<1>2. ASSUME NEW texts
      PROVE  B!Valid3(B!one(texts), y) => B!ValidScalar(B!one(texts), y)
  BY ScalarIsValid DEF B!one
<1>3. B!ValidScalar(B!text, y) => B!IsText(y)
  BY DEF B!ValidScalar, B!text
<1>4. ASSUME NEW texts
      PROVE  B!ValidScalar(B!one(texts), y) => B!IsOneOf(y, texts)
  BY DEF B!ValidScalar, B!one
<1>. QED
  BY <1>1, <1>2, <1>3, <1>4

\* A route whose body has an approval and a control
TakesAnApproval(body) ==
  /\ B!IsGiven(B!Field(body, "mode")) => B!IsOneOf(B!Field(body, "mode"), B!modes)
  /\ B!IsGiven(B!Field(body, "approval")) => B!Valid3(B!provisioningApprovalSchema, B!Field(body, "approval"))
  /\ B!IsGiven(B!Field(body, "control")) => B!Valid3(B!enforcementControlSchema, B!Field(body, "control"))

\* The fields of a valid request for a plan that its decoder looks at again,
LEMMA PlanFields ==
  ASSUME NEW body, B!Valid(B!schemas["provisioningPlan"], body)
  PROVE  /\ TakesAnApproval(body)
         /\ \A f \in {"grantId", "readinessReportId"} : B!IsGiven(B!Field(body, f)) => B!IsText(B!Field(body, f))
<1>. DEFINE texts == {"subjectId", "action", "resourceId", "grantId", "readinessReportId"}
            own == [context |-> B!jsonObject, mode |-> B!one(B!modes), dryRun |-> B!boolean, connectorId |-> B!anyString,
                    approval |-> B!provisioningApprovalSchema, control |-> B!enforcementControlSchema]
            properties == B!Fields(own, B!each(texts, B!text))
<1>1. B!schemas["provisioningPlan"] = B!object({"dryRun"}, properties)
  BY DEF B!schemas
<1>2. \A f : B!IsGiven(B!Field(body, f)) => B!Valid3(properties[f], B!Field(body, f))
  <2>. HIDE DEF properties
  <2>. QED
    BY <1>1, GivenIsValid
<1>3. /\ properties["mode"] = B!one(B!modes) /\ properties["approval"] = B!provisioningApprovalSchema
      /\ properties["control"] = B!enforcementControlSchema
      /\ properties["grantId"] = B!text /\ properties["readinessReportId"] = B!text
  BY DEF B!Fields, B!each
<1>. HIDE DEF properties
<1>. QED
  BY <1>2, <1>3, ScalarFields DEF TakesAnApproval

\* of a valid request for a job,
LEMMA JobFields ==
  ASSUME NEW body, B!Valid(B!schemas["provisioningJob"], body)
  PROVE  /\ TakesAnApproval(body)
         /\ \A f \in {"planId", "approverId"} : B!IsText(B!Field(body, f))
<1>. DEFINE properties ==
              [planId |-> B!text, approverId |-> B!text, mode |-> B!one(B!modes), dryRun |-> B!boolean,
               approval |-> B!provisioningApprovalSchema, control |-> B!enforcementControlSchema]
<1>1. B!schemas["provisioningJob"] = B!object({"planId", "approverId"}, properties)
  BY DEF B!schemas
<1>2. /\ \A f : B!IsGiven(B!Field(body, f)) => B!Valid3(properties[f], B!Field(body, f))
      /\ \A f \in {"planId", "approverId"} : B!Valid3(properties[f], B!Field(body, f))
  <2>. HIDE DEF properties
  <2>. QED
    BY <1>1, GivenIsValid
<1>3. /\ properties["mode"] = B!one(B!modes) /\ properties["approval"] = B!provisioningApprovalSchema
      /\ properties["control"] = B!enforcementControlSchema
      /\ properties["planId"] = B!text /\ properties["approverId"] = B!text
  OBVIOUS
<1>. HIDE DEF properties
<1>. QED
  BY <1>2, <1>3, ScalarFields DEF TakesAnApproval

\* for a remediation of drift,
LEMMA RemediationFields ==
  ASSUME NEW body, B!Valid(B!schemas["driftRemediation"], body)
  PROVE  /\ B!Valid3(B!provisioningApprovalSchema, B!Field(body, "approval"))
         /\ B!isDriftAutoRepairPolicy(B!Field(body, "autoRepairPolicy"))
         /\ B!IsGiven(B!Field(body, "hookEvidence")) => B!isDriftHookEvidenceArray(B!Field(body, "hookEvidence"))
         /\ B!IsGiven(B!Field(body, "readinessReportId")) => B!IsText(B!Field(body, "readinessReportId"))
<1>. DEFINE properties ==
              [approval |-> B!provisioningApprovalSchema, autoRepairPolicy |-> B!driftAutoRepairPolicySchema,
               readinessReportId |-> B!text, hookEvidence |-> B!list(B!hookEvidenceSchema, 0)]
<1>1. B!schemas["driftRemediation"] = B!object({"approval", "autoRepairPolicy"}, properties)
  BY DEF B!schemas
<1>2. /\ \A f : B!IsGiven(B!Field(body, f)) => B!Valid3(properties[f], B!Field(body, f))
      /\ \A f \in {"approval", "autoRepairPolicy"} : B!Valid3(properties[f], B!Field(body, f))
  <2>. HIDE DEF properties
  <2>. QED
    BY <1>1, GivenIsValid
<1>3. /\ properties["approval"] = B!provisioningApprovalSchema
      /\ properties["autoRepairPolicy"] = B!driftAutoRepairPolicySchema
      /\ properties["readinessReportId"] = B!text /\ properties["hookEvidence"] = B!list(B!hookEvidenceSchema, 0)
  OBVIOUS
<1>. HIDE DEF properties
<1>. QED
  BY <1>2, <1>3, ScalarFields, PolicyIsComplete, HooksAreComplete

\* for a readiness check,
LEMMA ReadinessFields ==
  ASSUME NEW body, B!Valid(B!schemas["enforcementReadiness"], body)
  PROVE  /\ B!Valid3(B!enforcementControlSchema, B!Field(body, "control"))
         /\ B!IsGiven(B!Field(body, "mode")) => B!Is(B!Field(body, "mode"), "enforcement")
         /\ \A f \in {"requiredApproverRole", "changeTicketPattern"} :
              B!IsGiven(B!Field(body, f)) => B!IsText(B!Field(body, f))
<1>. DEFINE properties ==
              [mode |-> B!one({"enforcement"}), control |-> B!enforcementControlSchema, requiredApproverRole |-> B!text,
               changeTicketPattern |-> B!text]
<1>1. B!schemas["enforcementReadiness"] = B!object({"control"}, properties)
  BY DEF B!schemas
<1>2. /\ \A f : B!IsGiven(B!Field(body, f)) => B!Valid3(properties[f], B!Field(body, f))
      /\ B!Valid3(properties["control"], B!Field(body, "control"))
  <2>. HIDE DEF properties
  <2>. QED
    BY <1>1, GivenIsValid
<1>3. /\ properties["mode"] = B!one({"enforcement"}) /\ properties["control"] = B!enforcementControlSchema
      /\ properties["requiredApproverRole"] = B!text /\ properties["changeTicketPattern"] = B!text
  OBVIOUS
<1>4. \A y : B!IsOneOf(y, {"enforcement"}) => B!Is(y, "enforcement")
  BY DEF B!IsOneOf, B!Is
<1>. HIDE DEF properties
<1>. QED
  BY <1>2, <1>3, <1>4, ScalarFields

\* and for a sync.
LEMMA SyncFields ==
  ASSUME NEW body, B!Valid(B!schemas["connectorSync"], body)
  PROVE  B!Is(B!Field(body, "mode"), "read_only") /\ B!IsGiven(B!Field(body, "mode"))
<1>1. B!Valid3(B!one({"read_only"}), B!Field(body, "mode"))
  <2>. DEFINE properties == [mode |-> B!one({"read_only"})]
  <2>1. B!schemas["connectorSync"] = B!object({"mode"}, properties)
    BY DEF B!schemas
  <2>2. B!Valid3(properties["mode"], B!Field(body, "mode"))
    <3>. HIDE DEF properties
    <3>. QED
      BY <2>1, GivenIsValid
  <2>. QED
    BY <2>2
<1>. QED
  BY <1>1, ScalarFields DEF B!IsOneOf, B!Is, B!IsGiven

\* The decoder of a plan accepts only what its schema and each of its parts accept.
LEMMA PlanDecoder ==
  ASSUME NEW body
  PROVE  LET checks == B!decodeProvisioningPlanRequest(body)
         IN /\ IsDecoder(checks)
            /\ Accepts(checks) =>
                 /\ B!Valid(B!schemas["provisioningPlan"], body)
                 /\ Accepts(B!decodeProvisioningMode(B!Field(body, "mode"), B!Field(body, "dryRun")))
                 /\ Accepts(B!decodeProvisioningApproval(B!Field(body, "approval")))
                 /\ B!IsGiven(B!Field(body, "grantId")) \/ B!decodeProvisioningDecisionRequest(body)
            /\ B!Valid(B!schemas["provisioningPlan"], body) => Agrees(checks)
<1>. DEFINE schema == B!decodeSchemaBacked("provisioningPlan", body)
            mode == B!decodeProvisioningMode(B!Field(body, "mode"), B!Field(body, "dryRun"))
            approval == B!decodeProvisioningApproval(B!Field(body, "approval"))
            control == B!decodeEnforcementControl(B!Field(body, "control"))
            report == B!decodeReadinessReportId(B!Field(body, "readinessReportId"))
            connector == B!decodeConnectorId(B!Field(body, "connectorId"))
            given == B!IsGiven(B!Field(body, "grantId")) \/ B!decodeProvisioningDecisionRequest(body)
            target == <<B!Check(given, "INVALID_PROVISIONING_REQUEST")>>
            valid == B!Valid(B!schemas["provisioningPlan"], body)
<1>1. B!decodeProvisioningPlanRequest(body) = schema \o mode \o approval \o control \o report \o connector \o target
  BY DEF B!decodeProvisioningPlanRequest
<1>2. IsDecoder(schema) /\ (Accepts(schema) <=> valid) /\ (Agrees(schema) <=> valid)
  BY BodyCheck DEF B!Routes, B!schemas
<1>3. IsDecoder(mode) /\ (valid => Agrees(mode))
  BY ModeChecks, PlanFields DEF TakesAnApproval
<1>4. IsDecoder(approval) /\ (valid => Agrees(approval))
  BY ApprovalChecks, PlanFields DEF TakesAnApproval
<1>5. IsDecoder(control) /\ (valid => Agrees(control))
  BY ControlCheck, PlanFields DEF TakesAnApproval
<1>6. IsDecoder(report) /\ (valid => Agrees(report))
  BY TextCheck, PlanFields DEF B!decodeReadinessReportId
<1>7. IsDecoder(connector) /\ Agrees(connector)
  BY OwnCheck DEF B!decodeConnectorId
<1>8. IsDecoder(target) /\ Agrees(target) /\ (Accepts(target) <=> given)
  BY OwnCheck
<1>9. LET checks == schema \o mode \o approval \o control \o report \o connector \o target
      IN /\ IsDecoder(checks)
         /\ Accepts(checks) => valid /\ Accepts(mode) /\ Accepts(approval) /\ given
         /\ valid => Agrees(checks)
  <2>. HIDE DEF schema, mode, approval, control, report, connector, target, valid, given
  <2>. DEFINE c1 == schema \o mode
              c2 == c1 \o approval
              c3 == c2 \o control
              c4 == c3 \o report
              c5 == c4 \o connector
  <2>1. IsDecoder(c1) /\ (Accepts(c1) => valid /\ Accepts(mode)) /\ (valid => Agrees(c1))
    BY <1>2, <1>3, BothAreMade
  <2>. HIDE DEF c1
  <2>2. IsDecoder(c2) /\ (Accepts(c2) => Accepts(c1) /\ Accepts(approval)) /\ (valid => Agrees(c2))
    BY <1>4, <2>1, BothAreMade
  <2>. HIDE DEF c2
  <2>3. IsDecoder(c3) /\ (Accepts(c3) => Accepts(c2)) /\ (valid => Agrees(c3))
    BY <1>5, <2>2, BothAreMade
  <2>. HIDE DEF c3
  <2>4. IsDecoder(c4) /\ (Accepts(c4) => Accepts(c3)) /\ (valid => Agrees(c4))
    BY <1>6, <2>3, BothAreMade
  <2>. HIDE DEF c4
  <2>5. IsDecoder(c5) /\ (Accepts(c5) => Accepts(c4)) /\ (valid => Agrees(c5))
    BY <1>7, <2>4, BothAreMade
  <2>. HIDE DEF c5
  <2>6. /\ IsDecoder(c5 \o target) /\ (Accepts(c5 \o target) => Accepts(c5) /\ given)
        /\ valid => Agrees(c5 \o target)
    BY <1>8, <2>5, BothAreMade
  <2>. QED
    BY <2>1, <2>2, <2>3, <2>4, <2>5, <2>6 DEF c1, c2, c3, c4, c5
<1>. QED
  BY <1>1, <1>2, <1>9

\* So does the decoder of a job, whatever it looks at before the schema.
LEMMA JobDecoder ==
  ASSUME NEW body
  PROVE  LET checks == B!decodeProvisioningJobRequest(body)
         IN /\ IsDecoder(checks)
            /\ Accepts(checks) =>
                 /\ B!Valid(B!schemas["provisioningJob"], body)
                 /\ Accepts(B!decodeProvisioningMode(B!Field(body, "mode"), B!Field(body, "dryRun")))
                 /\ Accepts(B!decodeProvisioningApproval(B!Field(body, "approval")))
            /\ B!Valid(B!schemas["provisioningJob"], body) => Agrees(checks)
<1>. DEFINE hasPlan == body.is = "object" => B!IsText(B!Field(body, "planId"))
            hasApprover == body.is = "object" => B!IsText(B!Field(body, "approverId"))
            first == B!Shape(hasPlan, "MISSING_PLAN_ID")
            second == B!Shape(hasApprover, "MISSING_APPROVER_ID")
            schema == B!decodeSchemaBacked("provisioningJob", body)
            mode == B!decodeProvisioningMode(B!Field(body, "mode"), B!Field(body, "dryRun"))
            approval == B!decodeProvisioningApproval(B!Field(body, "approval"))
            control == B!decodeEnforcementControl(B!Field(body, "control"))
            valid == B!Valid(B!schemas["provisioningJob"], body)
<1>1. B!decodeProvisioningJobRequest(body) = <<first, second>> \o schema \o mode \o approval \o control
  BY DEF B!decodeProvisioningJobRequest
<1>2. IsDecoder(schema) /\ (Accepts(schema) <=> valid) /\ (Agrees(schema) <=> valid)
  BY BodyCheck DEF B!Routes, B!schemas
<1>3. IsDecoder(mode) /\ (valid => Agrees(mode))
  BY ModeChecks, JobFields DEF TakesAnApproval
<1>4. IsDecoder(approval) /\ (valid => Agrees(approval))
  BY ApprovalChecks, JobFields DEF TakesAnApproval
<1>5. IsDecoder(control) /\ (valid => Agrees(control))
  BY ControlCheck, JobFields DEF TakesAnApproval
<1>6. first.code # "none" /\ second.code # "none" /\ (valid => first.holds /\ second.holds)
  BY JobFields DEF B!Shape
<1>7. LET checks == <<first, second>> \o schema \o mode \o approval \o control
      IN /\ IsDecoder(checks)
         /\ Accepts(checks) => valid /\ Accepts(mode) /\ Accepts(approval)
         /\ valid => Agrees(checks)
  <2>. HIDE DEF first, second, schema, mode, approval, control, valid
  <2>. DEFINE c1 == <<first, second>>
              c2 == c1 \o schema
              c3 == c2 \o mode
              c4 == c3 \o approval
  <2>1. IsDecoder(c1) /\ (valid => Agrees(c1))
    BY <1>6, TwoChecks
  <2>. HIDE DEF c1
  <2>2. IsDecoder(c2) /\ (Accepts(c2) => valid) /\ (valid => Agrees(c2))
    BY <1>2, <2>1, BothAreMade
  <2>. HIDE DEF c2
  <2>3. IsDecoder(c3) /\ (Accepts(c3) => Accepts(c2) /\ Accepts(mode)) /\ (valid => Agrees(c3))
    BY <1>3, <2>2, BothAreMade
  <2>. HIDE DEF c3
  <2>4. IsDecoder(c4) /\ (Accepts(c4) => Accepts(c3) /\ Accepts(approval)) /\ (valid => Agrees(c4))
    BY <1>4, <2>3, BothAreMade
  <2>. HIDE DEF c4
  <2>5. IsDecoder(c4 \o control) /\ (Accepts(c4 \o control) => Accepts(c4)) /\ (valid => Agrees(c4 \o control))
    BY <1>5, <2>4, BothAreMade
  <2>. QED
    BY <2>1, <2>2, <2>3, <2>4, <2>5 DEF c1, c2, c3, c4
<1>. QED
  BY <1>1, <1>2, <1>7

\* A schema that names no control
HasNoControl(schema) ==
  \E required, properties : schema = B!object(required, properties) /\ "control" \notin DOMAIN properties

\* An object whose properties do not name it is one.
LEMMA ObjectWithoutControl ==
  ASSUME NEW required, NEW properties, "control" \notin DOMAIN properties
  PROVE  HasNoControl(B!object(required, properties))
BY DEF HasNoControl

\* Only a plan, a job and a readiness check have a control.
LEMMA OthersHaveNoControl ==
  ASSUME NEW route \in B!Routes \ {"provisioningPlan", "provisioningJob", "enforcementReadiness"},
         NEW body, B!Valid(B!schemas[route], body)
  PROVE  ~B!IsGiven(B!Field(body, "control"))
<1>1. HasNoControl(B!subjectSchema)
  BY ObjectWithoutControl DEF B!subjectSchema, B!Fields, B!each
<1>2. HasNoControl(B!resourceSchema)
  BY ObjectWithoutControl DEF B!resourceSchema, B!Fields, B!each
<1>3. HasNoControl(B!relationshipSchema)
  BY ObjectWithoutControl DEF B!relationshipSchema, B!Fields, B!each
<1>4. HasNoControl(B!decisionRequestSchema)
  BY ObjectWithoutControl DEF B!decisionRequestSchema, B!Fields, B!each
<1>5. CASE route \in {"subject", "resource", "relationship", "decisionRequest"}
  <2>1. B!schemas[route] \in {B!subjectSchema, B!resourceSchema, B!relationshipSchema, B!decisionRequestSchema}
    BY <1>5 DEF B!schemas
  <2>. QED
    BY <1>1, <1>2, <1>3, <1>4, <2>1, GivenIsValid DEF HasNoControl
<1>6. CASE route \in {"policyPublish", "policyRollback"}
  <2>1. HasNoControl(B!schemas["policyPublish"])
    BY ObjectWithoutControl DEF B!schemas, B!each
  <2>2. HasNoControl(B!schemas["policyRollback"])
    BY ObjectWithoutControl DEF B!schemas, B!each
  <2>. QED
    BY <1>6, <2>1, <2>2, GivenIsValid DEF HasNoControl
<1>7. CASE route \in {"connectorSync", "decisionBatch", "driftRemediation", "policyDraft", "reconciliationRun"}
  <2>1. HasNoControl(B!schemas["connectorSync"]) /\ HasNoControl(B!schemas["decisionBatch"])
    BY ObjectWithoutControl DEF B!schemas
  <2>2. HasNoControl(B!schemas["driftRemediation"])
    BY ObjectWithoutControl DEF B!schemas
  <2>3. HasNoControl(B!schemas["policyDraft"]) /\ HasNoControl(B!schemas["reconciliationRun"])
    BY ObjectWithoutControl DEF B!schemas
  <2>. QED
    BY <1>7, <2>1, <2>2, <2>3, GivenIsValid DEF HasNoControl
<1>. QED
  BY <1>5, <1>6, <1>7 DEF B!Routes, B!schemas

\* The decoder of a remediation repeats the schema,
LEMMA RemediationDecoder ==
  ASSUME NEW body
  PROVE  LET checks == B!decodeDriftRemediationRequest(body)
             valid == B!Valid(B!schemas["driftRemediation"], body)
         IN IsDecoder(checks) /\ (Accepts(checks) => valid) /\ (valid => Agrees(checks))
<1>. DEFINE hooks == B!Field(body, "hookEvidence")
            invalid == B!invalidBody["driftRemediation"]
            schema == B!decodeSchemaBacked("driftRemediation", body)
            hooked == B!IsGiven(hooks) => B!isDriftHookEvidenceArray(hooks)
            first == B!Shape(B!isProvisioningApproval(B!Field(body, "approval")), invalid)
            second == B!Shape(B!isDriftAutoRepairPolicy(B!Field(body, "autoRepairPolicy")), invalid)
            third == B!Shape(hooked, invalid)
            report == B!decodeReadinessReportId(B!Field(body, "readinessReportId"))
            valid == B!Valid(B!schemas["driftRemediation"], body)
<1>1. B!decodeDriftRemediationRequest(body) = schema \o <<first, second, third>> \o report
  BY DEF B!decodeDriftRemediationRequest
<1>2. IsDecoder(schema) /\ (Accepts(schema) <=> valid) /\ (Agrees(schema) <=> valid)
  BY BodyCheck DEF B!Routes, B!schemas
<1>3. invalid # "none"
  BY DEF B!invalidBody
<1>4. /\ first.code # "none" /\ second.code # "none" /\ third.code # "none"
      /\ valid => first.holds /\ second.holds /\ third.holds
  <2>1. valid => B!isProvisioningApproval(B!Field(body, "approval"))
    BY RemediationFields, ApprovalIsComplete
  <2>2. valid => B!isDriftAutoRepairPolicy(B!Field(body, "autoRepairPolicy")) /\ hooked
    BY RemediationFields
  <2>. HIDE DEF valid, invalid, hooked
  <2>. QED
    BY <1>3, <2>1, <2>2 DEF B!Shape
<1>5. IsDecoder(report) /\ (valid => Agrees(report))
  BY TextCheck, RemediationFields DEF B!decodeReadinessReportId
<1>6. LET checks == schema \o <<first, second, third>> \o report
      IN IsDecoder(checks) /\ (Accepts(checks) => valid) /\ (valid => Agrees(checks))
  <2>. HIDE DEF schema, first, second, third, report, valid
  <2>1. <<first, second, third>> = <<first>> \o <<second, third>>
    OBVIOUS
  <2>2. IsDecoder(<<first>>) /\ IsDecoder(<<second, third>>) /\ (valid => Agrees(<<first>>) /\ Agrees(<<second, third>>))
    BY <1>4, OneCheck, TwoChecks
  <2>. DEFINE middle == <<first, second, third>>
              start == schema \o middle
  <2>3. IsDecoder(middle) /\ (valid => Agrees(middle))
    BY <2>1, <2>2, BothAreMade
  <2>. HIDE DEF middle
  <2>4. IsDecoder(start) /\ (Accepts(start) => valid) /\ (valid => Agrees(start))
    BY <1>2, <2>3, BothAreMade
  <2>. HIDE DEF start
  <2>5. IsDecoder(start \o report) /\ (Accepts(start \o report) => Accepts(start)) /\ (valid => Agrees(start \o report))
    BY <1>5, <2>4, BothAreMade
  <2>. QED
    BY <2>4, <2>5 DEF start, middle
<1>. QED
  BY <1>1, <1>6

\* that of a readiness check adds the safety of its expression,
LEMMA ReadinessDecoder ==
  ASSUME NEW body
  PROVE  LET checks == B!decodeEnforcementReadinessRequest(body)
             valid == B!Valid(B!schemas["enforcementReadiness"], body)
         IN IsDecoder(checks) /\ (Accepts(checks) => valid) /\ (valid => Agrees(checks))
<1>. DEFINE mode == B!Field(body, "mode")
            pattern == B!Field(body, "changeTicketPattern")
            control == B!Field(body, "control")
            moded == B!IsGiven(mode) => B!Is(mode, "enforcement")
            schema == B!decodeSchemaBacked("enforcementReadiness", body)
            first == <<B!Shape(moded, "INVALID_ENFORCEMENT_READINESS_MODE")>>
            role == B!textWhenGiven(B!Field(body, "requiredApproverRole"), "INVALID_APPROVER_ROLE")
            ticket == B!textWhenGiven(pattern, "INVALID_CHANGE_TICKET_PATTERN")
            safe == <<B!Check(B!isSafeChangeTicketPattern(pattern), "INVALID_CHANGE_TICKET_PATTERN")>>
            switches == B!decodeEnforcementControl(control)
            there == <<B!Shape(B!IsGiven(control), "INVALID_ENFORCEMENT_CONTROL")>>
            valid == B!Valid(B!schemas["enforcementReadiness"], body)
<1>1. B!decodeEnforcementReadinessRequest(body) = schema \o first \o role \o ticket \o safe \o (switches \o there)
  BY DEF B!decodeEnforcementReadinessRequest, B!decodeRequiredEnforcementControl
<1>2. IsDecoder(schema) /\ (Accepts(schema) <=> valid) /\ (Agrees(schema) <=> valid)
  BY BodyCheck DEF B!Routes, B!schemas
<1>3. IsDecoder(first) /\ (valid => Agrees(first))
  BY ShapeCheck, ReadinessFields
<1>4. IsDecoder(role) /\ (valid => Agrees(role)) /\ IsDecoder(ticket) /\ (valid => Agrees(ticket))
  BY TextCheck, ReadinessFields
<1>5. IsDecoder(safe) /\ Agrees(safe)
  BY OwnCheck DEF B!isSafeChangeTicketPattern
<1>6. IsDecoder(switches) /\ (valid => Agrees(switches))
  BY ControlCheck, ReadinessFields
<1>7. IsDecoder(there) /\ (valid => Agrees(there))
  <2>1. valid => B!isControl(control)
    BY ReadinessFields, ControlIsComplete
  <2>2. B!isControl(control) => B!IsGiven(control)
    <3>. HIDE DEF control
    <3>. QED
      BY DEF B!isControl, B!Flags, B!Field, B!IsGiven, B!Absent
  <2>. QED
    BY <2>1, <2>2, ShapeCheck DEF B!IsGiven
<1>8. LET checks == schema \o first \o role \o ticket \o safe \o (switches \o there)
      IN IsDecoder(checks) /\ (Accepts(checks) => valid) /\ (valid => Agrees(checks))
  <2>. HIDE DEF schema, first, role, ticket, safe, switches, there, valid
  <2>. DEFINE c1 == schema \o first
              c2 == c1 \o role
              c3 == c2 \o ticket
              c4 == c3 \o safe
              last == switches \o there
  <2>1. IsDecoder(c1) /\ (Accepts(c1) => valid) /\ (valid => Agrees(c1))
    BY <1>2, <1>3, BothAreMade
  <2>. HIDE DEF c1
  <2>2. IsDecoder(c2) /\ (Accepts(c2) => valid) /\ (valid => Agrees(c2))
    BY <1>4, <2>1, BothAreMade
  <2>. HIDE DEF c2
  <2>3. IsDecoder(c3) /\ (Accepts(c3) => valid) /\ (valid => Agrees(c3))
    BY <1>4, <2>2, BothAreMade
  <2>. HIDE DEF c3
  <2>4. IsDecoder(c4) /\ (Accepts(c4) => valid) /\ (valid => Agrees(c4))
    BY <1>5, <2>3, BothAreMade
  <2>. HIDE DEF c4
  <2>5. IsDecoder(last) /\ (valid => Agrees(last))
    BY <1>6, <1>7, BothAreMade
  <2>. HIDE DEF last
  <2>6. IsDecoder(c4 \o last) /\ (Accepts(c4 \o last) => valid) /\ (valid => Agrees(c4 \o last))
    BY <2>4, <2>5, BothAreMade
  <2>. QED
    BY <2>6 DEF c1, c2, c3, c4, last
<1>. QED
  BY <1>1, <1>8

\* and that of a sync the mode.
LEMMA SyncDecoder ==
  ASSUME NEW body
  PROVE  LET checks == B!decodeConnectorSyncRequest(body)
             valid == B!Valid(B!schemas["connectorSync"], body)
         IN IsDecoder(checks) /\ (Accepts(checks) => valid) /\ (valid => Agrees(checks))
<1>. DEFINE mode == B!Field(body, "mode")
            schema == B!decodeSchemaBacked("connectorSync", body)
            first == B!Shape(B!IsGiven(mode), "MISSING_CONNECTOR_MODE")
            second == B!Shape(B!Is(mode, "read_only"), "UNSUPPORTED_CONNECTOR_MODE")
            valid == B!Valid(B!schemas["connectorSync"], body)
<1>1. B!decodeConnectorSyncRequest(body) = schema \o <<first, second>>
  BY DEF B!decodeConnectorSyncRequest, B!decodeDiscoveryMode
<1>2. IsDecoder(schema) /\ (Accepts(schema) <=> valid) /\ (Agrees(schema) <=> valid)
  BY BodyCheck DEF B!Routes, B!schemas
<1>3. first.code # "none" /\ second.code # "none" /\ (valid => first.holds /\ second.holds)
  BY SyncFields DEF B!Shape
<1>4. LET checks == schema \o <<first, second>>
      IN IsDecoder(checks) /\ (Accepts(checks) => valid) /\ (valid => Agrees(checks))
  <2>. HIDE DEF schema, first, second, valid
  <2>1. IsDecoder(<<first, second>>) /\ (valid => Agrees(<<first, second>>))
    BY <1>3, TwoChecks
  <2>. QED
    BY <1>2, <2>1, BothAreMade
<1>. QED
  BY <1>1, <1>4

\* The decoder of every route takes only what its schema accepts, and refuses nothing of that
\* for its shape.
LEMMA DecoderOfRoute ==
  ASSUME NEW route \in B!Routes, NEW body
  PROVE  LET checks == B!checksOf(route, body)
             valid == B!Valid(B!schemas[route], body)
         IN IsDecoder(checks) /\ (Accepts(checks) => valid) /\ (valid => Agrees(checks))
<1>1. CASE route = "provisioningPlan"
  BY <1>1, PlanDecoder DEF B!checksOf
<1>2. CASE route = "provisioningJob"
  BY <1>2, JobDecoder DEF B!checksOf
<1>3. CASE route = "driftRemediation"
  BY <1>3, RemediationDecoder DEF B!checksOf
<1>4. CASE route = "enforcementReadiness"
  BY <1>4, ReadinessDecoder DEF B!checksOf
<1>5. CASE route = "connectorSync"
  BY <1>5, SyncDecoder DEF B!checksOf
<1>6. CASE route \notin {"provisioningPlan", "provisioningJob", "driftRemediation", "enforcementReadiness", "connectorSync"}
  <2>1. B!checksOf(route, body) = B!decodeSchemaBacked(route, body)
    BY <1>6 DEF B!checksOf
  <2>. QED
    BY <2>1, BodyCheck
<1>. QED
  BY <1>1, <1>2, <1>3, <1>4, <1>5, <1>6

\* So a body that its schema accepts is never refused for its shape.
LEMMA SchemasAndDecodersAgree ==
  ASSUME NEW route \in B!Routes, NEW body
  PROVE  B!SchemaAndDecoderAgree(route, body)
BY DecoderOfRoute DEF B!SchemaAndDecoderAgree, Agrees, Made

\* A mode that contradicts dryRun is refused, and enforcement is never what is left out.
LEMMA ModeIsMeant ==
  ASSUME NEW body, TakesAnApproval(body),
         Accepts(B!decodeProvisioningMode(B!Field(body, "mode"), B!Field(body, "dryRun")))
  PROVE  B!decodedMode(body) = "enforcement" <=> B!Field(body, "dryRun") # B!Bool(TRUE)
<1>. DEFINE mode == B!Field(body, "mode")
            dryRun == B!Field(body, "dryRun")
<1>1. /\ B!IsGiven(mode) \/ B!IsTrue(dryRun)
      /\ B!Is(mode, "dry_run") => B!IsTrue(dryRun)
      /\ B!Is(mode, "enforcement") => dryRun = B!Bool(FALSE)
  BY ModeChecks
<1>2. B!IsGiven(mode) => B!Is(mode, "dry_run") \/ B!Is(mode, "enforcement")
  BY DEF TakesAnApproval, B!IsOneOf, B!Is, B!modes
<1>3. B!Bool(FALSE) # B!Bool(TRUE) /\ (B!IsTrue(dryRun) <=> dryRun = B!Bool(TRUE))
  BY DEF B!Bool, B!IsTrue
<1>4. B!decodedMode(body) = "enforcement" <=> B!Is(mode, "enforcement")
  BY DEF B!decodedMode
<1>. QED
  BY <1>1, <1>2, <1>3, <1>4

\* An approval that is accepted can be compared with the clock.
LEMMA ApprovalIsComparable ==
  ASSUME NEW body, TakesAnApproval(body), B!IsGiven(B!Field(body, "approval")),
         Accepts(B!decodeProvisioningApproval(B!Field(body, "approval")))
  PROVE  LET approval == B!Field(body, "approval")
         IN /\ B!DateParses(B!Field(approval, "approvedAt"))
            /\ B!Field(approval, "expiresAt").v \in {"", "instant", "date"}
            /\ B!IsText(B!Field(approval, "approverId")) /\ B!IsText(B!Field(approval, "changeTicket"))
<1>. DEFINE approval == B!Field(body, "approval")
            expiresAt == B!Field(approval, "expiresAt")
<1>1. /\ B!DateParses(B!Field(approval, "approvedAt"))
      /\ B!IsGiven(expiresAt) => B!DateParses(expiresAt)
  BY ApprovalChecks
<1>2. ~B!IsGiven(expiresAt) => expiresAt.v = ""
  <2>1. B!Valid3(B!provisioningApprovalSchema, approval)
    BY DEF TakesAnApproval
  <2>2. expiresAt = B!Absent \/ B!IsText(expiresAt)
    BY <2>1, ApprovalIsComplete
  <2>. QED
    BY <2>2, GivenOrAbsent
<1>3. B!DateParses(expiresAt) => expiresAt.v \in {"instant", "date"}
  BY DEF B!DateParses, B!IsOneOf
<1>4. B!IsText(B!Field(approval, "approverId")) /\ B!IsText(B!Field(approval, "changeTicket"))
  BY ApprovalIsComplete DEF TakesAnApproval
<1>. QED
  BY <1>1, <1>2, <1>3, <1>4

\* So nothing reaches a handler that it cannot use.
LEMMA HandlersGetWhatTheyNeed ==
  ASSUME NEW route \in B!Routes, NEW body
  PROVE  B!HandlerGetsWhatItNeeds(route, body)
<1>. DEFINE approval == B!Field(body, "approval")
            control == B!Field(body, "control")
<1>. SUFFICES ASSUME B!decode(route, body) = "none"
              PROVE  /\ route \in {"provisioningPlan", "provisioningJob"} =>
                          /\ B!decodedMode(body) = "enforcement" <=> B!Field(body, "dryRun") # B!Bool(TRUE)
                          /\ B!IsGiven(approval) =>
                               /\ B!DateParses(B!Field(approval, "approvedAt"))
                               /\ B!Field(approval, "expiresAt").v \in {"", "instant", "date"}
                               /\ B!IsText(B!Field(approval, "approverId")) /\ B!IsText(B!Field(approval, "changeTicket"))
                     /\ B!IsGiven(control) \/ route = "enforcementReadiness" => DOMAIN control.f = B!Flags
                     /\ route = "provisioningPlan" =>
                          B!IsText(B!Field(body, "grantId")) \/ B!decodeProvisioningDecisionRequest(body)
  BY DEF B!HandlerGetsWhatItNeeds
<1>1. Accepts(B!checksOf(route, body)) /\ B!Valid(B!schemas[route], body)
  BY DecoderOfRoute, NothingIsRefused DEF B!decode
<1>2. ASSUME route = "provisioningPlan"
      PROVE  /\ TakesAnApproval(body)
             /\ Accepts(B!decodeProvisioningMode(B!Field(body, "mode"), B!Field(body, "dryRun")))
             /\ Accepts(B!decodeProvisioningApproval(approval))
             /\ B!IsText(B!Field(body, "grantId")) \/ B!decodeProvisioningDecisionRequest(body)
  <2>1. Accepts(B!decodeProvisioningPlanRequest(body)) /\ B!Valid(B!schemas["provisioningPlan"], body)
    BY <1>1, <1>2 DEF B!checksOf
  <2>. QED
    BY <2>1, PlanDecoder, PlanFields
<1>3. ASSUME route = "provisioningJob"
      PROVE  /\ TakesAnApproval(body)
             /\ Accepts(B!decodeProvisioningMode(B!Field(body, "mode"), B!Field(body, "dryRun")))
             /\ Accepts(B!decodeProvisioningApproval(approval))
  <2>1. Accepts(B!decodeProvisioningJobRequest(body)) /\ B!Valid(B!schemas["provisioningJob"], body)
    BY <1>1, <1>3 DEF B!checksOf
  <2>. QED
    BY <2>1, JobDecoder, JobFields
<1>4. ASSUME B!IsGiven(control) \/ route = "enforcementReadiness"
      PROVE  DOMAIN control.f = B!Flags
  <2>1. CASE route = "enforcementReadiness"
    BY <1>1, <2>1, ReadinessFields, ControlIsComplete
  <2>2. CASE route \in {"provisioningPlan", "provisioningJob"}
    BY <1>2, <1>3, <1>4, <2>2, ControlIsComplete DEF TakesAnApproval
  <2>3. CASE route \notin {"provisioningPlan", "provisioningJob", "enforcementReadiness"}
    BY <1>1, <1>4, <2>3, OthersHaveNoControl
  <2>. QED
    BY <2>1, <2>2, <2>3
<1>5. ASSUME route \in {"provisioningPlan", "provisioningJob"}
      PROVE  /\ B!decodedMode(body) = "enforcement" <=> B!Field(body, "dryRun") # B!Bool(TRUE)
             /\ B!IsGiven(approval) =>
                  /\ B!DateParses(B!Field(approval, "approvedAt"))
                  /\ B!Field(approval, "expiresAt").v \in {"", "instant", "date"}
                  /\ B!IsText(B!Field(approval, "approverId")) /\ B!IsText(B!Field(approval, "changeTicket"))
  <2>1. /\ TakesAnApproval(body)
        /\ Accepts(B!decodeProvisioningMode(B!Field(body, "mode"), B!Field(body, "dryRun")))
        /\ Accepts(B!decodeProvisioningApproval(approval))
    BY <1>2, <1>3, <1>5
  <2>. QED
    BY <2>1, ModeIsMeant, ApprovalIsComparable
<1>. QED
  BY <1>2, <1>4, <1>5

-----------------------------------------------------------------------------
(* The rules as a system: an input stays what it was when it was asked. *)

\* What is asked of a rule is one of the inputs that the rule is for.
InputInv ==
  /\ rule = "model" => input.model \in Model
  /\ rule = "caveat" => input.model \in CaveatModel /\ input.request \in Request
  /\ rule = "environment" => input.env \in Environment /\ input.app \in App
  /\ rule = "persistence" => input.descriptors \in Description
  /\ rule = "pilot" => input.pilot \in Pilot
  /\ rule = "graph" => input \in Tenant
  /\ rule = "aws" => input \in Organization
  /\ rule = "evidence" => input \in EvidenceInput
  /\ rule = "body" => input.route \in B!Routes

\* An input stays what it was.
LEMMA Asked == Spec => []InputInv
<1>1. Init => InputInv
  BY DEF Init, InputInv
<1>2. InputInv /\ [Next]_vars => InputInv'
  BY DEF InputInv, Next, vars
<1>. QED
  BY <1>1, <1>2, PTL DEF Spec

\* A policy model that validatePolicyModel accepts is compiled without losing what it
\* declares, and decides its caveats for every valid context: for all models and requests.
THEOREM ValidModelIsHonouredHolds == Spec => []ValidModelIsHonoured
<1>1. InputInv => ValidModelIsHonoured
  BY ModelCompilesAsDeclared, CaveatIsDecided DEF InputInv, ValidModelIsHonoured
<1>. QED
  BY <1>1, Asked, PTL

\* Accepted configurations guard what they expose, and nothing is ready by default, by the
\* order of its backends, or without two approvers: for all environments and manifests.
THEOREM ReadyIsEarnedHolds == Spec => []ReadyIsEarned
<1>1. InputInv => ReadyIsEarned
  BY GuardIsThere, ReadyIsDecided, OrderDoesNotMatter, NarrowPilot DEF InputInv, ReadyIsEarned
<1>. QED
  BY <1>1, Asked, PTL

\* The snapshots of both connectors neither dangle nor lose a fact without a warning, and
\* their confidence is earned: for all tenants and organizations.
THEOREM SnapshotIsFaithfulHolds == Spec => []SnapshotIsFaithful
<1>1. InputInv => SnapshotIsFaithful
  BY TenantDoesNotDangle, TenantLosesNothing, OrganizationDoesNotDangle, OrganizationLosesNothing, ConfidenceIsEarned
     DEF InputInv, SnapshotIsFaithful
<1>. QED
  BY <1>1, Asked, PTL

\* An exported package verifies with those who trust its signer, and nothing else that is
\* presented does, as long as nobody else signs with a trusted key: for all exports, changes
\* and verifiers.
THEOREM VerifiesExactlyAsSignedHolds == Spec => []VerifiesExactlyAsSigned
<1>1. InputInv => VerifiesExactlyAsSigned
  BY OnlySignedVerifies DEF InputInv, VerifiesExactlyAsSigned
<1>. QED
  BY <1>1, Asked, PTL

\* The schema and the decoder of a route agree on the shape of every body, and what reaches
\* a handler cannot ask for enforcement by leaving something out: for all routes and bodies.
THEOREM BodyReachesHandlerHolds == Spec => []BodyReachesHandler
<1>1. InputInv => BodyReachesHandler
  BY SchemasAndDecodersAgree, HandlersGetWhatTheyNeed DEF InputInv, BodyReachesHandler
<1>. QED
  BY <1>1, Asked, PTL
=============================================================================

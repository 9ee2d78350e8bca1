----------------------------- MODULE PolicyModel -----------------------------
(***************************************************************************)
(* Policy models (core/src/policy-model.ts): what validatePolicyModel asks *)
(* of a model, what compilePolicyModel makes of it, how the engine decides *)
(* a caveat (core/src/engine.ts), and the gates of the policy playground   *)
(* (core/src/policy-playground.ts).                                        *)
(*                                                                         *)
(* Lists whose order and repetitions matter are sequences, the others      *)
(* sets; None is an absent field.                                          *)
(***************************************************************************)
EXTENDS Naturals, Sequences, FiniteSets, SequencesExt

CONSTANT None

\* Action names are compared as written by the validation and in lower case by the engine.
toLowerCase(action) == IF action = "Read" THEN "read" ELSE action

Names(list) == {list[n].name : n \in DOMAIN list}
ActionNames(m) == Names(m.actions)
relationNamesOfKind(m, kind) == {r.name : r \in {q \in ToSet(m.relations) : q.kind = kind}}

---------------------------------------------------------------------------
(* compilePolicyModel *)

Traversable(m) == relationNamesOfKind(m, "membership") \cup relationNamesOfKind(m, "containment")

grantRelationsByAction(m, key) ==
  (UNION {a.grants : a \in {b \in ToSet(m.actions) : toLowerCase(b.name) = key}}) \cap relationNamesOfKind(m, "grant")
traversalRelationsByAction(m, key) ==
  {r.through : r \in {q \in m.inheritance : q.through \in Traversable(m) /\ key \in {toLowerCase(a) : a \in q.actions}}}
unscopedDenyRelations(m) ==
  {r.relation : r \in {q \in m.denies : q.actions = None}} \cap relationNamesOfKind(m, "deny")
\* Wrong: the rules without actions do not apply where a rule names the action.
scopedDeniesOnly(m, key) ==
  LET scoped == {r.relation : r \in {q \in m.denies : q.actions # None /\ key \in {toLowerCase(a) : a \in q.actions}}}
                \cap relationNamesOfKind(m, "deny")
  IN  IF scoped = {} THEN unscopedDenyRelations(m) ELSE scoped
denyRelationsByAction(m, key) ==
  unscopedDenyRelations(m) \cup
  ({r.relation : r \in {q \in m.denies : q.actions # None /\ key \in {toLowerCase(a) : a \in q.actions}}}
   \cap relationNamesOfKind(m, "deny"))

---------------------------------------------------------------------------
(* Values of a context: a date is a string that Date.parse accepts.        *)

ContextTypes == {"string", "number", "boolean", "datetime"}
valueMatchesType(value, type) == value.type = type \/ (type = "string" /\ value.type = "datetime")

operatorMatchesType(operator, type) ==
  CASE operator \in {"before", "after"} -> type = "datetime"
    [] operator \in {"less_than_or_equal", "greater_than_or_equal"} -> type = "number"
    [] operator \in {"equals", "one_of"} -> type # "datetime"
    [] OTHER -> FALSE

conditionValueMatchesType(value, type, operator) ==
  IF operator = "one_of"
  THEN value.type = "list" /\ value.items # {} /\ \A v \in value.items : valueMatchesType(v, type)
  ELSE value.type # "list" /\ valueMatchesType(value, type)

contextConstraintIsBounded(c, operator) ==
  \/ c.type = "boolean"
  \/ c.allowed \notin {None, {}}
  \/ c.type = "number" /\ c.min # None /\ c.max # None
  \/ c.type = "string" /\ c.maxLength # None /\ c.maxLength > 0
  \/ c.type = "datetime" /\ operator \in {"before", "after"}

---------------------------------------------------------------------------
(* validatePolicyModel: one operator for each check.                       *)

checkUnique(values) == \A i, j \in DOMAIN values : values[i] = values[j] => i = j
NamesOf(list) == [n \in DOMAIN list |-> list[n].name]

checkSchemaVersion(m) == m.schema = "v1"
checkKnownResourceTypes(m) ==
  \A t \in ToSet(m.types) : t.known /\ t.parents \subseteq Names(m.types) /\ t.classes # {}
checkRelations(m) == \A r \in ToSet(m.relations) : r.subjects # {} /\ r.objects # {}
checkActionMappings(m) ==
  \A a \in ToSet(m.actions) : a.grants # {} /\ a.grants \subseteq relationNamesOfKind(m, "grant")
checkInheritanceRules(m) ==
  /\ m.inheritance # {}
  /\ \A r \in m.inheritance :
       /\ r.relation \in Names(m.relations) /\ r.through \in Traversable(m)
       /\ r.actions # {} /\ r.actions \subseteq ActionNames(m)
checkDenyRules(m) ==
  /\ m.denies # {}
  /\ \A r \in m.denies :
       /\ r.relation \in relationNamesOfKind(m, "deny")
       /\ r.actions # None => r.actions # {} /\ r.actions \subseteq ActionNames(m)
checkTenantBoundary(m) == m.boundary.key # None /\ ~m.boundary.cross
checkClassificationConstraints(m) ==
  /\ m.classifications # {}
  /\ \A c \in m.classifications : c.name # None /\ c.actions # {} /\ c.actions \subseteq ActionNames(m)
checkContextConstraints(m) ==
  /\ checkUnique(NamesOf(m.context))
  /\ \A c \in ToSet(m.context) :
       /\ c.type \in ContextTypes
       /\ c.min # None /\ c.max # None => c.min <= c.max
       /\ c.maxLength # None => c.type = "string" /\ c.maxLength >= 1
       /\ c.allowed # None => \A v \in c.allowed : valueMatchesType(v, c.type)

validateCaveatCondition(m, c) ==
  /\ c.type \in ContextTypes /\ operatorMatchesType(c.operator, c.type)
  /\ conditionValueMatchesType(c.value, c.type, c.operator)
  /\ c.source = "context" => \E k \in ToSet(m.context) :
       k.name = c.key /\ k.type = c.type /\ k.required /\ k.auditable /\ contextConstraintIsBounded(k, c.operator)
  /\ c.source = "environment" => c.key = "evaluatedAt" /\ c.type = "datetime"
checkCaveats(m) ==
  /\ checkUnique(NamesOf(m.caveats))
  /\ \A c \in ToSet(m.caveats) :
       c.failClosed /\ c.reason # None /\ c.conditions # {} /\ \A q \in c.conditions : validateCaveatCondition(m, q)

\* The actions a conditional relationship is bound to.
Scoped(m, k) == IF k.actions = None THEN ActionNames(m) ELSE k.actions
checkConditionalRelationships(m) ==
  LET list == m.conditionals
  IN  /\ \A k \in ToSet(list) :
           /\ k.relation \in Names(m.relations)
           /\ k.caveats # {} /\ k.caveats \subseteq Names(m.caveats)
           /\ k.actions # None => k.actions # {} /\ k.actions \subseteq ActionNames(m)
      /\ \A i, j \in DOMAIN list :
           i # j /\ list[i].relation = list[j].relation => Scoped(m, list[i]) \cap Scoped(m, list[j]) = {}
checkExplanationPolicy(m) ==
  m.explanation # None =>
    m.explanation.keys \subseteq Names(m.context) /\ m.explanation.caveats \subseteq Names(m.caveats)
checkMigrations(m) ==
  LET from(n) == IF n = 1 THEN m.version ELSE m.migrations[n - 1].to
  IN  \A n \in DOMAIN m.migrations :
        /\ m.migrations[n].from = from(n)
        /\ m.migrations[n].to \notin {from(k) : k \in 1..n}
        /\ m.migrations[n].operations # {}

validatePolicyModel(m) ==
  /\ checkSchemaVersion(m)
  /\ checkUnique(NamesOf(m.types)) /\ checkUnique(NamesOf(m.relations)) /\ checkUnique(NamesOf(m.actions))
  /\ checkKnownResourceTypes(m) /\ checkRelations(m) /\ checkActionMappings(m)
  /\ checkInheritanceRules(m) /\ checkDenyRules(m) /\ checkTenantBoundary(m)
  /\ checkClassificationConstraints(m) /\ checkContextConstraints(m)
  /\ checkCaveats(m) /\ checkConditionalRelationships(m)
  /\ checkExplanationPolicy(m) /\ checkMigrations(m)

---------------------------------------------------------------------------
(* The engine's caveats (engine.ts): q is a request with its context, at   *)
(* is its evaluatedAt, attributes what the subject, the resource and the   *)
(* relationship carry.                                                     *)

resolveConditionValue(c, q) ==
  CASE c.source = "context" -> q.context[c.key]
    [] c.source = "environment" -> IF c.key = "evaluatedAt" THEN q.at ELSE None
    [] OTHER -> q.attributes[c.source]

compareCondition(actual, c) ==
  LET both(type) == actual.type = type /\ c.value.type = type
  IN  CASE c.operator = "equals" -> actual = c.value
        [] c.operator = "one_of" -> c.value.type = "list" /\ actual \in c.value.items
        [] c.operator = "less_than_or_equal" -> both("number") /\ actual.v <= c.value.v
        [] c.operator = "greater_than_or_equal" -> both("number") /\ actual.v >= c.value.v
        [] c.operator = "before" -> both("datetime") /\ actual.v < c.value.v
        [] c.operator = "after" -> both("datetime") /\ actual.v > c.value.v
        [] OTHER -> FALSE

evaluateCaveatCondition(c, q) ==
  LET actual == resolveConditionValue(c, q)
  IN  CASE actual = None -> "missing"
        [] actual # None /\ ~valueMatchesType(actual, c.type) -> "invalid"
        [] OTHER -> IF compareCondition(actual, c) THEN "pass" ELSE "fail"

\* The conditional relationships that match a step of the path.
Matching(m, q) ==
  {n \in DOMAIN m.conditionals : /\ m.conditionals[n].relation = q.relation
                                 /\ m.conditionals[n].actions = None \/ q.action \in m.conditionals[n].actions}
CaveatsOf(m, q) == {c \in ToSet(m.caveats) : \E n \in Matching(m, q) : c.name \in m.conditionals[n].caveats}

\* evaluateConditionalRelationshipCaveats for one step.
evaluateConditionalRelationshipCaveats(m, q) ==
  CASE Cardinality(Matching(m, q)) > 1 -> "DENY_POLICY_CAVEAT_INVALID"
    [] \E n \in Matching(m, q) : ~m.conditionals[n].caveats \subseteq Names(m.caveats) -> "DENY_POLICY_CAVEAT_INVALID"
    [] \E c \in CaveatsOf(m, q) : \E k \in c.conditions : evaluateCaveatCondition(k, q) # "pass" -> "DENY_POLICY_CAVEAT"
    [] OTHER -> "ALLOW"

\* findAllowPath and findDenyPath for a subject with the one relationship of the request.
Decision(m, q) ==
  CASE q.relation \in denyRelationsByAction(m, toLowerCase(q.action)) -> "DENY_EXPLICIT_OVERRIDE"
    [] q.relation \notin denyRelationsByAction(m, toLowerCase(q.action)) \cup grantRelationsByAction(m, toLowerCase(q.action))
         -> "DENY_NO_RELATIONSHIP_PATH"
    [] OTHER -> evaluateConditionalRelationshipCaveats(m, q)

---------------------------------------------------------------------------
(* The playground *)

\* validateRequestContext
validateRequestContext(m, q) ==
  \A c \in ToSet(m.context) :
    IF q.context[c.name] = None THEN ~c.required ELSE valueMatchesType(q.context[c.name], c.type)

\* evaluatePlaygroundRequest: the engine is not given the model, and decides by the default one.
evaluatePlaygroundRequest(default, m, q) ==
  IF validatePolicyModel(m) /\ validateRequestContext(m, q) THEN Decision(default, q) ELSE None

---------------------------------------------------------------------------

\* Nothing a model declares gets lost when it is compiled, if the model is valid: every
\* action has its grants and its inheritance, every deny rule denies the actions it speaks
\* of, all of them if it names none, and no relation grants and denies
\* (validatePolicyModel, compilePolicyModel).
ValidModelCompilesAsDeclared(m) ==
  validatePolicyModel(m) =>
    /\ \A a \in ToSet(m.actions) :
         /\ a.grants \subseteq grantRelationsByAction(m, toLowerCase(a.name))
         /\ grantRelationsByAction(m, toLowerCase(a.name)) \cap denyRelationsByAction(m, toLowerCase(a.name)) = {}
         /\ \A r \in m.denies :
              r.actions = None \/ a.name \in r.actions => r.relation \in denyRelationsByAction(m, toLowerCase(a.name))
    /\ \A r \in m.inheritance, a \in ActionNames(m) :
         a \in r.actions => r.through \in traversalRelationsByAction(m, toLowerCase(a))

\* A caveat of a valid model is decided: at most one conditional relationship matches, its
\* caveats exist, and for a context that passes validateRequestContext a condition on the
\* context or on the time is met or is not met, never missing or of the wrong type.
ValidCaveatIsDecided(m, q) ==
  validatePolicyModel(m) =>
    /\ evaluateConditionalRelationshipCaveats(m, q) # "DENY_POLICY_CAVEAT_INVALID"
    /\ validateRequestContext(m, q) =>
         \A c \in CaveatsOf(m, q) : \A k \in c.conditions :
           k.source \in {"context", "environment"} => evaluateCaveatCondition(k, q) \in {"pass", "fail"}

\* What docs/quickstart.md:107 says: a request that passes the gates is evaluated by the
\* model that was validated.
PlaygroundUsesItsModel(default, m, q) ==
  evaluatePlaygroundRequest(default, m, q) \in {None, Decision(m, q)}
=============================================================================

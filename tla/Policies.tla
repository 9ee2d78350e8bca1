------------------------------ MODULE Policies ------------------------------
(***************************************************************************)
(* The policy records of the API (api/src/runtime-policies.ts) and their   *)
(* idempotency records in the store: draft, validate, publish, roll back.  *)
(*                                                                         *)
(* The identifier of a policy is the hash of its draft, so a draft is its  *)
(* identifier. Each handler runs to its end without an await. A new        *)
(* release of the validation may reject a model that an earlier one passed.*)
(***************************************************************************)
EXTENDS Naturals, Sequences, SequencesExt

CONSTANTS
  Draft,       \* drafts, and the policies made of them
  Key,         \* idempotency keys that clients send
  None,
  MaxEvents    \* bound: policy events recorded

VARIABLES
  policies,    \* #policies: a summary [version, status], or None
  answers,     \* #policyIdempotencyRecords: the summaries by scope
  valid,       \* the drafts whose model passes the validation that is running
  trail        \* the policy events of the audit log

policyVars == <<policies, answers, valid, trail>>

Scopes == ({"create"} \X Key) \cup ({"publish", "rollback"} \X Draft \X Key)
Summary(d, version, status) == [id |-> d, version |-> version, status |-> status]

\* recordPolicyAudit
Record(type, d) == Len(trail) < MaxEvents /\ trail' = Append(trail, [type |-> type, policy |-> d])

Save(d, summary) == policies' = [policies EXCEPT ![d] = summary]
Remember(scope, summary) == answers' = [answers EXCEPT ![scope] = summary]

\* createPolicy: a key that was used answers with what it made.
CreatePolicy(d, k) ==
  LET summary == Summary(d, "draft", "draft")
  IN  /\ answers[<<"create", k>>] = None
      /\ Save(d, summary)
      /\ Remember(<<"create", k>>, summary)
      /\ Record("created", d)
      /\ UNCHANGED valid

\* The status validatePolicy leaves.
Revalidated(status, passes) ==
  CASE passes /\ status \in {"draft", "rolled_back", "validated"} -> "validated"
    [] ~passes /\ status = "validated" -> "draft"
    [] OTHER -> status

\* validatePolicy
ValidatePolicy(d) ==
  /\ policies[d] # None
  /\ Save(d, [policies[d] EXCEPT !.status = Revalidated(@, d \in valid)])
  /\ Record(IF d \in valid THEN "validated" ELSE "validation_failed", d)
  /\ UNCHANGED <<answers, valid>>

\* publishPolicy of a model that passes.
PublishPolicy(d, k) ==
  LET summary == Summary(d, "published", "published")
  IN  /\ answers[<<"publish", d, k>>] = None
      /\ policies[d] # None
      /\ policies[d].status = "validated" /\ d \in valid
      /\ Save(d, summary)
      /\ Remember(<<"publish", d, k>>, summary)
      /\ Record("published", d)
      /\ UNCHANGED valid

\* publishPolicy of a model that no longer passes: back to draft, and refused.
PublishRefused(d, k) ==
  /\ answers[<<"publish", d, k>>] = None
  /\ policies[d] # None
  /\ policies[d].status = "validated" /\ d \notin valid
  /\ Save(d, [policies[d] EXCEPT !.status = "draft"])
  /\ Record("validation_failed", d)
  /\ UNCHANGED <<answers, valid>>

\* Wrong: the policy keeps the status that may be published again.
RollbackToValidated(d, k, version) ==
  /\ policies[d] # None /\ policies[d].status = "published"
  /\ \E s \in Scopes : answers[s] # None /\ answers[s].id = d /\ answers[s].version = version /\ version # policies[d].version
  /\ Save(d, Summary(d, version, "validated"))
  /\ Remember(<<"rollback", d, k>>, Summary(d, version, "validated"))
  /\ Record("rolled_back", d)
  /\ UNCHANGED valid
\* rollbackPolicy to a version that some idempotency record of the policy remembers.
RollbackPolicy(d, k, version) ==
  /\ answers[<<"rollback", d, k>>] = None
  /\ policies[d] # None /\ policies[d].status = "published"
  /\ \E s \in Scopes : answers[s] # None /\ answers[s].id = d /\ answers[s].version = version /\ version # policies[d].version
  /\ Save(d, Summary(d, version, "rolled_back"))
  /\ Remember(<<"rollback", d, k>>, Summary(d, version, "rolled_back"))
  /\ Record("rolled_back", d)
  /\ UNCHANGED valid

\* A restart with another release of the validation.
Upgrade ==
  /\ valid' \in SUBSET Draft /\ valid' # valid
  /\ UNCHANGED <<policies, answers, trail>>

Init ==
  /\ policies = [d \in Draft |-> None]
  /\ answers = [s \in Scopes |-> None]
  /\ valid \in SUBSET Draft
  /\ trail = <<>>

Next ==
  \/ \E d \in Draft, k \in Key :
       CreatePolicy(d, k) \/ PublishPolicy(d, k) \/ PublishRefused(d, k)
       \/ \E version \in {"draft", "published"} : RollbackPolicy(d, k, version)
  \/ \E d \in Draft : ValidatePolicy(d)
  \/ Upgrade

Spec == Init /\ [][Next]_policyVars

---------------------------------------------------------------------------

\* The last event of these types about the policy, among the first n; 0 if there is none.
LastOf(types, d, n) ==
  LET at == {i \in 1..n : trail[i].type \in types /\ trail[i].policy = d}
  IN  IF at = {} THEN 0 ELSE CHOOSE i \in at : \A j \in at : j <= i

\* A policy is published exactly if the audit log ends its story with a publication, and
\* before every publication its model passed a validation made after it was last created,
\* rolled back, published or found invalid (publishPolicy, validatePolicy, createPolicy).
PublishedIsAccountedFor ==
  /\ \A d \in Draft :
       LET n == LastOf({"created", "published", "rolled_back"}, d, Len(trail))
       IN  (policies[d] # None /\ policies[d].status = "published") <=> (n > 0 /\ trail[n].type = "published")
  /\ \A n \in DOMAIN trail : trail[n].type = "published" =>
       LET d == trail[n].policy
       IN  LastOf({"validated"}, d, n - 1) > LastOf({"created", "rolled_back", "published", "validation_failed"}, d, n - 1)
=============================================================================

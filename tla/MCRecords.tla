------------------------------ MODULE MCRecords ------------------------------
(* Small instances of the records that the API keeps in memory: provisioning  *)
(* plans and jobs of one caller at a time, policies, relationships with the   *)
(* engine's cache, drift findings with their governance; the HTTP server; and *)
(* the sample connector. They share nothing, so a behaviour is about one of   *)
(* them.                                                                      *)
EXTENDS MCProvisioning, Records

CONSTANTS d1, i1, s1, s2, f1

VARIABLE part

provisioningVars == <<reports, sequence, plans, jobs, audit, writes, calls, clock>>
policyVars == <<policies, answers, valid, trail>>
relationshipVars == <<relationships, bySubject, revision, scopes, decided, time, upserts>>
driftVars == <<findings, runs, runNumber, finished, repairs, governance, exceptions, campaign, today>>
httpVars == <<serving, samples, events, failed, minute, arrived>>
sampleVars == <<scenarioIndex, warnings, warningKeys, sync>>

Reported(severity, action, hasGrant) == [severity |-> severity, action |-> action, hasGrant |-> hasGrant]
AutoRepair(allowed, max) == [allowed |-> allowed, max |-> max, live |-> FALSE]
Reports == {Reported(2, "revoke", TRUE), Reported(3, "exception", FALSE)}
AutoRepairs == {AutoRepair({"revoke"}, 2), AutoRepair({"revoke", "review"}, 3)}

Header(token) == [bearer |-> TRUE, token |-> token]
NoHeader == [bearer |-> FALSE, token |-> None]
Sent(method, segments, token, key, body) ==
  [method |-> method, segments |-> segments, auth |-> Header(token), key |-> key, body |-> body, query |-> "valid"]
Inputs ==
  {Sent("POST", <<"v1", "connectors", "c", "sync">>, "t1", None, "valid"),
   Sent("POST", <<"v1", "provisioning", "plans">>, "t2", k1, "valid"),
   Sent("POST", <<"v1", "provisioning", "jobs">>, "t1", None, "oversized"),
   Sent("PUT", <<"v1", "relationships">>, "t2", None, "valid"),
   [Sent("GET", <<"v1", "audit", "export">>, "t1", None, "valid") EXCEPT !.query = "invalid"],
   Sent("GET", <<"v1", "subjects", "s">>, "other", None, "valid"),
   [Sent("GET", <<"v1", "policies">>, None, None, "valid") EXCEPT !.auth = NoHeader],
   [Sent("GET", <<"v1", "health">>, None, None, "valid") EXCEPT !.auth = NoHeader]}

\* One key has a label, the other has not.
TwoKeys == <<[token |-> "t1", label |-> "operator"], [token |-> "t2", label |-> None]>>

\* A scenario that is cut at the first page, and one with a tombstone.
Page(next, deleted) == [next |-> next, retry |-> deleted, deleted |-> deleted]
Full == [y \in {"subjects", "resources", "relationships", "native_grants"} |-> <<Page(TRUE, FALSE), Page(FALSE, FALSE)>>]
Small == [Full EXCEPT !.resources = <<Page(FALSE, TRUE)>>, !.relationships = <<>>]
ThreeScenarios == <<Small, Full, Full>>

Parts == {"provisioning", "policies", "relationships", "drift", "http", "sample"}

MCInit ==
  /\ part \in Parts
  /\ Init
  /\ P!Init
  /\ R!Init
  /\ D!Init
  /\ H!Init
  /\ S!Init
  /\ part # "policies" => valid = {}
  /\ part # "drift" => findings = [f \in Finding |-> Null]

NextProvisioning ==
  part = "provisioning" /\ Next /\ UNCHANGED <<part, policyVars, relationshipVars, driftVars, httpVars, sampleVars>>
NextPolicies ==
  part = "policies" /\ P!Next /\ UNCHANGED <<part, provisioningVars, relationshipVars, driftVars, httpVars, sampleVars>>
NextRelationships ==
  part = "relationships" /\ R!Next /\ UNCHANGED <<part, provisioningVars, policyVars, driftVars, httpVars, sampleVars>>
NextDrift ==
  part = "drift" /\ D!Next /\ UNCHANGED <<part, provisioningVars, policyVars, relationshipVars, httpVars, sampleVars>>
NextHttp ==
  part = "http" /\ H!Next /\ UNCHANGED <<part, provisioningVars, policyVars, relationshipVars, driftVars, sampleVars>>
NextSample ==
  part = "sample" /\ S!Next
  /\ UNCHANGED <<part, provisioningVars, policyVars, relationshipVars, driftVars, httpVars>>
MCNext == NextProvisioning \/ NextPolicies \/ NextRelationships \/ NextDrift \/ NextHttp \/ NextSample

MCSpec == MCInit /\ [][MCNext]_<<part, provisioningVars, policyVars, relationshipVars, driftVars, httpVars, sampleVars>>
=============================================================================

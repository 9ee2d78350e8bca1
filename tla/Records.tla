------------------------------- MODULE Records -------------------------------
(***************************************************************************)
(* The records that the API keeps in memory, beside provisioning:          *)
(* reconciliation runs, drift findings and exceptions (Drift), policies    *)
(* (Policies), relationships with the engine's cache of them               *)
(* (RelationshipStore), the requests of the HTTP server with the names     *)
(* they act under (HttpApi), and the discovery runs over the sample        *)
(* connector (SampleConnector). They share no variable. MCRecords gives    *)
(* the constants values, RecordsProofs leaves them open.                   *)
(***************************************************************************)

CONSTANTS
  Finding, Task, DriftReport, Policy, RemediationDays, ExceptionDays, MaxDays, MaxRuns,
  Draft, PolicyKey, MaxEvents,
  Run, Scenarios, MaxPages,
  Id, Subject, MaxScopes, MaxWrites, MaxNoted, LastMoment,
  Input, ApiKeys, AppActor, Window, MaxRequests, MaxMinutes,
  Null  \* undefined

VARIABLES findings, runs, runNumber, finished, repairs, governance, exceptions, campaign, today,
          policies, answers, valid, trail,
          scenarioIndex, warnings, warningKeys, sync,
          relationships, bySubject, revision, scopes, decided, time, upserts,
          serving, samples, events, failed, minute, arrived

D == INSTANCE Drift WITH sequence <- runNumber, calls <- repairs, Call <- Task, Report <- DriftReport,
       MaxTime <- MaxDays, None <- Null
P == INSTANCE Policies WITH Key <- PolicyKey, None <- Null
S == INSTANCE SampleConnector
R == INSTANCE RelationshipStore WITH writes <- upserts, MaxTime <- LastMoment, None <- Null
H == INSTANCE HttpApi WITH calls <- serving, clock <- minute, Call <- Task, MaxTime <- MaxMinutes, None <- Null

\* publishPolicy publishes what was validated, and the audit log tells what is published.
PublishedIsAccountedFor == P!PublishedIsAccountedFor
\* The decision engine uses exactly the relationships that the store holds and that are active.
EngineSeesTheStore == R!EngineSeesTheStore
\* docs/decisions.md:16: a decision is reproducible from its request plus pinned versions.
DecisionIsReproducible == R!DecisionIsReproducible
\* No reconciliation run replaces the record of another one, and what is under repair is
\* what the approval of its remediation covers (runReconciliation, planDriftRemediationDryRun).
ReconciliationIsSound == D!ReconciliationIsSound
\* An exception that has expired stays expired until its drift is remediated.
ExpiryIsFinal == D!ExpiryIsFinal
\* docs/drift-detection-model.md:23: an open finding has not been triaged.
OpenMeansUntriaged == D!OpenMeansUntriaged
\* Audit events carry the name of the key that the request presented, and those that are
\* sampled account for every failed authentication (withRequestAuditActor,
\* recordAuthenticationFailure).
CallersAreAccountedFor == H!EventNamesItsCaller /\ H!FailuresAreAccountedFor
\* A discovery run of the sample connector that no other one overtook reports one scenario.
UndisturbedRunIsWhole == S!UndisturbedRunIsWhole
\* docs/api-reference.md:16: operations that require an idempotency key fail without one.
KeyedOperationFailsClosed == H!KeyedOperationFailsClosed
=============================================================================

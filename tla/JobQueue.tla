------------------------------ MODULE JobQueue ------------------------------
(***************************************************************************)
(* The durable job queue (packages/core/src/reference-job-queue.ts) and    *)
(* the drain loops that execute its jobs                                   *)
(* (packages/api/src/job-queue-runner.ts).                                 *)
(*                                                                         *)
(* Every queue operation is one commit of the whole snapshot, exchanged    *)
(* for the record it was computed from (#commitSnapshot), so it is one     *)
(* action here; one that loses the exchange five times throws and changes  *)
(* nothing. Module SnapshotStore models the store below.                   *)
(* A drain loop is a process: it reserves, awaits the job's body, then     *)
(* reports, and other loops and the clock run in between.                  *)
(*                                                                         *)
(* Time is relative: a running job carries what is left of its lease, a    *)
(* queued one what is left until availableAt; Tick lets one unit pass.     *)
(* requestedAt never decreases along the queue, so "older first" is        *)
(* "earlier in the array first".                                           *)
(***************************************************************************)
EXTENDS Integers, Sequences, FiniteSets

CONSTANTS
  Worker,           \* drain loops: the calls of drainNextQueuedJob in flight
  WorkerId,         \* the names a loop may present to the queue
  workerIdOf,       \* the name each loop presents (options.workerId)
  NoWorker,         \* workerId: undefined
  Key,              \* idempotency keys
  Connector,        \* connector ids
  Payload,          \* job payloads, up to what stableHash tells apart
  ProvisioningJobId,  \* ids of the provisioning jobs stored beside the queue
  Request,          \* the enqueue requests clients make
  ProvisioningJob,  \* arguments of enqueueProvisioningJob
  NoJob,            \* no job
  LeaseDuration,    \* leaseDurationMs
  InitialDelay, MaxDelay, Multiplier,  \* the backoff policy
  DefaultMaxAttempts,                  \* maxAttempts when a request gives none
  AttemptCap,       \* bound: attempts are counted up to here
  MaxJobs,          \* bound: length of the queue
  BackupId,         \* names of backups
  NoBackup,         \* no backup under that name
  MaxRestores       \* bound: number of restores

VARIABLES
  queuedJobs,          \* queue.queuedJobs
  idempotencyRecords,  \* queue.idempotencyRecords
  connectorHealth,     \* queue.connectorHealth; no entry reads as healthy
  provisioningJobs,    \* jobs.provisioningJobs beside the queue: the ids stored
  backups,             \* the snapshots kept by createBackup
  restores,            \* number of restores so far
  pc,                  \* where each drain loop is
  reserved,            \* id of the job each drain loop holds
  ran                  \* history: ids whose body has finished successfully

vars == <<queuedJobs, idempotencyRecords, connectorHealth, provisioningJobs,
          backups, restores, pc, reserved, ran>>
workerVars == <<pc, reserved, ran>>
backupVars == <<backups, restores>>

-----------------------------------------------------------------------------
(* Types *)

Kind == {"discovery", "reconciliation", "provisioning", "evidence", "revocation"}
Priority == {"emergency", "high", "normal", "low"}
Status == {"queued", "running", "completed", "dead_lettered"}
Health == {"healthy", "degraded", "offline"}
JobId == Connector \X Key \X Kind

\* What requestHash covers. evidence: approval, control and readiness report
\* are all present; provisions: payload.jobId, the provisioning job this one
\* was enqueued for; replayedFrom: the queue job this one replays.
RequestRecord ==
  [key : Key, kind : Kind, connector : Connector, priority : Priority,
   enforcement : BOOLEAN, evidence : BOOLEAN, payload : Payload,
   provisions : ProvisioningJobId \cup {NoJob},
   maxAttempts : Nat, replayedFrom : JobId \cup {NoJob}]

\* owner is a history field: the drain loop that made the reservation.
Job ==
  [id : JobId, request : RequestRecord, status : Status,
   workerId : WorkerId \cup {NoWorker}, owner : Worker \cup {NoWorker},
   lease : 0..LeaseDuration, delay : 0..MaxDelay, attempts : 0..AttemptCap]

IdempotencyRecord == [key : Key, jobId : JobId, requestHash : RequestRecord]

\* A ProvisioningJob with the plan it belongs to: revokes is
\* planHasRevocation(plan) || jobHasRevocation(job).
ProvisioningJobRecord ==
  [id : ProvisioningJobId, connector : Connector, key : Key, revokes : BOOLEAN,
   priority : Priority \cup {"default"},
   enforcement : BOOLEAN, evidence : BOOLEAN, payload : Payload]

Snapshot ==
  [queuedJobs : Seq(Job), idempotencyRecords : SUBSET IdempotencyRecord,
   connectorHealth : [Connector -> Health],
   provisioningJobs : SUBSET ProvisioningJobId]

ASSUME WorkerAssumption == workerIdOf \in [Worker -> WorkerId]
ASSUME NoWorkerAssumption == NoWorker \notin Worker \cup WorkerId
ASSUME NoJobAssumption == NoJob \notin JobId
ASSUME RequestAssumption ==
  /\ Request \subseteq RequestRecord
  /\ ProvisioningJob \subseteq ProvisioningJobRecord
  /\ \A r \in Request : r.maxAttempts <= AttemptCap /\ r.provisions = NoJob
ASSUME NoBackupAssumption == NoBackup \notin Snapshot
ASSUME BoundAssumption ==
  /\ LeaseDuration \in Nat \ {0}
  /\ InitialDelay \in Nat
  /\ MaxDelay \in Nat
  /\ Multiplier \in Nat \ {0}
  /\ AttemptCap \in Nat \ {0}
  /\ DefaultMaxAttempts \in 0..AttemptCap
  /\ MaxJobs \in Nat
  /\ MaxRestores \in Nat

-----------------------------------------------------------------------------
(* Helpers of the source *)

Terminal == {"completed", "dead_lettered"}

PriorityRank(p) ==
  CASE p = "emergency" -> 0 [] p = "high" -> 1 [] p = "normal" -> 2 [] p = "low" -> 3

DefaultPriority(kind) == IF kind = "revocation" THEN "emergency" ELSE "normal"

\* Math.min(maxDelayMs, initialDelayMs * multiplier ** max(0, attempts - 1)).
BackoffDelay(attempts) ==
  LET exponent == IF attempts > 0 THEN attempts - 1 ELSE 0
      delay == InitialDelay * Multiplier ^ exponent
  IN  IF delay \in 0..MaxDelay THEN delay ELSE MaxDelay

AssertEnforcementEvidence(r) ==
  r.kind = "provisioning" /\ r.enforcement => r.evidence

CreateQueuedJob(r) ==
  [id |-> <<r.connector, r.key, r.kind>>, request |-> r, status |-> "queued",
   workerId |-> NoWorker, owner |-> NoWorker, lease |-> 0, delay |-> 0, attempts |-> 0]

ProvisioningRequest(p) ==
  LET kind == IF p.revokes THEN "revocation" ELSE "provisioning"
  IN  [key |-> p.key, kind |-> kind, connector |-> p.connector,
       priority |-> IF p.priority = "default" THEN DefaultPriority(kind) ELSE p.priority,
       enforcement |-> p.enforcement, evidence |-> p.evidence, payload |-> p.payload,
       provisions |-> p.id, maxAttempts |-> DefaultMaxAttempts, replayedFrom |-> NoJob]

\* Wrong: no exception for emergency revocations.
OnlyHealthyReservable(job) == connectorHealth[job.request.connector] = "healthy"

IsConnectorReservable(job) ==
  \/ connectorHealth[job.request.connector] = "healthy"
  \/ job.request.kind = "revocation" /\ job.request.priority = "emergency"

\* Wrong: settled jobs count as expired.
LeaseExpiredAnyStatus(job) == job.status # "queued" /\ job.lease = 0

LeaseExpired(job) == job.status = "running" /\ job.lease = 0

\* recoverExpiredRunningJobs: attempts are kept and not compared with maxAttempts.
RecoverExpiredRunningJobs(q) ==
  [i \in DOMAIN q |->
     IF LeaseExpired(q[i])
       THEN [q[i] EXCEPT !.status = "queued", !.workerId = NoWorker,
                         !.owner = NoWorker, !.delay = 0]
       ELSE q[i]]

Eligible(q) ==
  {i \in DOMAIN q : q[i].status = "queued" /\ q[i].delay = 0 /\ IsConnectorReservable(q[i])}

\* compareQueuedJobs with a stable sort: by priority, then oldest first.
Precedes(q, i, j) ==
  LET ri == PriorityRank(q[i].request.priority)
      rj == PriorityRank(q[j].request.priority)
  IN  ri < rj \/ (ri = rj /\ i <= j)

-----------------------------------------------------------------------------
(* Enqueueing *)

\* Wrong: a key is compared together with the request.
IsNewRequest(r) == \A rec \in idempotencyRecords : rec.requestHash # r

IsNewKey(r) == \A rec \in idempotencyRecords : rec.key # r.key

\* enqueueNormalizedJob with a key that has no record yet. With a recorded key
\* the commit leaves the snapshot as it is: the same request gets the recorded
\* job back, a different one is refused.
EnqueueNormalizedJob(r) ==
  /\ Len(queuedJobs) < MaxJobs
  /\ AssertEnforcementEvidence(r)
  /\ IsNewKey(r)
  /\ LET job == CreateQueuedJob(r)
     IN  /\ queuedJobs' = Append(queuedJobs, job)
         /\ idempotencyRecords' = idempotencyRecords \cup
              {[key |-> r.key, jobId |-> job.id, requestHash |-> r]}
  /\ UNCHANGED <<connectorHealth, backupVars, workerVars>>

EnqueueJob(r) ==
  /\ EnqueueNormalizedJob(r)
  /\ UNCHANGED provisioningJobs

\* The provisioning job is stored in the commit that enqueues it.
EnqueueProvisioningJob(p) ==
  /\ EnqueueNormalizedJob(ProvisioningRequest(p))
  /\ provisioningJobs' = provisioningJobs \cup {p.id}

\* The queue is also the repository of provisioning jobs (runtime-app.ts:77):
\* one can be stored without being enqueued.
UpsertProvisioningJob(id) ==
  /\ provisioningJobs' = provisioningJobs \cup {id}
  /\ UNCHANGED <<queuedJobs, idempotencyRecords, connectorHealth, backupVars, workerVars>>

\* The replay's key is the caller's, or one derived from job id and time.
ReplayDeadLetteredJob(i, key) ==
  /\ queuedJobs[i].status = "dead_lettered"
  /\ EnqueueNormalizedJob([queuedJobs[i].request EXCEPT
                             !.key = key, !.replayedFrom = queuedJobs[i].id])
  /\ UNCHANGED provisioningJobs

-----------------------------------------------------------------------------
(* The drain loop *)

\* reserveNextJob finds an eligible job, among them those whose lease ran out.
ReserveNextJob(w) ==
  /\ pc[w] = "idle"
  /\ LET recovered == RecoverExpiredRunningJobs(queuedJobs)
     IN  \E i \in Eligible(recovered) :
           /\ \A j \in Eligible(recovered) : Precedes(recovered, i, j)
           /\ queuedJobs' =
                [recovered EXCEPT ![i] =
                   [recovered[i] EXCEPT
                      !.status = "running", !.workerId = workerIdOf[w], !.owner = w,
                      !.lease = LeaseDuration,
                      !.attempts = IF @ < AttemptCap THEN @ + 1 ELSE AttemptCap]]
           /\ reserved' = [reserved EXCEPT ![w] = recovered[i].id]
  /\ pc' = [pc EXCEPT ![w] = "executing"]
  /\ UNCHANGED <<idempotencyRecords, connectorHealth, provisioningJobs, backupVars, ran>>

\* reserveNextJob finds nothing to run but commits the recovery.
ReserveNothing(w) ==
  /\ pc[w] = "idle"
  /\ \E i \in DOMAIN queuedJobs : LeaseExpired(queuedJobs[i])
  /\ Eligible(RecoverExpiredRunningJobs(queuedJobs)) = {}
  /\ queuedJobs' = RecoverExpiredRunningJobs(queuedJobs)
  /\ UNCHANGED <<idempotencyRecords, connectorHealth, provisioningJobs, backupVars, workerVars>>

\* Wrong: assertWorkerMatches is missing.
MayReportAnyWorker(w, i) == queuedJobs[i].id = reserved[w] /\ queuedJobs[i].status = "running"

\* assertJobRunning and assertWorkerMatches for the job loop w holds.
MayReport(w, i) ==
  /\ queuedJobs[i].id = reserved[w]
  /\ queuedJobs[i].status = "running"
  /\ queuedJobs[i].workerId = workerIdOf[w]

\* The body finishes and completeJob accepts: the lease must still be active.
CompleteJob(w) ==
  /\ pc[w] = "executing"
  /\ \E i \in DOMAIN queuedJobs :
       /\ MayReport(w, i)
       /\ queuedJobs[i].lease > 0
       /\ queuedJobs' = [queuedJobs EXCEPT ![i] =
                           [queuedJobs[i] EXCEPT !.status = "completed", !.lease = 0]]
  /\ pc' = [pc EXCEPT ![w] = "idle"]
  /\ reserved' = [reserved EXCEPT ![w] = NoJob]
  /\ ran' = ran \cup {reserved[w]}
  /\ UNCHANGED <<idempotencyRecords, connectorHealth, provisioningJobs, backupVars>>

\* The body finishes but completeJob throws: a check fails, or the commit
\* loses its five compare-exchange attempts. The catch block takes over.
CompleteJobThrows(w) ==
  /\ pc[w] = "executing"
  /\ pc' = [pc EXCEPT ![w] = "failing"]
  /\ ran' = ran \cup {reserved[w]}
  /\ UNCHANGED <<queuedJobs, idempotencyRecords, connectorHealth, provisioningJobs,
                 backupVars, reserved>>

\* The body throws.
ExecutionFails(w) ==
  /\ pc[w] = "executing"
  /\ pc' = [pc EXCEPT ![w] = "failing"]
  /\ UNCHANGED <<queuedJobs, idempotencyRecords, connectorHealth, provisioningJobs,
                 backupVars, reserved, ran>>

Retried(job) ==
  [job EXCEPT !.status = "queued", !.workerId = NoWorker, !.owner = NoWorker,
              !.lease = 0, !.delay = BackoffDelay(job.attempts)]

\* Wrong: gives up one attempt early, never gives up, or closes the job as done.
FailedEarly(job) ==
  IF job.attempts + 1 < job.request.maxAttempts
    THEN Retried(job) ELSE [job EXCEPT !.status = "dead_lettered", !.lease = 0]
FailedForever(job) == Retried(job)
FailedClosed(job) ==
  IF job.attempts < job.request.maxAttempts
    THEN Retried(job) ELSE [job EXCEPT !.status = "completed", !.lease = 0]

\* What recordJobFailure makes of a job: a retry after a delay, or a dead letter.
\* The lease is not checked.
Failed(job) ==
  IF job.attempts < job.request.maxAttempts
    THEN Retried(job)
    ELSE [job EXCEPT !.status = "dead_lettered", !.lease = 0]

RecordJobFailure(w) ==
  /\ pc[w] = "failing"
  /\ \E i \in DOMAIN queuedJobs :
       /\ MayReport(w, i)
       /\ queuedJobs' = [queuedJobs EXCEPT ![i] = Failed(queuedJobs[i])]
  /\ pc' = [pc EXCEPT ![w] = "idle"]
  /\ reserved' = [reserved EXCEPT ![w] = NoJob]
  /\ UNCHANGED <<idempotencyRecords, connectorHealth, provisioningJobs, backupVars, ran>>

\* recordJobFailure throws out of drainNextQueuedJob (a check fails or the
\* commit conflicts), or the process dies: the job waits for its lease to end.
AbandonJob(w) ==
  /\ pc[w] # "idle"
  /\ pc' = [pc EXCEPT ![w] = "idle"]
  /\ reserved' = [reserved EXCEPT ![w] = NoJob]
  /\ UNCHANGED <<queuedJobs, idempotencyRecords, connectorHealth, provisioningJobs,
                 backupVars, ran>>

-----------------------------------------------------------------------------
(* Operators and the clock *)

SetConnectorHealth(c, status) ==
  /\ connectorHealth' = [connectorHealth EXCEPT ![c] = status]
  /\ UNCHANGED <<queuedJobs, idempotencyRecords, provisioningJobs, backupVars, workerVars>>

CreateBackup(b) ==
  /\ backups' = [backups EXCEPT ![b] =
        [queuedJobs |-> queuedJobs, idempotencyRecords |-> idempotencyRecords,
         connectorHealth |-> connectorHealth, provisioningJobs |-> provisioningJobs]]
  /\ UNCHANGED <<queuedJobs, idempotencyRecords, connectorHealth, provisioningJobs,
                 restores, workerVars>>

\* Wrong: the provisioning jobs are not restored.
RestoreBackupWithoutJobs(b) ==
  /\ restores < MaxRestores
  /\ backups[b] # NoBackup
  /\ queuedJobs' = backups[b].queuedJobs
  /\ idempotencyRecords' = backups[b].idempotencyRecords
  /\ connectorHealth' = backups[b].connectorHealth
  /\ provisioningJobs' = {}
  /\ restores' = restores + 1
  /\ UNCHANGED <<backups, workerVars>>

RestoreBackup(b) ==
  /\ restores < MaxRestores
  /\ backups[b] # NoBackup
  /\ queuedJobs' = backups[b].queuedJobs
  /\ idempotencyRecords' = backups[b].idempotencyRecords
  /\ connectorHealth' = backups[b].connectorHealth
  /\ provisioningJobs' = backups[b].provisioningJobs
  /\ restores' = restores + 1
  /\ UNCHANGED <<backups, workerVars>>

Decrement(n) == IF n > 0 THEN n - 1 ELSE 0

Tick ==
  /\ \E i \in DOMAIN queuedJobs : queuedJobs[i].lease > 0 \/ queuedJobs[i].delay > 0
  /\ queuedJobs' = [i \in DOMAIN queuedJobs |->
        [queuedJobs[i] EXCEPT !.lease = Decrement(@), !.delay = Decrement(@)]]
  /\ UNCHANGED <<idempotencyRecords, connectorHealth, provisioningJobs, backupVars, workerVars>>

-----------------------------------------------------------------------------
Init ==
  /\ queuedJobs = <<>>
  /\ idempotencyRecords = {}
  /\ connectorHealth = [c \in Connector |-> "healthy"]
  /\ provisioningJobs = {}
  /\ backups = [b \in BackupId |-> NoBackup]
  /\ restores = 0
  /\ pc = [w \in Worker |-> "idle"]
  /\ reserved = [w \in Worker |-> NoJob]
  /\ ran = {}

Drain(w) ==
  \/ ReserveNextJob(w)
  \/ ReserveNothing(w)
  \/ CompleteJob(w)
  \/ CompleteJobThrows(w)
  \/ ExecutionFails(w)
  \/ RecordJobFailure(w)
  \/ AbandonJob(w)

Next ==
  \/ \E r \in Request : EnqueueJob(r)
  \/ \E p \in ProvisioningJob : EnqueueProvisioningJob(p)
  \/ \E id \in ProvisioningJobId : UpsertProvisioningJob(id)
  \/ \E i \in DOMAIN queuedJobs, key \in Key : ReplayDeadLetteredJob(i, key)
  \/ \E w \in Worker : Drain(w)
  \/ \E c \in Connector, status \in Health : SetConnectorHealth(c, status)
  \/ \E b \in BackupId : CreateBackup(b) \/ RestoreBackup(b)
  \/ Tick

Spec == Init /\ [][Next]_vars

-----------------------------------------------------------------------------
(* Properties *)

\* Every variable has its type.
TypeOK ==
  /\ queuedJobs \in Seq(Job)
  /\ idempotencyRecords \in SUBSET IdempotencyRecord
  /\ connectorHealth \in [Connector -> Health]
  /\ provisioningJobs \in SUBSET ProvisioningJobId
  /\ backups \in [BackupId -> Snapshot \cup {NoBackup}]
  /\ restores \in 0..MaxRestores
  /\ pc \in [Worker -> {"idle", "executing", "failing"}]
  /\ reserved \in [Worker -> JobId \cup {NoJob}]
  /\ ran \in SUBSET JobId

\* The records and the jobs of a snapshot match one to one: a key never has two
\* jobs, every record names a stored job that was made from the recorded
\* request, and no job lacks its record.
RecordsMatchJobs(q, records) ==
  /\ \A rec \in records : \E i \in DOMAIN q :
       q[i].id = rec.jobId /\ q[i].request = rec.requestHash /\ rec.requestHash.key = rec.key
  /\ \A i \in DOMAIN q : \E rec \in records :
       rec.jobId = q[i].id /\ rec.key = q[i].request.key
  /\ \A i, j \in DOMAIN q : q[i].request.key = q[j].request.key => i = j

\* One submission key is one job, across resubmission, replay and restore
\* (#enqueueNormalizedJob; adrs/0007: "returns the same job for repeated
\* submissions with the same idempotency key").
OneJobPerKey == RecordsMatchJobs(queuedJobs, idempotencyRecords)

\* drainNextQueuedJob "completes the record only after those flows finish"
\* (docs/persistence.md): a completed job's body has finished successfully,
\* whichever loop reported it.
CompletedAfterExecution ==
  \A i \in DOMAIN queuedJobs :
    queuedJobs[i].status = "completed" => queuedJobs[i].id \in ran

\* recordJobFailure gives up on a job only when its attempts are used up, also
\* when the failure reported is that of an earlier reservation.
DeadLetterAfterAllAttempts ==
  \A i \in DOMAIN queuedJobs :
    queuedJobs[i].status = "dead_lettered" =>
      queuedJobs[i].attempts >= queuedJobs[i].request.maxAttempts

\* No path into the queue (enqueueJob, enqueueProvisioningJob, replay of a dead
\* letter, restore) leaves a provisioning job in enforcement mode without
\* approval, control and readiness evidence.
EnforcementHasEvidence ==
  \A i \in DOMAIN queuedJobs :
    queuedJobs[i].request.kind = "provisioning" /\ queuedJobs[i].request.enforcement =>
      queuedJobs[i].request.evidence

\* A queue job for a provisioning job, a replay of it too, finds that job
\* stored: the two parts of the snapshot are committed and restored together.
QueuedJobIsStored ==
  \A i \in DOMAIN queuedJobs :
    queuedJobs[i].request.provisions \in provisioningJobs \cup {NoJob}

\* What the queue promises of its jobs together, whatever was restored: one job per key, no
\* completion without an execution, no execution of an enforcement without its evidence or
\* of a provisioning job that is not stored (enqueueJob, completeJob, restoreBackup).
JobsAreSound == OneJobPerKey /\ CompletedAfterExecution /\ EnforcementHasEvidence /\ QueuedJobIsStored

\* A completed or dead-lettered job never changes again, except that a restore
\* brings back an earlier snapshot.
TerminalIsFinal ==
  [][restores' = restores =>
       \A i \in DOMAIN queuedJobs :
         queuedJobs[i].status \in Terminal => queuedJobs'[i] = queuedJobs[i]]_vars

\* While a reservation's lease is active the job stops running only by the
\* report of the drain loop that made the reservation: a late report of an
\* earlier reservation is refused (assertWorkerMatches: the job "is reserved
\* by worker ${job.workerId}, not ${workerId}").
OnlyHolderReports ==
  [][restores' = restores =>
       \A i \in DOMAIN queuedJobs :
         queuedJobs[i].status = "running" /\ queuedJobs[i].lease > 0
           /\ queuedJobs'[i].status # "running"
         => \E w \in Worker :
              /\ w = queuedJobs[i].owner
              /\ reserved[w] = queuedJobs[i].id
              /\ pc[w] # "idle" /\ pc'[w] = "idle"]_vars

-----------------------------------------------------------------------------
(* Refinement *)

Submitted == {rec.requestHash : rec \in idempotencyRecords}
SettledJobs ==
  {<<queuedJobs[i].request, queuedJobs[i].status>> :
     i \in {j \in DOMAIN queuedJobs : queuedJobs[j].status \in Terminal}}

Ledger == INSTANCE JobLedger
  WITH Outcome <- Terminal, submitted <- Submitted, settled <- SettledJobs

\* As long as no backup is restored, the queue with its leases, retries and
\* racing drain loops is a ledger in which a key is submitted once and a
\* submission is settled once.
ImplementsLedger == Ledger!Spec

-----------------------------------------------------------------------------
(* Liveness *)

\* The drain loops are called again and again, a body that was started ends,
\* and time passes.
Fairness ==
  /\ WF_vars(Tick)
  /\ \A w \in Worker :
       /\ WF_vars(ReserveNextJob(w) \/ ReserveNothing(w))
       /\ WF_vars(CompleteJob(w) \/ CompleteJobThrows(w) \/ ExecutionFails(w))
       /\ WF_vars(RecordJobFailure(w))

FairSpec == Spec /\ Fairness

\* A loop drops its job, or a body outlives its lease.
ReservationLost ==
  \/ \E w \in Worker : AbandonJob(w)
  \/ \E i \in DOMAIN queuedJobs : ~LeaseExpired(queuedJobs[i]) /\ LeaseExpired(queuedJobs'[i])

Holds(i) == i \in DOMAIN queuedJobs
Settled(i) == Holds(i) /\ queuedJobs[i].status \in Terminal
EmergencyRevocation(i) ==
  /\ Holds(i)
  /\ queuedJobs[i].request.kind = "revocation"
  /\ queuedJobs[i].request.priority = "emergency"

\* Once loops no longer lose their reservations, every emergency revocation is
\* completed or dead-lettered, whatever the health of its connector does
\* (docs/ha-degraded-mode-operations.md: "emergency revocation remains
\* reservable").
EmergencyRevocationsSettle ==
  <>[][~ReservationLost]_vars =>
    \A i \in 1..MaxJobs : EmergencyRevocation(i) ~> Settled(i)

\* Every other job settles too if its connector stays healthy from some point
\* on: no retry, recovery or more urgent job keeps it waiting for ever.
JobsSettle ==
  (/\ <>[][~ReservationLost]_vars
   /\ <>[](\A c \in Connector : connectorHealth[c] = "healthy")) =>
    \A i \in 1..MaxJobs : Holds(i) ~> Settled(i)
=============================================================================

--------------------------- MODULE JobQueueProofs ---------------------------
(***************************************************************************)
(* Proofs about JobQueue for every set of workers, keys, requests and      *)
(* every bound.                                                            *)
(***************************************************************************)
EXTENDS JobQueue, SequenceTheorems, TLAPS

-----------------------------------------------------------------------------
(* The inductive invariant *)

\* What is always true of a single job; done are the ids whose body finished.
JobOK(job, done) ==
  /\ job.status # "running" => job.lease = 0
  /\ job.status # "queued" => job.delay = 0
  /\ job.status = "running" => job.owner \in Worker /\ job.workerId = workerIdOf[job.owner]
  /\ job.status = "completed" => job.id \in done
  /\ job.status = "dead_lettered" => job.attempts >= job.request.maxAttempts
  /\ AssertEnforcementEvidence(job.request)

\* What is always true of a snapshot, the current one or a backup.
SnapshotOK(q, records, stored, done) ==
  /\ RecordsMatchJobs(q, records)
  /\ \A i \in DOMAIN q : JobOK(q[i], done)
  /\ \A i \in DOMAIN q : q[i].request.provisions \in stored \cup {NoJob}

BackupsOK ==
  \A b \in BackupId : backups[b] # NoBackup =>
    SnapshotOK(backups[b].queuedJobs, backups[b].idempotencyRecords,
               backups[b].provisioningJobs, ran)

\* A loop that is not idle holds a job.
LoopsOK == \A w \in Worker : pc[w] # "idle" => reserved[w] \in JobId

IInv ==
  /\ TypeOK
  /\ SnapshotOK(queuedJobs, idempotencyRecords, provisioningJobs, ran)
  /\ BackupsOK
  /\ LoopsOK

-----------------------------------------------------------------------------
(* Types of what the helpers build *)

\* A retry delay is never longer than the policy's maximum.
LEMMA BackoffDelayType == \A a : BackoffDelay(a) \in 0..MaxDelay
BY BoundAssumption DEF BackoffDelay

\* A new job is well formed.
LEMMA CreateQueuedJobType ==
  ASSUME NEW r \in RequestRecord
  PROVE  CreateQueuedJob(r) \in Job
BY BoundAssumption DEF CreateQueuedJob, Job, JobId, RequestRecord, Status

\* The request derived from a provisioning job is well formed.
LEMMA ProvisioningRequestType ==
  ASSUME NEW p \in ProvisioningJob
  PROVE  ProvisioningRequest(p) \in RequestRecord
<1>1. p \in ProvisioningJobRecord
  BY RequestAssumption
<1>2. DefaultMaxAttempts \in Nat
  BY BoundAssumption
<1>. QED
  BY <1>1, <1>2 DEF ProvisioningRequest, ProvisioningJobRecord, RequestRecord,
     DefaultPriority, Kind, Priority

\* A failed job is a well-formed job with the same identity.
LEMMA FailedType ==
  ASSUME NEW job \in Job
  PROVE  /\ Failed(job) \in Job
         /\ Failed(job).id = job.id
         /\ Failed(job).request = job.request
         /\ Failed(job).status \in {"queued", "dead_lettered"}
<1>1. BackoffDelay(job.attempts) \in 0..MaxDelay
  BY BackoffDelayType
<1>2. 0 \in 0..LeaseDuration
  BY BoundAssumption
<1>3. CASE job.attempts < job.request.maxAttempts
  <2>1. Failed(job) = [job EXCEPT !.status = "queued", !.workerId = NoWorker,
                                  !.owner = NoWorker, !.lease = 0,
                                  !.delay = BackoffDelay(job.attempts)]
    BY <1>3 DEF Failed, Retried
  <2>. QED
    BY <2>1, <1>1, <1>2 DEF Job, Status
<1>4. CASE ~(job.attempts < job.request.maxAttempts)
  <2>1. Failed(job) = [job EXCEPT !.status = "dead_lettered", !.lease = 0]
    BY <1>4 DEF Failed
  <2>. QED
    BY <2>1, <1>2 DEF Job, Status
<1>. QED
  BY <1>3, <1>4

\* Recovery keeps every job in its place, with its identity and attempts.
LEMMA RecoverType ==
  ASSUME NEW q \in Seq(Job)
  PROVE  LET r == RecoverExpiredRunningJobs(q)
         IN  /\ r \in Seq(Job)
             /\ DOMAIN r = DOMAIN q
             /\ \A i \in DOMAIN q :
                  /\ r[i] \in Job
                  /\ r[i].id = q[i].id
                  /\ r[i].request = q[i].request
                  /\ r[i].attempts = q[i].attempts
                  /\ ~LeaseExpired(q[i]) => r[i] = q[i]
                  /\ LeaseExpired(q[i]) => r[i].status = "queued" /\ r[i].lease = 0
<1>. DEFINE r == RecoverExpiredRunningJobs(q)
<1>1. \A i \in DOMAIN q :
        /\ r[i] \in Job
        /\ r[i].id = q[i].id
        /\ r[i].request = q[i].request
        /\ r[i].attempts = q[i].attempts
        /\ ~LeaseExpired(q[i]) => r[i] = q[i]
        /\ LeaseExpired(q[i]) => r[i].status = "queued" /\ r[i].lease = 0
  <2>. SUFFICES ASSUME NEW i \in DOMAIN q
                PROVE  /\ r[i] \in Job
                       /\ r[i].id = q[i].id
                       /\ r[i].request = q[i].request
                       /\ r[i].attempts = q[i].attempts
                       /\ ~LeaseExpired(q[i]) => r[i] = q[i]
                       /\ LeaseExpired(q[i]) => r[i].status = "queued" /\ r[i].lease = 0
    OBVIOUS
  <2>1. q[i] \in Job
    OBVIOUS
  <2>2. 0 \in 0..LeaseDuration /\ 0 \in 0..MaxDelay
    BY BoundAssumption
  <2>3. CASE LeaseExpired(q[i])
    <3>1. r[i] = [q[i] EXCEPT !.status = "queued", !.workerId = NoWorker,
                              !.owner = NoWorker, !.delay = 0]
      BY <2>3 DEF RecoverExpiredRunningJobs
    <3>. QED
      BY <3>1, <2>1, <2>2, <2>3 DEF LeaseExpired, Job, Status
  <2>4. CASE ~LeaseExpired(q[i])
    <3>1. r[i] = q[i]
      BY <2>4 DEF RecoverExpiredRunningJobs
    <3>. QED
      BY <3>1, <2>1, <2>4
  <2>. QED
    BY <2>3, <2>4
<1>2. DOMAIN r = DOMAIN q /\ DOMAIN q = 1..Len(q) /\ Len(q) \in Nat
  <2>1. DOMAIN q = 1..Len(q) /\ Len(q) \in Nat
    OBVIOUS
  <2>2. DOMAIN r = DOMAIN q
    BY DEF RecoverExpiredRunningJobs
  <2>. QED
    BY <2>1, <2>2
<1>3. r \in Seq(Job)
  <2>1. r \in [1..Len(q) -> Job]
    BY <1>1, <1>2 DEF RecoverExpiredRunningJobs
  <2>. QED
    BY <2>1, <1>2, SeqDef
<1>. QED
  BY <1>1, <1>2, <1>3

-----------------------------------------------------------------------------
(* How a snapshot may change *)

\* A snapshot stays good when its jobs change in place but keep their identity.
LEMMA UpdateInPlace ==
  ASSUME NEW q, NEW q2, NEW records, NEW stored, NEW done, NEW done2,
         SnapshotOK(q, records, stored, done),
         DOMAIN q2 = DOMAIN q,
         \A i \in DOMAIN q : q2[i].id = q[i].id /\ q2[i].request = q[i].request,
         \A i \in DOMAIN q : JobOK(q2[i], done2)
  PROVE  SnapshotOK(q2, records, stored, done2)
<1>1. RecordsMatchJobs(q2, records)
  BY DEF SnapshotOK, RecordsMatchJobs
<1>2. \A i \in DOMAIN q2 : q2[i].request.provisions \in stored \cup {NoJob}
  BY DEF SnapshotOK
<1>. QED
  BY <1>1, <1>2 DEF SnapshotOK

\* A snapshot stays good when more bodies have finished.
LEMMA MoreDone ==
  ASSUME NEW q, NEW records, NEW stored, NEW done, NEW done2,
         SnapshotOK(q, records, stored, done), done \subseteq done2
  PROVE  SnapshotOK(q, records, stored, done2)
BY DEF SnapshotOK, JobOK

\* A snapshot stays good when a job with a new key is appended with its record.
LEMMA AppendNewKey ==
  ASSUME NEW q \in Seq(Job), NEW records \in SUBSET IdempotencyRecord,
         NEW stored, NEW added, NEW done,
         NEW r \in RequestRecord,
         SnapshotOK(q, records, stored, done),
         AssertEnforcementEvidence(r),
         \A rec \in records : rec.key # r.key,
         r.provisions \in stored \cup added \cup {NoJob}
  PROVE  SnapshotOK(Append(q, CreateQueuedJob(r)),
                    records \cup {[key |-> r.key, jobId |-> CreateQueuedJob(r).id,
                                   requestHash |-> r]},
                    stored \cup added, done)
<1>. DEFINE job == CreateQueuedJob(r)
            q2 == Append(q, job)
            rec2 == [key |-> r.key, jobId |-> job.id, requestHash |-> r]
            records2 == records \cup {rec2}
<1>1. job \in Job /\ job.request = r /\ job.status = "queued" /\ job.lease = 0
  BY CreateQueuedJobType DEF CreateQueuedJob
<1>. HIDE DEF job
<1>2. /\ Len(q) \in Nat /\ DOMAIN q = 1..Len(q)
      /\ DOMAIN q2 = 1..(Len(q) + 1)
      /\ q2[Len(q) + 1] = job
      /\ \A i \in DOMAIN q : q2[i] = q[i]
  BY <1>1
<1>3. \A i \in DOMAIN q : q[i].request.key # r.key
  BY DEF SnapshotOK, RecordsMatchJobs
<1>. HIDE DEF q2
<1>4. RecordsMatchJobs(q2, records2)
  <2>1. \A rec \in records2 : \E i \in DOMAIN q2 :
          q2[i].id = rec.jobId /\ q2[i].request = rec.requestHash /\ rec.requestHash.key = rec.key
    <3>1. Len(q) + 1 \in DOMAIN q2 /\ DOMAIN q \subseteq DOMAIN q2
      BY <1>2
    <3>2. rec2.jobId = job.id /\ rec2.requestHash = r /\ rec2.key = r.key
      OBVIOUS
    <3>3. \A rec \in records : \E i \in DOMAIN q2 :
            q2[i].id = rec.jobId /\ q2[i].request = rec.requestHash /\ rec.requestHash.key = rec.key
      BY <3>1, <1>2 DEF SnapshotOK, RecordsMatchJobs
    <3>. QED
      BY <3>1, <3>2, <3>3, <1>1, <1>2
  <2>2. \A i \in DOMAIN q2 : \E rec \in records2 :
          rec.jobId = q2[i].id /\ rec.key = q2[i].request.key
    <3>1. SUFFICES ASSUME NEW i \in DOMAIN q2
                   PROVE  \E rec \in records2 :
                            rec.jobId = q2[i].id /\ rec.key = q2[i].request.key
      OBVIOUS
    <3>2. CASE i \in DOMAIN q
      BY <3>2, <1>2 DEF SnapshotOK, RecordsMatchJobs
    <3>3. CASE i = Len(q) + 1
      <4>1. rec2 \in records2 /\ rec2.jobId = q2[i].id /\ rec2.key = q2[i].request.key
        BY <3>3, <1>1, <1>2
      <4>. QED
        BY <4>1
    <3>. QED
      BY <3>2, <3>3, <1>2
  <2>3. \A i, j \in DOMAIN q2 : q2[i].request.key = q2[j].request.key => i = j
    <3>1. \A i, j \in DOMAIN q : q[i].request.key = q[j].request.key => i = j
      BY DEF SnapshotOK, RecordsMatchJobs
    <3>. QED
      BY <3>1, <1>1, <1>2, <1>3
  <2>. QED
    BY <2>1, <2>2, <2>3 DEF RecordsMatchJobs
<1>5. \A i \in DOMAIN q2 : JobOK(q2[i], done)
  <2>1. JobOK(job, done)
    BY <1>1 DEF JobOK, job, CreateQueuedJob
  <2>2. \A i \in DOMAIN q : JobOK(q[i], done)
    BY DEF SnapshotOK
  <2>. QED
    BY <2>1, <2>2, <1>2
<1>6. \A i \in DOMAIN q2 : q2[i].request.provisions \in stored \cup added \cup {NoJob}
  BY <1>1, <1>2 DEF SnapshotOK
<1>. QED
  BY <1>4, <1>5, <1>6 DEF SnapshotOK, q2, job

\* Replacing one job of the queue by another.
LEMMA ReplaceJob ==
  ASSUME NEW q \in Seq(Job), NEW i \in DOMAIN q, NEW job \in Job
  PROVE  LET q2 == [q EXCEPT ![i] = job]
         IN  /\ q2 \in Seq(Job)
             /\ DOMAIN q2 = DOMAIN q
             /\ q2[i] = job
             /\ \A j \in DOMAIN q : j # i => q2[j] = q[j]
<1>1. Len(q) \in Nat /\ q \in [1..Len(q) -> Job] /\ DOMAIN q = 1..Len(q)
  OBVIOUS
<1>2. [q EXCEPT ![i] = job] \in [1..Len(q) -> Job]
  BY <1>1
<1>. QED
  BY <1>1, <1>2, SeqDef

\* Backups are untouched by everything but createBackup.
LEMMA BackupsKept ==
  ASSUME BackupsOK, UNCHANGED backups, ran \subseteq ran'
  PROVE  BackupsOK'
<1>1. SUFFICES ASSUME NEW b \in BackupId, backups[b] # NoBackup
               PROVE  SnapshotOK(backups[b].queuedJobs, backups[b].idempotencyRecords,
                                 backups[b].provisioningJobs, ran')
  BY DEF BackupsOK
<1>. QED
  BY <1>1, MoreDone DEF BackupsOK

-----------------------------------------------------------------------------
(* Every action preserves the invariant *)

\* #enqueueNormalizedJob under a new key, with or without a provisioning job
\* stored in the same commit, preserves the invariant.
LEMMA EnqueueStep ==
  ASSUME IInv, NEW r \in RequestRecord, NEW added \in SUBSET ProvisioningJobId,
         EnqueueNormalizedJob(r),
         provisioningJobs' = provisioningJobs \cup added,
         r.provisions \in provisioningJobs \cup added \cup {NoJob}
  PROVE  IInv'
<1>. DEFINE rec == [key |-> r.key, jobId |-> CreateQueuedJob(r).id, requestHash |-> r]
<1>1. CreateQueuedJob(r) \in Job
  BY CreateQueuedJobType
<1>2. rec \in IdempotencyRecord
  BY <1>1 DEF IdempotencyRecord, Job, RequestRecord
<1>3. TypeOK'
  BY <1>1, <1>2 DEF IInv, TypeOK, EnqueueNormalizedJob, backupVars, workerVars
<1>4. SnapshotOK(queuedJobs, idempotencyRecords, provisioningJobs, ran)'
  <2>1. SnapshotOK(Append(queuedJobs, CreateQueuedJob(r)), idempotencyRecords \cup {rec},
                   provisioningJobs \cup added, ran)
    BY AppendNewKey DEF IInv, TypeOK, EnqueueNormalizedJob, IsNewKey
  <2>. QED
    BY <2>1 DEF EnqueueNormalizedJob, workerVars
<1>5. BackupsOK'
  BY BackupsKept DEF IInv, EnqueueNormalizedJob, backupVars, workerVars
<1>6. LoopsOK'
  BY DEF IInv, LoopsOK, EnqueueNormalizedJob, workerVars
<1>. QED
  BY <1>6, <1>3, <1>4, <1>5 DEF IInv

\* enqueueJob preserves the invariant.
LEMMA EnqueueJobStep ==
  ASSUME IInv, NEW r \in Request, EnqueueJob(r)
  PROVE  IInv'
<1>1. r \in RequestRecord
  BY RequestAssumption
<1>2. EnqueueNormalizedJob(r) /\ provisioningJobs' = provisioningJobs \cup {}
  BY DEF EnqueueJob
<1>3. {} \in SUBSET ProvisioningJobId /\ r.provisions = NoJob
  BY RequestAssumption
<1>. QED
  BY <1>1, <1>2, <1>3, EnqueueStep

\* enqueueProvisioningJob preserves the invariant.
LEMMA EnqueueProvisioningJobStep ==
  ASSUME IInv, NEW p \in ProvisioningJob, EnqueueProvisioningJob(p)
  PROVE  IInv'
<1>1. ProvisioningRequest(p) \in RequestRecord
  BY ProvisioningRequestType
<1>2. /\ EnqueueNormalizedJob(ProvisioningRequest(p))
      /\ provisioningJobs' = provisioningJobs \cup {p.id}
  BY DEF EnqueueProvisioningJob
<1>3. {p.id} \in SUBSET ProvisioningJobId /\ ProvisioningRequest(p).provisions = p.id
  BY RequestAssumption DEF ProvisioningJobRecord, ProvisioningRequest
<1>. QED
  BY <1>1, <1>2, <1>3, EnqueueStep

\* replayDeadLetteredJob preserves the invariant: a replay keeps the evidence.
LEMMA ReplayStep ==
  ASSUME IInv, NEW i \in DOMAIN queuedJobs, NEW key \in Key, ReplayDeadLetteredJob(i, key)
  PROVE  IInv'
<1>. DEFINE r == [queuedJobs[i].request EXCEPT !.key = key, !.replayedFrom = queuedJobs[i].id]
<1>1. queuedJobs[i] \in Job
  BY DEF IInv, TypeOK
<1>2. queuedJobs[i].request \in RequestRecord /\ queuedJobs[i].id \in JobId
  BY <1>1 DEF Job
<1>3. r \in RequestRecord
  BY <1>2 DEF RequestRecord
<1>4. EnqueueNormalizedJob(r) /\ provisioningJobs' = provisioningJobs \cup {}
  BY DEF ReplayDeadLetteredJob
<1>5. {} \in SUBSET ProvisioningJobId /\ r.provisions \in provisioningJobs \cup {NoJob}
  BY <1>2 DEF IInv, SnapshotOK, RequestRecord
<1>. HIDE DEF r
<1>. QED
  BY <1>3, <1>4, <1>5, EnqueueStep

\* What reserveNextJob does to the queue.
LEMMA ReservationEffect ==
  ASSUME IInv, NEW w \in Worker, ReserveNextJob(w)
  PROVE  /\ queuedJobs' \in Seq(Job)
         /\ DOMAIN queuedJobs' = DOMAIN queuedJobs
         /\ reserved'[w] \in JobId
         /\ \A j \in DOMAIN queuedJobs :
              /\ queuedJobs'[j].id = queuedJobs[j].id
              /\ queuedJobs'[j].request = queuedJobs[j].request
              /\ JobOK(queuedJobs'[j], ran)
              /\ ~LeaseExpired(queuedJobs[j]) /\ queuedJobs[j].status # "queued"
                   => queuedJobs'[j] = queuedJobs[j]
              /\ queuedJobs'[j].status \in Terminal => queuedJobs'[j] = queuedJobs[j]
<1>. DEFINE q == RecoverExpiredRunningJobs(queuedJobs)
<1>0. queuedJobs \in Seq(Job) /\ \A j \in DOMAIN queuedJobs : JobOK(queuedJobs[j], ran)
  BY DEF IInv, TypeOK, SnapshotOK
<1>1. /\ q \in Seq(Job)
      /\ DOMAIN q = DOMAIN queuedJobs
      /\ \A j \in DOMAIN queuedJobs :
           /\ q[j] \in Job
           /\ q[j].id = queuedJobs[j].id
           /\ q[j].request = queuedJobs[j].request
           /\ ~LeaseExpired(queuedJobs[j]) => q[j] = queuedJobs[j]
           /\ LeaseExpired(queuedJobs[j]) => q[j].status = "queued" /\ q[j].lease = 0
  BY <1>0, RecoverType
<1>. HIDE DEF q
<1>2. \A j \in DOMAIN queuedJobs : JobOK(q[j], ran)
  BY <1>0, <1>1 DEF JobOK
<1>3. PICK i \in Eligible(q) :
        /\ queuedJobs' =
             [q EXCEPT ![i] =
                [q[i] EXCEPT
                   !.status = "running", !.workerId = workerIdOf[w], !.owner = w,
                   !.lease = LeaseDuration,
                   !.attempts = IF @ < AttemptCap THEN @ + 1 ELSE AttemptCap]]
        /\ reserved' = [reserved EXCEPT ![w] = q[i].id]
  BY DEF ReserveNextJob, q
<1>. DEFINE job == [q[i] EXCEPT
                   !.status = "running", !.workerId = workerIdOf[w], !.owner = w,
                   !.lease = LeaseDuration,
                   !.attempts = IF @ < AttemptCap THEN @ + 1 ELSE AttemptCap]
<1>4. i \in DOMAIN q /\ q[i] \in Job /\ q[i].status = "queued" /\ q[i].delay = 0
  BY <1>1, <1>3 DEF Eligible
<1>5. /\ job \in Job /\ job.id = q[i].id /\ job.request = q[i].request
      /\ job.status = "running" /\ job.owner = w /\ job.workerId = workerIdOf[w]
      /\ job.delay = 0
  <2>1. q[i].attempts \in 0..AttemptCap /\ LeaseDuration \in 0..LeaseDuration
    BY <1>4, BoundAssumption DEF Job
  <2>2. (IF q[i].attempts < AttemptCap THEN q[i].attempts + 1 ELSE AttemptCap) \in 0..AttemptCap
    BY <2>1, BoundAssumption
  <2>3. workerIdOf[w] \in WorkerId
    BY WorkerAssumption
  <2>. QED
    BY <1>4, <2>1, <2>2, <2>3 DEF Job, Status
<1>6. JobOK(job, ran)
  BY <1>2, <1>4, <1>5, <1>1 DEF JobOK
<1>. HIDE DEF job
<1>7. queuedJobs' = [q EXCEPT ![i] = job]
  BY <1>3 DEF job
<1>8. /\ queuedJobs' \in Seq(Job)
      /\ DOMAIN queuedJobs' = DOMAIN q
      /\ queuedJobs'[i] = job
      /\ \A j \in DOMAIN q : j # i => queuedJobs'[j] = q[j]
  BY <1>1, <1>4, <1>5, <1>7, ReplaceJob
<1>9. reserved'[w] \in JobId
  BY <1>3, <1>4 DEF IInv, TypeOK, Job
<1>10. ASSUME NEW j \in DOMAIN queuedJobs
       PROVE  /\ queuedJobs'[j].id = queuedJobs[j].id
              /\ queuedJobs'[j].request = queuedJobs[j].request
              /\ JobOK(queuedJobs'[j], ran)
              /\ ~LeaseExpired(queuedJobs[j]) /\ queuedJobs[j].status # "queued"
                   => queuedJobs'[j] = queuedJobs[j]
              /\ queuedJobs'[j].status \in Terminal => queuedJobs'[j] = queuedJobs[j]
  <2>1. CASE j = i
    BY <2>1, <1>1, <1>4, <1>5, <1>6, <1>8 DEF Terminal
  <2>2. CASE j # i
    BY <2>2, <1>1, <1>2, <1>8 DEF Terminal
  <2>. QED
    BY <2>1, <2>2
<1>. QED
  BY <1>1, <1>8, <1>9, <1>10

\* reserveNextJob preserves the invariant when it reserves a job.
LEMMA ReserveNextJobStep ==
  ASSUME IInv, NEW w \in Worker, ReserveNextJob(w)
  PROVE  IInv'
<1>1. TypeOK'
  BY ReservationEffect DEF IInv, TypeOK, ReserveNextJob, backupVars
<1>2. SnapshotOK(queuedJobs', idempotencyRecords, provisioningJobs, ran)
  BY ReservationEffect, UpdateInPlace DEF IInv
<1>3. BackupsOK'
  BY BackupsKept DEF IInv, ReserveNextJob, backupVars
<1>4. LoopsOK'
  BY ReservationEffect DEF IInv, TypeOK, LoopsOK, ReserveNextJob
<1>. QED
  BY <1>4, <1>1, <1>2, <1>3 DEF IInv, ReserveNextJob

\* reserveNextJob preserves the invariant when it only recovers expired jobs.
LEMMA ReserveNothingStep ==
  ASSUME IInv, NEW w \in Worker, ReserveNothing(w)
  PROVE  IInv'
<1>0. queuedJobs \in Seq(Job) /\ \A j \in DOMAIN queuedJobs : JobOK(queuedJobs[j], ran)
  BY DEF IInv, TypeOK, SnapshotOK
<1>1. /\ queuedJobs' \in Seq(Job)
      /\ DOMAIN queuedJobs' = DOMAIN queuedJobs
      /\ \A j \in DOMAIN queuedJobs :
           /\ queuedJobs'[j].id = queuedJobs[j].id
           /\ queuedJobs'[j].request = queuedJobs[j].request
           /\ ~LeaseExpired(queuedJobs[j]) => queuedJobs'[j] = queuedJobs[j]
           /\ LeaseExpired(queuedJobs[j]) =>
                queuedJobs'[j].status = "queued" /\ queuedJobs'[j].lease = 0
  BY <1>0, RecoverType DEF ReserveNothing
<1>2. \A j \in DOMAIN queuedJobs : JobOK(queuedJobs'[j], ran)
  BY <1>0, <1>1 DEF JobOK
<1>3. SnapshotOK(queuedJobs', idempotencyRecords, provisioningJobs, ran)
  BY <1>1, <1>2, UpdateInPlace DEF IInv
<1>4. TypeOK'
  BY <1>1 DEF IInv, TypeOK, ReserveNothing, backupVars, workerVars
<1>5. BackupsOK'
  BY BackupsKept DEF IInv, ReserveNothing, backupVars, workerVars
<1>6. LoopsOK'
  BY DEF IInv, LoopsOK, ReserveNothing, workerVars
<1>. QED
  BY <1>6, <1>3, <1>4, <1>5 DEF IInv, ReserveNothing, workerVars

\* A loop reports on job i: only that job changes, and it was running.
LEMMA ReportEffect ==
  ASSUME IInv, NEW w \in Worker, NEW i \in DOMAIN queuedJobs, MayReport(w, i),
         NEW job \in Job, job.id = queuedJobs[i].id, job.request = queuedJobs[i].request,
         JobOK(job, ran'), ran \subseteq ran',
         queuedJobs' = [queuedJobs EXCEPT ![i] = job]
  PROVE  /\ queuedJobs' \in Seq(Job)
         /\ SnapshotOK(queuedJobs', idempotencyRecords, provisioningJobs, ran')
<1>1. queuedJobs \in Seq(Job) /\ \A j \in DOMAIN queuedJobs : JobOK(queuedJobs[j], ran)
  BY DEF IInv, TypeOK, SnapshotOK
<1>2. /\ queuedJobs' \in Seq(Job)
      /\ DOMAIN queuedJobs' = DOMAIN queuedJobs
      /\ queuedJobs'[i] = job
      /\ \A j \in DOMAIN queuedJobs : j # i => queuedJobs'[j] = queuedJobs[j]
  BY <1>1, ReplaceJob
<1>3. \A j \in DOMAIN queuedJobs : JobOK(queuedJobs'[j], ran')
  <2>1. SUFFICES ASSUME NEW j \in DOMAIN queuedJobs
                 PROVE  JobOK(queuedJobs'[j], ran')
    OBVIOUS
  <2>2. CASE j = i
    BY <2>2, <1>2
  <2>3. CASE j # i
    BY <2>3, <1>1, <1>2 DEF JobOK
  <2>. QED
    BY <2>2, <2>3
<1>4. \A j \in DOMAIN queuedJobs :
        queuedJobs'[j].id = queuedJobs[j].id /\ queuedJobs'[j].request = queuedJobs[j].request
  BY <1>2
<1>. QED
  BY <1>2, <1>3, <1>4, UpdateInPlace DEF IInv

\* completeJob preserves the invariant.
LEMMA CompleteJobStep ==
  ASSUME IInv, NEW w \in Worker, CompleteJob(w)
  PROVE  IInv'
<1>1. PICK i \in DOMAIN queuedJobs :
        /\ MayReport(w, i)
        /\ queuedJobs' = [queuedJobs EXCEPT ![i] =
                           [queuedJobs[i] EXCEPT !.status = "completed", !.lease = 0]]
  BY DEF CompleteJob
<1>. DEFINE job == [queuedJobs[i] EXCEPT !.status = "completed", !.lease = 0]
<1>2. queuedJobs[i] \in Job /\ JobOK(queuedJobs[i], ran)
  BY DEF IInv, TypeOK, SnapshotOK
<1>3. ran' = ran \cup {reserved[w]} /\ queuedJobs[i].id = reserved[w]
      /\ queuedJobs[i].status = "running"
  BY <1>1 DEF CompleteJob, MayReport
<1>4. /\ job \in Job /\ job.id = queuedJobs[i].id /\ job.request = queuedJobs[i].request
      /\ job.status = "completed" /\ job.lease = 0 /\ job.delay = queuedJobs[i].delay
  <2>1. 0 \in 0..LeaseDuration
    BY BoundAssumption
  <2>. QED
    BY <1>2, <2>1 DEF Job, Status
<1>5. JobOK(job, ran')
  BY <1>2, <1>3, <1>4 DEF JobOK
<1>. HIDE DEF job
<1>6. queuedJobs' = [queuedJobs EXCEPT ![i] = job]
  BY <1>1 DEF job
<1>7. /\ queuedJobs' \in Seq(Job)
      /\ SnapshotOK(queuedJobs', idempotencyRecords, provisioningJobs, ran')
  BY <1>1, <1>3, <1>4, <1>5, <1>6, ReportEffect
<1>8. TypeOK'
  <2>1. queuedJobs[i].id \in JobId
    BY <1>2 DEF Job
  <2>. QED
    BY <2>1, <1>3, <1>7 DEF IInv, TypeOK, CompleteJob, backupVars
<1>9. BackupsOK'
  BY <1>3, BackupsKept DEF IInv, CompleteJob, backupVars
<1>10. LoopsOK'
  BY DEF IInv, TypeOK, LoopsOK, CompleteJob
<1>. QED
  BY <1>10, <1>7, <1>8, <1>9 DEF IInv, CompleteJob

\* A body that finishes without its completion being accepted preserves the
\* invariant.
LEMMA CompleteJobThrowsStep ==
  ASSUME IInv, NEW w \in Worker, CompleteJobThrows(w)
  PROVE  IInv'
<1>1. ran \subseteq ran' /\ UNCHANGED <<queuedJobs, idempotencyRecords, provisioningJobs, backups>>
  BY DEF CompleteJobThrows, backupVars
<1>2. TypeOK'
  <2>1. reserved[w] \in JobId
    BY DEF IInv, LoopsOK, CompleteJobThrows
  <2>. QED
    BY <2>1 DEF IInv, TypeOK, CompleteJobThrows, backupVars
<1>3. SnapshotOK(queuedJobs, idempotencyRecords, provisioningJobs, ran')
  BY <1>1, MoreDone DEF IInv
<1>4. BackupsOK'
  BY <1>1, BackupsKept DEF IInv
<1>5. LoopsOK'
  BY DEF IInv, TypeOK, LoopsOK, CompleteJobThrows
<1>. QED
  BY <1>5, <1>1, <1>2, <1>3, <1>4 DEF IInv

\* recordJobFailure preserves the invariant, by retry and by dead letter.
LEMMA RecordJobFailureStep ==
  ASSUME IInv, NEW w \in Worker, RecordJobFailure(w)
  PROVE  IInv'
<1>1. PICK i \in DOMAIN queuedJobs :
        /\ MayReport(w, i)
        /\ queuedJobs' = [queuedJobs EXCEPT ![i] = Failed(queuedJobs[i])]
  BY DEF RecordJobFailure
<1>2. queuedJobs[i] \in Job /\ JobOK(queuedJobs[i], ran) /\ queuedJobs[i].status = "running"
  BY <1>1 DEF IInv, TypeOK, SnapshotOK, MayReport
<1>. DEFINE job == Failed(queuedJobs[i])
<1>3. job \in Job /\ job.id = queuedJobs[i].id /\ job.request = queuedJobs[i].request
  BY <1>2, FailedType
<1>4. JobOK(job, ran')
  <2>1. ran' = ran
    BY DEF RecordJobFailure
  <2>2. queuedJobs[i].attempts \in Nat /\ queuedJobs[i].request.maxAttempts \in Nat
    BY <1>2, BoundAssumption DEF Job, RequestRecord
  <2>3. CASE queuedJobs[i].attempts < queuedJobs[i].request.maxAttempts
    <3>1. job = [queuedJobs[i] EXCEPT !.status = "queued", !.workerId = NoWorker,
                   !.owner = NoWorker, !.lease = 0,
                   !.delay = BackoffDelay(queuedJobs[i].attempts)]
      BY <2>3 DEF Failed, Retried
    <3>2. job.status = "queued" /\ job.lease = 0
      BY <3>1, <1>2 DEF Job
    <3>. QED
      BY <3>2, <1>2, <1>3 DEF JobOK
  <2>4. CASE ~(queuedJobs[i].attempts < queuedJobs[i].request.maxAttempts)
    <3>1. job = [queuedJobs[i] EXCEPT !.status = "dead_lettered", !.lease = 0]
      BY <2>4 DEF Failed
    <3>2. /\ job.status = "dead_lettered" /\ job.lease = 0
          /\ job.delay = queuedJobs[i].delay /\ job.attempts = queuedJobs[i].attempts
      BY <3>1, <1>2 DEF Job
    <3>. QED
      BY <3>2, <2>2, <2>4, <1>2, <1>3 DEF JobOK
  <2>. QED
    BY <2>3, <2>4
<1>. HIDE DEF job
<1>5. queuedJobs' = [queuedJobs EXCEPT ![i] = job] /\ ran' = ran
  BY <1>1 DEF job, RecordJobFailure
<1>6. /\ queuedJobs' \in Seq(Job)
      /\ SnapshotOK(queuedJobs', idempotencyRecords, provisioningJobs, ran')
  BY <1>1, <1>3, <1>4, <1>5, ReportEffect
<1>7. TypeOK'
  BY <1>6 DEF IInv, TypeOK, RecordJobFailure, backupVars
<1>8. BackupsOK'
  BY <1>5, BackupsKept DEF IInv, RecordJobFailure, backupVars
<1>9. LoopsOK'
  BY DEF IInv, TypeOK, LoopsOK, RecordJobFailure
<1>. QED
  BY <1>9, <1>6, <1>7, <1>8 DEF IInv, RecordJobFailure

\* The steps that leave the snapshot and the finished bodies alone.
LEMMA SameSnapshotStep ==
  ASSUME IInv, UNCHANGED <<queuedJobs, idempotencyRecords, provisioningJobs, backups, restores, ran>>,
         connectorHealth' \in [Connector -> Health],
         pc' \in [Worker -> {"idle", "executing", "failing"}],
         reserved' \in [Worker -> JobId \cup {NoJob}],
         LoopsOK'
  PROVE  IInv'
<1>1. TypeOK'
  BY DEF IInv, TypeOK
<1>2. BackupsOK'
  BY BackupsKept DEF IInv
<1>. QED
  BY <1>1, <1>2 DEF IInv

\* createBackup stores a good snapshot.
LEMMA CreateBackupStep ==
  ASSUME IInv, NEW b \in BackupId, CreateBackup(b)
  PROVE  IInv'
<1>. DEFINE snapshot ==
       [queuedJobs |-> queuedJobs, idempotencyRecords |-> idempotencyRecords,
        connectorHealth |-> connectorHealth, provisioningJobs |-> provisioningJobs]
<1>1. /\ backups' = [backups EXCEPT ![b] = snapshot]
      /\ UNCHANGED <<queuedJobs, idempotencyRecords, connectorHealth, provisioningJobs,
                      restores, pc, reserved, ran>>
  BY DEF CreateBackup, workerVars
<1>2. snapshot \in Snapshot
  BY DEF IInv, TypeOK, Snapshot
<1>3. TypeOK'
  BY <1>1, <1>2 DEF IInv, TypeOK
<1>4. BackupsOK'
  <2>1. SUFFICES ASSUME NEW other \in BackupId, backups'[other] # NoBackup
                 PROVE  SnapshotOK(backups'[other].queuedJobs, backups'[other].idempotencyRecords,
                                   backups'[other].provisioningJobs, ran)
    BY <1>1 DEF BackupsOK
  <2>2. CASE other = b
    <3>1. backups'[other] = snapshot
      BY <2>2, <1>1 DEF IInv, TypeOK
    <3>. QED
      BY <3>1 DEF IInv
  <2>3. CASE other # b
    <3>1. backups'[other] = backups[other]
      BY <2>3, <1>1 DEF IInv, TypeOK
    <3>. QED
      BY <3>1, <2>1 DEF IInv, BackupsOK
  <2>. QED
    BY <2>2, <2>3
<1>5. SnapshotOK(queuedJobs, idempotencyRecords, provisioningJobs, ran)'
  BY <1>1 DEF IInv
<1>6. LoopsOK'
  BY <1>1 DEF IInv, LoopsOK
<1>. QED
  BY <1>6, <1>3, <1>4, <1>5 DEF IInv

\* restoreBackup brings a good snapshot back: no body that had finished then
\* is unfinished now.
LEMMA RestoreBackupStep ==
  ASSUME IInv, NEW b \in BackupId, RestoreBackup(b)
  PROVE  IInv'
<1>1. backups[b] \in Snapshot /\ backups[b] # NoBackup
  BY DEF IInv, TypeOK, RestoreBackup
<1>2. TypeOK'
  <2>1. restores + 1 \in 0..MaxRestores
    BY BoundAssumption DEF IInv, TypeOK, RestoreBackup
  <2>. QED
    BY <1>1, <2>1 DEF IInv, TypeOK, RestoreBackup, Snapshot, workerVars
<1>3. SnapshotOK(backups[b].queuedJobs, backups[b].idempotencyRecords,
                 backups[b].provisioningJobs, ran)
  BY <1>1 DEF IInv, BackupsOK
<1>4. SnapshotOK(queuedJobs, idempotencyRecords, provisioningJobs, ran)'
  BY <1>3 DEF RestoreBackup, workerVars
<1>5. BackupsOK'
  BY BackupsKept DEF IInv, RestoreBackup, workerVars
<1>6. LoopsOK'
  BY DEF IInv, LoopsOK, RestoreBackup, workerVars
<1>. QED
  BY <1>6, <1>2, <1>4, <1>5 DEF IInv

\* Time passing changes only the timers of jobs that have some left.
LEMMA TickEffect ==
  ASSUME IInv, Tick
  PROVE  /\ queuedJobs' \in Seq(Job)
         /\ DOMAIN queuedJobs' = DOMAIN queuedJobs
         /\ \A j \in DOMAIN queuedJobs :
              /\ queuedJobs'[j].id = queuedJobs[j].id
              /\ queuedJobs'[j].request = queuedJobs[j].request
              /\ queuedJobs'[j].status = queuedJobs[j].status
              /\ queuedJobs[j].status \in Terminal => queuedJobs'[j] = queuedJobs[j]
              /\ JobOK(queuedJobs'[j], ran)
<1>1. queuedJobs \in Seq(Job) /\ \A j \in DOMAIN queuedJobs : JobOK(queuedJobs[j], ran)
  BY DEF IInv, TypeOK, SnapshotOK
<1>2. queuedJobs' = [i \in DOMAIN queuedJobs |->
        [queuedJobs[i] EXCEPT !.lease = Decrement(@), !.delay = Decrement(@)]]
  BY DEF Tick
<1>3. ASSUME NEW j \in DOMAIN queuedJobs
      PROVE  /\ queuedJobs'[j] \in Job
             /\ queuedJobs'[j].id = queuedJobs[j].id
             /\ queuedJobs'[j].request = queuedJobs[j].request
             /\ queuedJobs'[j].status = queuedJobs[j].status
             /\ queuedJobs[j].status \in Terminal => queuedJobs'[j] = queuedJobs[j]
             /\ JobOK(queuedJobs'[j], ran)
  <2>. DEFINE old == queuedJobs[j]
  <2>1. old \in Job /\ JobOK(old, ran)
    BY <1>1
  <2>2. queuedJobs'[j] = [old EXCEPT !.lease = Decrement(old.lease), !.delay = Decrement(old.delay)]
    BY <1>2
  <2>. HIDE DEF old
  <2>3. /\ Decrement(old.lease) \in 0..LeaseDuration /\ Decrement(old.delay) \in 0..MaxDelay
        /\ old.lease = 0 => Decrement(old.lease) = 0
        /\ old.delay = 0 => Decrement(old.delay) = 0
    BY <2>1, BoundAssumption DEF Job, Decrement
  <2>4. /\ queuedJobs'[j] \in Job
        /\ queuedJobs'[j].id = old.id /\ queuedJobs'[j].request = old.request
        /\ queuedJobs'[j].status = old.status /\ queuedJobs'[j].owner = old.owner
        /\ queuedJobs'[j].workerId = old.workerId /\ queuedJobs'[j].attempts = old.attempts
        /\ queuedJobs'[j].lease = Decrement(old.lease)
        /\ queuedJobs'[j].delay = Decrement(old.delay)
    BY <2>1, <2>2, <2>3 DEF Job
  <2>5. old.status \in Terminal => queuedJobs'[j] = old
    <3>1. SUFFICES ASSUME old.status \in Terminal PROVE queuedJobs'[j] = old
      OBVIOUS
    <3>2. old.lease = 0 /\ old.delay = 0
      BY <3>1, <2>1 DEF Terminal, JobOK
    <3>. QED
      BY <3>2, <2>1, <2>2, <2>3 DEF Job
  <2>6. JobOK(queuedJobs'[j], ran)
    BY <2>1, <2>3, <2>4 DEF JobOK
  <2>. QED
    BY <2>4, <2>5, <2>6 DEF old
<1>4. Len(queuedJobs) \in Nat /\ DOMAIN queuedJobs = 1..Len(queuedJobs)
  BY <1>1
<1>5. queuedJobs' \in [1..Len(queuedJobs) -> Job]
  BY <1>2, <1>3, <1>4
<1>. QED
  BY <1>3, <1>4, <1>5, SeqDef

\* The passing of time preserves the invariant.
LEMMA TickStep ==
  ASSUME IInv, Tick
  PROVE  IInv'
<1>1. SnapshotOK(queuedJobs', idempotencyRecords, provisioningJobs, ran)
  BY TickEffect, UpdateInPlace DEF IInv
<1>2. TypeOK'
  BY TickEffect DEF IInv, TypeOK, Tick, backupVars, workerVars
<1>3. BackupsOK'
  BY BackupsKept DEF IInv, Tick, backupVars, workerVars
<1>4. LoopsOK'
  BY DEF IInv, LoopsOK, Tick, workerVars
<1>. QED
  BY <1>4, <1>1, <1>2, <1>3 DEF IInv, Tick, workerVars

-----------------------------------------------------------------------------
(* Theorems *)

\* The empty queue satisfies the invariant.
LEMMA InitInv == Init => IInv
<1>1. SUFFICES ASSUME Init PROVE IInv
  OBVIOUS
<1>2. TypeOK
  BY <1>1, BoundAssumption DEF Init, TypeOK, Health
<1>3. SnapshotOK(queuedJobs, idempotencyRecords, provisioningJobs, ran)
  BY <1>1 DEF Init, SnapshotOK, RecordsMatchJobs
<1>4. BackupsOK /\ LoopsOK
  BY <1>1 DEF Init, BackupsOK, LoopsOK
<1>. QED
  BY <1>2, <1>3, <1>4 DEF IInv

\* Every step preserves the invariant.
LEMMA NextInv ==
  ASSUME IInv, [Next]_vars
  PROVE  IInv'
<1>1. ASSUME NEW w \in Worker, ExecutionFails(w)
      PROVE  IInv'
  <2>1. LoopsOK'
    BY <1>1 DEF IInv, TypeOK, LoopsOK, ExecutionFails
  <2>. QED
    BY <1>1, <2>1, SameSnapshotStep DEF IInv, TypeOK, ExecutionFails, backupVars
<1>2. ASSUME NEW w \in Worker, AbandonJob(w)
      PROVE  IInv'
  <2>1. LoopsOK'
    BY <1>2 DEF IInv, TypeOK, LoopsOK, AbandonJob
  <2>. QED
    BY <1>2, <2>1, SameSnapshotStep DEF IInv, TypeOK, AbandonJob, backupVars
<1>3. ASSUME NEW c \in Connector, NEW status \in Health, SetConnectorHealth(c, status)
      PROVE  IInv'
  <2>1. LoopsOK'
    BY <1>3 DEF IInv, LoopsOK, SetConnectorHealth, workerVars
  <2>. QED
    BY <1>3, <2>1, SameSnapshotStep
       DEF IInv, TypeOK, SetConnectorHealth, backupVars, workerVars
<1>6. ASSUME NEW id \in ProvisioningJobId, UpsertProvisioningJob(id)
      PROVE  IInv'
  <2>1. SnapshotOK(queuedJobs, idempotencyRecords, provisioningJobs', ran)
    BY <1>6 DEF IInv, SnapshotOK, UpsertProvisioningJob
  <2>2. LoopsOK' /\ TypeOK'
    BY <1>6 DEF IInv, TypeOK, LoopsOK, UpsertProvisioningJob, backupVars, workerVars
  <2>3. BackupsOK'
    BY <1>6, BackupsKept DEF IInv, UpsertProvisioningJob, backupVars, workerVars
  <2>. QED
    BY <1>6, <2>1, <2>2, <2>3 DEF IInv, UpsertProvisioningJob, workerVars
<1>4. CASE UNCHANGED vars
  <2>1. LoopsOK'
    BY <1>4 DEF IInv, LoopsOK, vars
  <2>. QED
    BY <1>4, <2>1, SameSnapshotStep DEF IInv, TypeOK, vars
<1>5. ASSUME NEW w \in Worker, Drain(w)
      PROVE  IInv'
  BY <1>5, <1>1, <1>2, ReserveNextJobStep, ReserveNothingStep, CompleteJobStep,
     CompleteJobThrowsStep, RecordJobFailureStep DEF Drain
<1>. QED
  BY <1>3, <1>4, <1>5, <1>6, EnqueueJobStep, EnqueueProvisioningJobStep, ReplayStep,
     CreateBackupStep, RestoreBackupStep, TickStep DEF Next

\* The strengthened invariant holds in every reachable state of the queue.
THEOREM Invariance == Spec => []IInv
<1>1. IInv /\ [Next]_vars => IInv'
  BY NextInv
<1>. QED
  BY <1>1, InitInv, PTL DEF Spec

\* Every variable keeps its type.
THEOREM TypeCorrect == Spec => []TypeOK
<1>1. IInv => TypeOK
  BY DEF IInv
<1>. QED
  BY <1>1, Invariance, PTL

\* An idempotency key has one job, made from the recorded request: for every
\* number of clients, replays and restores (#enqueueNormalizedJob).
THEOREM OneJobPerKeyHolds == Spec => []OneJobPerKey
<1>1. IInv => OneJobPerKey
  BY DEF IInv, SnapshotOK, OneJobPerKey
<1>. QED
  BY <1>1, Invariance, PTL

\* A completed job's body has finished, however many loops race for it and
\* whatever names they present (drainNextQueuedJob, completeJob).
THEOREM CompletedAfterExecutionHolds == Spec => []CompletedAfterExecution
<1>1. IInv => CompletedAfterExecution
  BY DEF IInv, SnapshotOK, JobOK, CompletedAfterExecution
<1>. QED
  BY <1>1, Invariance, PTL

\* A job is dead-lettered only with its attempts used up (recordJobFailure).
THEOREM DeadLetterHolds == Spec => []DeadLetterAfterAllAttempts
<1>1. IInv => DeadLetterAfterAllAttempts
  BY DEF IInv, SnapshotOK, JobOK, DeadLetterAfterAllAttempts
<1>. QED
  BY <1>1, Invariance, PTL

\* Enforcement jobs carry their evidence on every path into the queue.
THEOREM EnforcementHasEvidenceHolds == Spec => []EnforcementHasEvidence
<1>1. IInv => EnforcementHasEvidence
  BY DEF IInv, SnapshotOK, JobOK, EnforcementHasEvidence, AssertEnforcementEvidence
<1>. QED
  BY <1>1, Invariance, PTL

\* Provisioning jobs and their queue jobs are committed and restored together.
THEOREM QueuedJobIsStoredHolds == Spec => []QueuedJobIsStored
<1>1. IInv => QueuedJobIsStored
  BY DEF IInv, SnapshotOK, QueuedJobIsStored
<1>. QED
  BY <1>1, Invariance, PTL

\* One job per key, completion only after an execution, enforcement only with evidence and a
\* provisioning job behind every queue job of one hold together, whatever the workers, their
\* leases and restores do (enqueueNormalizedJob, completeJob, assertEnforcementEvidence).
THEOREM JobsAreSoundHolds == Spec => []JobsAreSound
  BY OneJobPerKeyHolds, CompletedAfterExecutionHolds, EnforcementHasEvidenceHolds,
     QueuedJobIsStoredHolds, PTL
     DEF JobsAreSound

-----------------------------------------------------------------------------
(* What a single step may do to a job *)

\* Appending leaves the jobs that are there in place.
LEMMA EnqueueEffect ==
  ASSUME IInv, NEW r \in RequestRecord, EnqueueNormalizedJob(r)
  PROVE  /\ DOMAIN queuedJobs' = 1..(Len(queuedJobs) + 1)
         /\ queuedJobs'[Len(queuedJobs) + 1].status = "queued"
         /\ \A i \in DOMAIN queuedJobs :
              i \in DOMAIN queuedJobs' /\ queuedJobs'[i] = queuedJobs[i]
<1>1. queuedJobs \in Seq(Job) /\ CreateQueuedJob(r) \in Job
  BY CreateQueuedJobType DEF IInv, TypeOK
<1>2. CreateQueuedJob(r).status = "queued"
  BY DEF CreateQueuedJob
<1>. QED
  BY <1>1, <1>2 DEF EnqueueNormalizedJob

\* Every way of enqueueing is an append of some request.
LEMMA EnqueueActions ==
  ASSUME IInv,
         \/ \E r \in Request : EnqueueJob(r)
         \/ \E p \in ProvisioningJob : EnqueueProvisioningJob(p)
         \/ \E i \in DOMAIN queuedJobs, key \in Key : ReplayDeadLetteredJob(i, key)
  PROVE  \E r \in RequestRecord : EnqueueNormalizedJob(r)
<1>1. ASSUME NEW i \in DOMAIN queuedJobs, NEW key \in Key, ReplayDeadLetteredJob(i, key)
      PROVE  \E r \in RequestRecord : EnqueueNormalizedJob(r)
  <2>. DEFINE r == [queuedJobs[i].request EXCEPT !.key = key, !.replayedFrom = queuedJobs[i].id]
  <2>1. queuedJobs[i] \in Job
    BY DEF IInv, TypeOK
  <2>2. queuedJobs[i].request \in RequestRecord /\ queuedJobs[i].id \in JobId
    BY <2>1 DEF Job
  <2>3. r \in RequestRecord
    BY <2>2 DEF RequestRecord
  <2>. QED
    BY <1>1, <2>3 DEF ReplayDeadLetteredJob
<1>2. Request \subseteq RequestRecord
  BY RequestAssumption
<1>. QED
  BY <1>1, <1>2, ProvisioningRequestType DEF EnqueueJob, EnqueueProvisioningJob

\* A loop's report changes the one job it reports on, which was running.
LEMMA ReportAction ==
  ASSUME IInv, NEW w \in Worker, CompleteJob(w) \/ RecordJobFailure(w)
  PROVE  /\ pc[w] # "idle" /\ pc'[w] = "idle"
         /\ DOMAIN queuedJobs' = DOMAIN queuedJobs
         /\ \E i \in DOMAIN queuedJobs :
              /\ MayReport(w, i)
              /\ queuedJobs'[i].request = queuedJobs[i].request
              /\ \A j \in DOMAIN queuedJobs : j # i => queuedJobs'[j] = queuedJobs[j]
<1>1. pc[w] # "idle" /\ pc'[w] = "idle"
  BY DEF IInv, TypeOK, CompleteJob, RecordJobFailure
<1>2. PICK i \in DOMAIN queuedJobs :
        /\ MayReport(w, i)
        /\ \/ queuedJobs' = [queuedJobs EXCEPT ![i] =
                  [queuedJobs[i] EXCEPT !.status = "completed", !.lease = 0]]
           \/ queuedJobs' = [queuedJobs EXCEPT ![i] = Failed(queuedJobs[i])]
  BY DEF CompleteJob, RecordJobFailure
<1>3. queuedJobs \in Seq(Job) /\ queuedJobs[i] \in Job
  BY DEF IInv, TypeOK
<1>4. /\ DOMAIN queuedJobs' = DOMAIN queuedJobs
      /\ \A j \in DOMAIN queuedJobs : j # i => queuedJobs'[j] = queuedJobs[j]
  BY <1>2, <1>3
<1>5. queuedJobs'[i].request = queuedJobs[i].request
  <2>1. CASE queuedJobs' = [queuedJobs EXCEPT ![i] =
                  [queuedJobs[i] EXCEPT !.status = "completed", !.lease = 0]]
    <3>1. queuedJobs'[i] = [queuedJobs[i] EXCEPT !.status = "completed", !.lease = 0]
      BY <2>1, <1>3
    <3>. QED
      BY <3>1, <1>3 DEF Job
  <2>2. CASE queuedJobs' = [queuedJobs EXCEPT ![i] = Failed(queuedJobs[i])]
    <3>1. queuedJobs'[i] = Failed(queuedJobs[i])
      BY <2>2, <1>3
    <3>. QED
      BY <3>1, <1>3, FailedType
  <2>. QED
    BY <1>2, <2>1, <2>2
<1>. QED
  BY <1>1, <1>2, <1>4, <1>5

\* The steps other than enqueueing, reporting and restoring: no job appears,
\* none settles, a settled one does not change, and one under an active lease
\* keeps running.
Quiet ==
  /\ DOMAIN queuedJobs' = DOMAIN queuedJobs
  /\ \A i \in DOMAIN queuedJobs :
       /\ queuedJobs'[i].request = queuedJobs[i].request
       /\ queuedJobs[i].status \in Terminal => queuedJobs'[i] = queuedJobs[i]
       /\ queuedJobs'[i].status \in Terminal => queuedJobs[i].status \in Terminal
       /\ queuedJobs[i].status = "running" /\ queuedJobs[i].lease > 0
            => queuedJobs'[i].status = "running"
  /\ UNCHANGED idempotencyRecords

\* The steps of the queue fall into four classes.
LEMMA StepClasses ==
  ASSUME IInv, [Next]_vars
  PROVE  \/ \E r \in RequestRecord : EnqueueNormalizedJob(r)
         \/ \E w \in Worker : CompleteJob(w) \/ RecordJobFailure(w)
         \/ restores < MaxRestores /\ restores' # restores
         \/ Quiet
<1>1. ASSUME NEW w \in Worker, ReserveNextJob(w) \/ ReserveNothing(w)
      PROVE  Quiet
  <2>1. queuedJobs \in Seq(Job) /\ \A j \in DOMAIN queuedJobs : queuedJobs[j] \in Job
    BY DEF IInv, TypeOK
  <2>2. CASE ReserveNextJob(w)
    <3>1. UNCHANGED idempotencyRecords
      BY <2>2 DEF ReserveNextJob
    <3>. QED
      BY <2>1, <2>2, <3>1, ReservationEffect DEF Quiet, Terminal, LeaseExpired
  <2>3. CASE ReserveNothing(w)
    <3>1. UNCHANGED idempotencyRecords /\ queuedJobs' = RecoverExpiredRunningJobs(queuedJobs)
      BY <2>3 DEF ReserveNothing
    <3>. QED
      BY <2>1, <3>1, RecoverType DEF Quiet, Terminal, LeaseExpired
  <2>. QED
    BY <1>1, <2>2, <2>3
<1>2. ASSUME Tick
      PROVE  Quiet
  BY <1>2, TickEffect DEF Quiet, Tick
<1>3. ASSUME UNCHANGED <<queuedJobs, idempotencyRecords>>
      PROVE  Quiet
  BY <1>3 DEF Quiet
<1>4. ASSUME NEW w \in Worker, CompleteJobThrows(w) \/ ExecutionFails(w) \/ AbandonJob(w)
      PROVE  Quiet
  BY <1>4, <1>3 DEF CompleteJobThrows, ExecutionFails, AbandonJob
<1>5. ASSUME NEW c \in Connector, NEW status \in Health, SetConnectorHealth(c, status)
      PROVE  Quiet
  BY <1>5, <1>3 DEF SetConnectorHealth
<1>6. ASSUME NEW b \in BackupId, CreateBackup(b)
      PROVE  Quiet
  BY <1>6, <1>3 DEF CreateBackup
<1>7. ASSUME NEW b \in BackupId, RestoreBackup(b)
      PROVE  restores < MaxRestores /\ restores' # restores
  BY <1>7 DEF RestoreBackup, IInv, TypeOK
<1>8. CASE UNCHANGED vars
  BY <1>8, <1>3 DEF vars
<1>9. ASSUME NEW id \in ProvisioningJobId, UpsertProvisioningJob(id)
      PROVE  Quiet
  BY <1>9, <1>3 DEF UpsertProvisioningJob
<1>. QED
  BY <1>1, <1>2, <1>4, <1>5, <1>6, <1>7, <1>8, <1>9, EnqueueActions DEF Next, Drain

\* No step but a restore changes a completed or dead-lettered job: racing
\* loops, late reports, retries and recovery leave it alone.
THEOREM TerminalIsFinalHolds == Spec => TerminalIsFinal
<1>1. ASSUME IInv, [Next]_vars, restores' = restores,
             NEW i \in DOMAIN queuedJobs, queuedJobs[i].status \in Terminal
      PROVE  queuedJobs'[i] = queuedJobs[i]
  <2>1. CASE \E r \in RequestRecord : EnqueueNormalizedJob(r)
    BY <1>1, <2>1, EnqueueEffect
  <2>2. CASE \E w \in Worker : CompleteJob(w) \/ RecordJobFailure(w)
    BY <1>1, <2>2, ReportAction DEF MayReport, Terminal
  <2>3. CASE Quiet
    BY <1>1, <2>3 DEF Quiet
  <2>. QED
    BY <1>1, <2>1, <2>2, <2>3, StepClasses
<1>2. IInv /\ [Next]_vars =>
        [restores' = restores =>
          \A i \in DOMAIN queuedJobs :
            queuedJobs[i].status \in Terminal => queuedJobs'[i] = queuedJobs[i]]_vars
  BY <1>1
<1>. QED
  BY <1>2, Invariance, PTL DEF Spec, TerminalIsFinal

\* When every drain loop presents a name of its own, a reservation under an
\* active lease ends only by its holder's report (assertWorkerMatches).
THEOREM OnlyHolderReportsHolds ==
  ASSUME \A w1, w2 \in Worker : workerIdOf[w1] = workerIdOf[w2] => w1 = w2
  PROVE  Spec => OnlyHolderReports
<1>1. ASSUME IInv, [Next]_vars, restores' = restores,
             NEW i \in DOMAIN queuedJobs,
             queuedJobs[i].status = "running", queuedJobs[i].lease > 0,
             queuedJobs'[i].status # "running"
      PROVE  \E w \in Worker :
               /\ w = queuedJobs[i].owner
               /\ reserved[w] = queuedJobs[i].id
               /\ pc[w] # "idle" /\ pc'[w] = "idle"
  <2>1. CASE \E r \in RequestRecord : EnqueueNormalizedJob(r)
    BY <1>1, <2>1, EnqueueEffect
  <2>2. CASE \E w \in Worker : CompleteJob(w) \/ RecordJobFailure(w)
    <3>1. PICK w \in Worker : CompleteJob(w) \/ RecordJobFailure(w)
      BY <2>2
    <3>2. pc[w] # "idle" /\ pc'[w] = "idle" /\ MayReport(w, i)
      BY <1>1, <3>1, ReportAction
    <3>3. queuedJobs[i].owner \in Worker /\ queuedJobs[i].workerId = workerIdOf[queuedJobs[i].owner]
      BY <1>1 DEF IInv, SnapshotOK, JobOK
    <3>4. w = queuedJobs[i].owner /\ reserved[w] = queuedJobs[i].id
      BY <3>2, <3>3 DEF MayReport
    <3>. QED
      BY <3>2, <3>4
  <2>3. CASE Quiet
    BY <1>1, <2>3 DEF Quiet
  <2>. QED
    BY <1>1, <2>1, <2>2, <2>3, StepClasses
<1>2. IInv /\ [Next]_vars =>
        [restores' = restores =>
          \A i \in DOMAIN queuedJobs :
            queuedJobs[i].status = "running" /\ queuedJobs[i].lease > 0
              /\ queuedJobs'[i].status # "running"
            => \E w \in Worker :
                 /\ w = queuedJobs[i].owner
                 /\ reserved[w] = queuedJobs[i].id
                 /\ pc[w] # "idle" /\ pc'[w] = "idle"]_vars
  BY <1>1
<1>. QED
  BY <1>2, Invariance, PTL DEF Spec, OnlyHolderReports
-----------------------------------------------------------------------------
(* The queue implements the ledger *)

\* A step in which every job keeps its request and its outcome, and in which
\* only unsettled jobs appear, leaves the settled jobs as they are.
LEMMA SameSettled ==
  ASSUME DOMAIN queuedJobs \subseteq DOMAIN queuedJobs',
         \A i \in DOMAIN queuedJobs' \ DOMAIN queuedJobs : queuedJobs'[i].status \notin Terminal,
         \A i \in DOMAIN queuedJobs :
           /\ queuedJobs[i].status \in Terminal => queuedJobs'[i] = queuedJobs[i]
           /\ queuedJobs'[i].status \in Terminal => queuedJobs[i].status \in Terminal
  PROVE  SettledJobs' = SettledJobs
<1>1. ASSUME NEW s \in SettledJobs PROVE s \in SettledJobs'
  <2>1. PICK i \in DOMAIN queuedJobs :
          queuedJobs[i].status \in Terminal /\ s = <<queuedJobs[i].request, queuedJobs[i].status>>
    BY <1>1 DEF SettledJobs
  <2>. QED
    BY <2>1 DEF SettledJobs
<1>2. ASSUME NEW s \in SettledJobs' PROVE s \in SettledJobs
  <2>1. PICK i \in DOMAIN queuedJobs' :
          queuedJobs'[i].status \in Terminal /\ s = <<queuedJobs'[i].request, queuedJobs'[i].status>>
    BY <1>2 DEF SettledJobs
  <2>. QED
    BY <2>1 DEF SettledJobs
<1>. QED
  BY <1>1, <1>2

\* Enqueueing under a new key is a submission.
LEMMA EnqueueSubmits ==
  ASSUME IInv, NEW r \in RequestRecord, EnqueueNormalizedJob(r)
  PROVE  Ledger!Next
<1>. DEFINE rec2 == [key |-> r.key, jobId |-> CreateQueuedJob(r).id, requestHash |-> r]
<1>1. idempotencyRecords' = idempotencyRecords \cup {rec2}
  BY DEF EnqueueNormalizedJob
<1>2. rec2.requestHash = r
  OBVIOUS
<1>3. Submitted' = Submitted \cup {r}
  BY <1>1, <1>2 DEF Submitted
<1>4. \A other \in Submitted : other.key # r.key
  <2>1. \A rec \in idempotencyRecords : rec.requestHash.key = rec.key /\ rec.key # r.key
    BY DEF IInv, SnapshotOK, RecordsMatchJobs, EnqueueNormalizedJob, IsNewKey
  <2>. QED
    BY <2>1 DEF Submitted
<1>5. SettledJobs' = SettledJobs
  <2>1. Len(queuedJobs) \in Nat /\ DOMAIN queuedJobs = 1..Len(queuedJobs)
    BY DEF IInv, TypeOK
  <2>. QED
    BY <2>1, EnqueueEffect, SameSettled DEF Terminal
<1>6. Ledger!Submit(r) /\ r \in Submitted'
  BY <1>3, <1>4, <1>5 DEF Ledger!Submit
<1>. QED
  BY <1>6 DEF Ledger!Next

\* A report settles the job's submission, or leaves it open for a retry.
LEMMA ReportSettles ==
  ASSUME IInv, NEW w \in Worker, CompleteJob(w) \/ RecordJobFailure(w)
  PROVE  Ledger!Next \/ UNCHANGED <<Submitted, SettledJobs>>
<1>1. PICK i \in DOMAIN queuedJobs :
        /\ MayReport(w, i)
        /\ queuedJobs'[i].request = queuedJobs[i].request
        /\ \A j \in DOMAIN queuedJobs : j # i => queuedJobs'[j] = queuedJobs[j]
  BY ReportAction
<1>2. DOMAIN queuedJobs' = DOMAIN queuedJobs
  BY ReportAction
<1>3. queuedJobs[i].status \notin Terminal
  BY <1>1 DEF MayReport, Terminal
<1>4. Submitted' = Submitted
  BY DEF CompleteJob, RecordJobFailure, Submitted
<1>5. CASE queuedJobs'[i].status \notin Terminal
  BY <1>1, <1>2, <1>3, <1>4, <1>5, SameSettled
<1>6. CASE queuedJobs'[i].status \in Terminal
  <2>. DEFINE r == queuedJobs[i].request
              outcome == queuedJobs'[i].status
  <2>1. r \in Submitted
    <3>1. PICK rec \in idempotencyRecords :
            rec.jobId = queuedJobs[i].id /\ rec.key = queuedJobs[i].request.key
      BY DEF IInv, SnapshotOK, RecordsMatchJobs
    <3>2. PICK j \in DOMAIN queuedJobs :
            queuedJobs[j].request = rec.requestHash /\ rec.requestHash.key = rec.key
      BY DEF IInv, SnapshotOK, RecordsMatchJobs
    <3>3. i = j
      BY <3>1, <3>2 DEF IInv, SnapshotOK, RecordsMatchJobs
    <3>. QED
      BY <3>2, <3>3 DEF Submitted
  <2>2. \A other \in Terminal : <<r, other>> \notin SettledJobs
    <3>1. SUFFICES ASSUME NEW other \in Terminal, <<r, other>> \in SettledJobs PROVE FALSE
      OBVIOUS
    <3>2. PICK j \in DOMAIN queuedJobs :
            queuedJobs[j].status \in Terminal /\ queuedJobs[j].request = r
      BY <3>1 DEF SettledJobs
    <3>3. i = j
      BY <3>2 DEF IInv, SnapshotOK, RecordsMatchJobs
    <3>. QED
      BY <3>2, <3>3, <1>3
  <2>3. SettledJobs' = SettledJobs \cup {<<r, outcome>>}
    <3>1. ASSUME NEW s \in SettledJobs PROVE s \in SettledJobs'
      <4>1. PICK j \in DOMAIN queuedJobs :
              queuedJobs[j].status \in Terminal
                /\ s = <<queuedJobs[j].request, queuedJobs[j].status>>
        BY <3>1 DEF SettledJobs
      <4>. QED
        BY <4>1, <1>1, <1>2, <1>3 DEF SettledJobs
    <3>2. <<r, outcome>> \in SettledJobs'
      BY <1>1, <1>2, <1>6 DEF SettledJobs
    <3>3. ASSUME NEW s \in SettledJobs' PROVE s \in SettledJobs \cup {<<r, outcome>>}
      <4>1. PICK j \in DOMAIN queuedJobs :
              queuedJobs'[j].status \in Terminal
                /\ s = <<queuedJobs'[j].request, queuedJobs'[j].status>>
        BY <3>3, <1>2 DEF SettledJobs
      <4>. QED
        BY <4>1, <1>1 DEF SettledJobs
    <3>. QED
      BY <3>1, <3>2, <3>3
  <2>4. Ledger!Settle(r, outcome)
    BY <2>1, <2>2, <2>3, <1>4 DEF Ledger!Settle
  <2>. QED
    BY <2>1, <2>4, <1>6 DEF Ledger!Next
<1>. QED
  BY <1>5, <1>6

\* Without restores the queue implements the ledger: leases, retries, recovery
\* and racing reports never submit a key twice or settle a submission twice.
THEOREM RefinesLedger ==
  ASSUME MaxRestores = 0
  PROVE  Spec => ImplementsLedger
<1>1. Init => Ledger!Init
  BY DEF Init, Ledger!Init, Submitted, SettledJobs
<1>2. ASSUME IInv, [Next]_vars
      PROVE  [Ledger!Next]_(Ledger!ledgerVars)
  <2>1. CASE \E r \in RequestRecord : EnqueueNormalizedJob(r)
    BY <1>2, <2>1, EnqueueSubmits
  <2>2. CASE \E w \in Worker : CompleteJob(w) \/ RecordJobFailure(w)
    BY <1>2, <2>2, ReportSettles DEF Ledger!ledgerVars
  <2>3. CASE Quiet
    <3>1. SettledJobs' = SettledJobs
      BY <2>3, SameSettled DEF Quiet
    <3>2. Submitted' = Submitted
      BY <2>3 DEF Quiet, Submitted
    <3>. QED
      BY <3>1, <3>2 DEF Ledger!ledgerVars
  <2>4. ~(restores < MaxRestores)
    BY <1>2 DEF IInv, TypeOK
  <2>. QED
    BY <1>2, <2>1, <2>2, <2>3, <2>4, StepClasses
<1>. QED
  BY <1>1, <1>2, Invariance, PTL DEF Spec, ImplementsLedger, Ledger!Spec
=============================================================================

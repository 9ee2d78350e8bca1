----------------------------- MODULE MCJobQueue -----------------------------
(* Small instances of JobQueue. *)
EXTENDS JobQueue, TLC

CONSTANTS w1, w2, c1, k1, k2, x1, x2, b1, p1

\* Each loop presents a name of its own.
OwnNames == [w \in Worker |-> IF w = w1 THEN "worker:one" ELSE "worker:two"]
MCWorkerId == {"worker:one", "worker:two"}

Req(key, kind, priority, enforcement, evidence, payload, maxAttempts) ==
  [key |-> key, kind |-> kind, connector |-> c1, priority |-> priority,
   enforcement |-> enforcement, evidence |-> evidence, payload |-> payload,
   provisions |-> NoJob, maxAttempts |-> maxAttempts, replayedFrom |-> NoJob]

\* An enforcement job with evidence, as the control plane stores it.
Stored(revokes) ==
  {[id |-> p1, connector |-> c1, key |-> k2, revokes |-> revokes, priority |-> "default",
    enforcement |-> TRUE, evidence |-> TRUE, payload |-> x1]}

\* One job, resubmitted, replayed and restored, and an enforcement without evidence.
RestoreRequests ==
  {Req(k1, "discovery", "normal", FALSE, FALSE, x1, 1), Req(k2, "provisioning", "normal", TRUE, FALSE, x1, 1)}
RestoreProvisioningJobs == Stored(FALSE)

\* A discovery job, an enforcement without evidence and an emergency revocation compete;
\* the last two have one key.
LiveRequests ==
  {Req(k1, "discovery", "normal", FALSE, FALSE, x1, 2),
   Req(k2, "provisioning", "normal", TRUE, FALSE, x1, 1)}
LiveProvisioningJobs == Stored(TRUE)
=============================================================================

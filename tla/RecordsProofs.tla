---------------------------- MODULE RecordsProofs ----------------------------
(***************************************************************************)
(* Proofs about the records that the API keeps in memory (Records), for    *)
(* every value of the constants.                                           *)
(***************************************************************************)
EXTENDS Records, Naturals, Sequences, FiniteSets, FiniteSetTheorems, SequenceTheorems, WellFoundedInduction, TLAPS

-----------------------------------------------------------------------------
(* Reconciliation runs *)

\* The library is instantiated with the module: its operators are those of FiniteSets.
LEMMA DriftFinite == ASSUME NEW T PROVE D!IsFiniteSet(T) <=> IsFiniteSet(T)
BY DEF D!IsFiniteSet, IsFiniteSet

LEMMA DriftCardinality == ASSUME NEW T PROVE D!Cardinality(T) = Cardinality(T)
BY DriftFinite DEF D!Cardinality, Cardinality

Reconciling(c) == repairs[c] # Null /\ repairs[c].kind = "reconcile"
Remediating(c) == repairs[c] # Null /\ repairs[c].kind = "remediate"

\* Every number that was given out, to a run that waits or to one that is recorded, is its
\* own, and the sequence is at least as far.
NumbersInv ==
  /\ runNumber \in Nat
  /\ IsFiniteSet(runs) /\ Cardinality(runs) = finished /\ finished \in Nat
  /\ repairs = [c \in Task |-> repairs[c]]
  /\ \A x \in runs : x.number \in 1..runNumber
  /\ \A c \in Task : Reconciling(c) => /\ repairs[c].number \in 1..runNumber
                                       /\ \A x \in runs : x.number # repairs[c].number
  /\ \A b, c \in Task : b # c /\ Reconciling(b) /\ Reconciling(c) => repairs[b].number # repairs[c].number

LEMMA FreshNumber ==
  ASSUME NumbersInv
  PROVE  /\ D!nextAppRecordSequence \in Nat
         /\ D!nextAppRecordSequence > runNumber
<1>. DEFINE m == D!Max({runNumber, D!Cardinality(runs)})
<1>1. runNumber \in Nat /\ D!Cardinality(runs) \in Nat
  BY DriftCardinality DEF NumbersInv
<1>2. /\ m \in {runNumber, D!Cardinality(runs)}
      /\ \A y \in {runNumber, D!Cardinality(runs)} : m >= y
  BY <1>1 DEF D!Max
<1>3. D!nextAppRecordSequence = m + 1
  BY DEF D!nextAppRecordSequence
<1>. HIDE DEF m
<1>. QED
  BY <1>1, <1>2, <1>3

LEMMA NumbersInit == D!Init => NumbersInv
<1>. SUFFICES ASSUME D!Init PROVE NumbersInv
  OBVIOUS
<1>1. runs = {} /\ runNumber = 0 /\ finished = 0 /\ repairs = [c \in Task |-> Null]
  BY DEF D!Init
<1>. QED
  BY <1>1, FS_EmptySet DEF NumbersInv, Reconciling

LEMMA NumbersStep == NumbersInv /\ [D!Next]_(D!driftVars) => NumbersInv'
<1>. SUFFICES ASSUME NumbersInv, [D!Next]_(D!driftVars) PROVE NumbersInv'
  OBVIOUS
<1>1. ASSUME NEW c \in Task, D!StartReconciliation(c)
      PROVE  NumbersInv'
  <2>. DEFINE n == D!nextAppRecordSequence
  <2>1. /\ runNumber' = n /\ repairs' = [repairs EXCEPT ![c] = [kind |-> "reconcile", number |-> n, started |-> today]]
        /\ UNCHANGED <<runs, finished>>
    BY <1>1 DEF D!StartReconciliation
  <2>2. n \in Nat /\ n > runNumber
    BY FreshNumber
  <2>. HIDE DEF n
  <2>3. \A b \in Task : repairs'[b] = IF b = c THEN [kind |-> "reconcile", number |-> n, started |-> today] ELSE repairs[b]
    BY <2>1 DEF NumbersInv
  <2>. QED
    BY <2>1, <2>2, <2>3 DEF NumbersInv, Reconciling
<1>2. ASSUME NEW c \in Task, NEW f \in Finding, NEW r \in DriftReport, D!FinishReconciliation(c, f, r)
      PROVE  NumbersInv'
  <2>. DEFINE x == [started |-> repairs[c].started, number |-> repairs[c].number]
  <2>1. /\ Reconciling(c) /\ runs' = runs \cup {x} /\ finished' = finished + 1
        /\ repairs' = [repairs EXCEPT ![c] = Null] /\ runNumber' = runNumber
    BY <1>2 DEF D!FinishReconciliation, Reconciling
  <2>2. x.number = repairs[c].number
    OBVIOUS
  <2>3. x \notin runs
    BY <2>1, <2>2 DEF NumbersInv
  <2>4. IsFiniteSet(runs') /\ Cardinality(runs') = Cardinality(runs) + 1
    BY <2>1, <2>3, FS_AddElement DEF NumbersInv
  <2>5. \A b \in Task : repairs'[b] = IF b = c THEN Null ELSE repairs[b]
    BY <2>1 DEF NumbersInv
  <2>6. \A b \in Task : Reconciling(b)' => Reconciling(b) /\ b # c /\ repairs'[b] = repairs[b]
    BY <2>5 DEF Reconciling
  <2>. HIDE DEF x
  <2>7. \A y \in runs' : y.number \in 1..runNumber
    BY <2>1, <2>2 DEF NumbersInv
  <2>8. \A b \in Task : Reconciling(b)' => \A y \in runs' : y.number # repairs'[b].number
    BY <2>1, <2>2, <2>6 DEF NumbersInv
  <2>. QED
    BY <2>1, <2>4, <2>5, <2>6, <2>7, <2>8 DEF NumbersInv
<1>3. ASSUME NEW c \in Task, NEW new, repairs' = [repairs EXCEPT ![c] = new],
             new # Null => new.kind # "reconcile", UNCHANGED <<runs, runNumber, finished>>
      PROVE  NumbersInv'
  <2>1. \A b \in Task : repairs'[b] = IF b = c THEN new ELSE repairs[b]
    BY <1>3 DEF NumbersInv
  <2>2. \A b \in Task : Reconciling(b)' => Reconciling(b) /\ repairs'[b] = repairs[b]
    BY <1>3, <2>1 DEF Reconciling
  <2>. QED
    BY <1>3, <2>1, <2>2 DEF NumbersInv
<1>4. ASSUME NEW c \in Task, NEW f \in Finding, NEW p \in Policy, D!StartRemediation(c, f, p)
      PROVE  NumbersInv'
  <2>. DEFINE new == [kind |-> "remediate", finding |-> f, read |-> findings[f], policy |-> p]
  <2>1. repairs' = [repairs EXCEPT ![c] = new] /\ UNCHANGED <<runs, runNumber, finished>>
    BY <1>4 DEF D!StartRemediation
  <2>2. new # Null => new.kind # "reconcile"
    OBVIOUS
  <2>. HIDE DEF new
  <2>. QED
    BY <1>3, <2>1, <2>2
<1>5. ASSUME NEW c \in Task, D!FinishRemediation(c) \/ D!FailCall(c)
      PROVE  NumbersInv'
  <2>1. repairs' = [repairs EXCEPT ![c] = Null] /\ UNCHANGED <<runs, runNumber, finished>>
    BY <1>5 DEF D!FinishRemediation, D!FailCall
  <2>. QED
    BY <1>3, <2>1
<1>6. ASSUME UNCHANGED <<runs, runNumber, finished, repairs>>
      PROVE  NumbersInv'
  BY <1>6 DEF NumbersInv, Reconciling
<1>7. D!ExportEvidence \/ D!Tick \/ UNCHANGED D!driftVars => UNCHANGED <<runs, runNumber, finished, repairs>>
  BY DEF D!ExportEvidence, D!Tick, D!driftVars
<1>. QED
  BY <1>1, <1>2, <1>4, <1>5, <1>6, <1>7 DEF D!Next


-----------------------------------------------------------------------------
(* Findings under repair *)

\* A finding has the fields that enrichDriftFindingLifecycle gives it.
IsFinding(d) ==
  d = [severity |-> d.severity, action |-> d.action, hasGrant |-> d.hasGrant, status |-> d.status,
       detected |-> d.detected, lifecycle |-> d.lifecycle, policy |-> d.policy, approved |-> d.approved]

\* What a remediation has read passed the controls of its policy, and so does what is stored
\* as being repaired; a reconciliation in between replaces the whole finding.
RepairInv ==
  /\ repairs = [c \in Task |-> repairs[c]]
  /\ findings = [f \in Finding |-> findings[f]]
  /\ \A f \in Finding : findings[f] # Null => IsFinding(findings[f])
  /\ \A c \in Task : Remediating(c) =>
       /\ repairs[c].finding \in Finding
       /\ IsFinding(repairs[c].read)
       /\ D!assertDriftRemediationControls(repairs[c].read, repairs[c].policy)
  /\ D!RepairIsWithinPolicy

LEMMA ReportedFinding ==
  ASSUME NEW r
  PROVE  /\ IsFinding(D!enrichDriftFindingLifecycle(r))
         /\ D!enrichDriftFindingLifecycle(r).status = "open"
         /\ D!enrichDriftFindingLifecycle(r).detected = today
<1>. DEFINE lifecycle == D!resolveDriftLifecycleState("open", Null)
            policy == D!createDefaultDriftAutoRepairPolicy(r.severity, r.action)
<1>1. D!enrichDriftFindingLifecycle(r) =
        [severity |-> r.severity, action |-> r.action, hasGrant |-> r.hasGrant, status |-> "open", detected |-> today,
         lifecycle |-> lifecycle, policy |-> policy, approved |-> FALSE]
  BY DEF D!enrichDriftFindingLifecycle
<1>. HIDE DEF lifecycle, policy
<1>. QED
  BY <1>1 DEF IsFinding

LEMMA SeededFinding ==
  ASSUME NEW d \in D!Seeded
  PROVE  IsFinding(d) /\ d.status \in {"accepted", "resolved"} /\ d.detected = today
<1>1. PICK r \in DriftReport, status \in {"accepted", "resolved"} : d = D!Settled(D!enrichDriftFindingLifecycle(r), status)
  BY DEF D!Seeded
<1>. DEFINE e == D!enrichDriftFindingLifecycle(r)
<1>2. d = [e EXCEPT !.status = status, !.lifecycle = status]
  BY <1>1 DEF D!Settled
<1>3. IsFinding(e) /\ e.detected = today
  BY ReportedFinding
<1>. HIDE DEF e
<1>. QED
  BY <1>2, <1>3 DEF IsFinding

\* The approval changes nothing that the controls look at.
LEMMA RepairingFinding ==
  ASSUME NEW d, NEW policy, IsFinding(d)
  PROVE  /\ IsFinding(D!Repairing(d, policy))
         /\ D!Repairing(d, policy).severity = d.severity
         /\ D!Repairing(d, policy).action = d.action
         /\ D!Repairing(d, policy).policy = policy
         /\ D!Repairing(d, policy).detected = d.detected
         /\ D!Repairing(d, policy).status = "repairing"
<1>1. D!Repairing(d, policy) =
        [d EXCEPT !.status = "repairing", !.lifecycle = "repairing", !.policy = policy, !.approved = TRUE]
  BY DEF D!Repairing
<1>. QED
  BY <1>1 DEF IsFinding

LEMMA RepairInit == D!Init => RepairInv
<1>. SUFFICES ASSUME D!Init PROVE RepairInv
  OBVIOUS
<1>1. repairs = [c \in Task |-> Null] /\ findings \in [Finding -> {Null} \cup D!Seeded]
  BY DEF D!Init
<1>2. \A f \in Finding : findings[f] # Null => IsFinding(findings[f]) /\ findings[f].status # "repairing"
  BY <1>1, SeededFinding
<1>. QED
  BY <1>1, <1>2 DEF RepairInv, Remediating, D!RepairIsWithinPolicy

LEMMA RepairStep == RepairInv /\ [D!Next]_(D!driftVars) => RepairInv'
<1>. SUFFICES ASSUME RepairInv, [D!Next]_(D!driftVars) PROVE RepairInv'
  OBVIOUS
<1>. DEFINE Fine(d) == IsFinding(d) /\ (d.status = "repairing" => D!assertDriftRemediationControls(d, d.policy))
<1>0. \A f \in Finding : findings[f] # Null => Fine(findings[f])
  BY DEF RepairInv, D!RepairIsWithinPolicy
\* A step that stores one finding, and ends or begins one call, keeps the invariant if what
\* it stores and what it begins with are fine.
<1>1. ASSUME NEW f \in Finding, NEW d, Fine(d), NEW c \in Task,
             findings' = [findings EXCEPT ![f] = d], repairs' = [repairs EXCEPT ![c] = Null]
      PROVE  RepairInv'
  <2>1. /\ \A g \in Finding : findings'[g] = IF g = f THEN d ELSE findings[g]
        /\ \A b \in Task : repairs'[b] = IF b = c THEN Null ELSE repairs[b]
        /\ findings' = [g \in Finding |-> findings'[g]] /\ repairs' = [b \in Task |-> repairs'[b]]
    BY <1>1 DEF RepairInv
  <2>2. \A g \in Finding : findings'[g] # Null => Fine(findings'[g])
    <3>. HIDE DEF Fine
    <3>. QED
      BY <1>0, <1>1, <2>1
  <2>3. \A b \in Task : Remediating(b)' => Remediating(b) /\ repairs'[b] = repairs[b]
    BY <2>1 DEF Remediating
  <2>4. D!RepairIsWithinPolicy'
    BY <2>2 DEF D!RepairIsWithinPolicy, D!assertDriftRemediationControls, D!driftSeverityAllowed, D!driftRemediationAction
  <2>. QED
    BY <2>1, <2>2, <2>3, <2>4 DEF RepairInv, D!assertDriftRemediationControls, D!driftSeverityAllowed, D!driftRemediationAction
<1>2. ASSUME NEW c \in Task, NEW new, findings' = findings, repairs' = [repairs EXCEPT ![c] = new],
             new # Null /\ new.kind = "remediate" =>
               /\ new.finding \in Finding /\ IsFinding(new.read)
               /\ D!assertDriftRemediationControls(new.read, new.policy)
      PROVE  RepairInv'
  <2>1. \A b \in Task : repairs'[b] = IF b = c THEN new ELSE repairs[b]
    BY <1>2 DEF RepairInv
  <2>2. repairs' = [b \in Task |-> repairs'[b]]
    BY <1>2 DEF RepairInv
  <2>3. \A b \in Task : Remediating(b)' =>
          /\ repairs'[b].finding \in Finding
          /\ IsFinding(repairs'[b].read)
          /\ D!assertDriftRemediationControls(repairs'[b].read, repairs'[b].policy)
    BY <1>2, <2>1 DEF RepairInv, Remediating
  <2>4. D!RepairIsWithinPolicy'
    BY <1>2 DEF RepairInv, D!RepairIsWithinPolicy, D!assertDriftRemediationControls, D!driftSeverityAllowed, D!driftRemediationAction
  <2>. QED
    BY <1>2, <2>2, <2>3, <2>4 DEF RepairInv, D!assertDriftRemediationControls, D!driftSeverityAllowed, D!driftRemediationAction
<1>3. ASSUME NEW c \in Task, D!StartReconciliation(c)
      PROVE  RepairInv'
  <2>. DEFINE n == D!nextAppRecordSequence
              new == [kind |-> "reconcile", number |-> n, started |-> today]
  <2>1. findings' = findings /\ repairs' = [repairs EXCEPT ![c] = new]
    BY <1>3 DEF D!StartReconciliation
  <2>2. new.kind # "remediate"
    OBVIOUS
  <2>. HIDE DEF new
  <2>. QED
    BY <1>2, <2>1, <2>2
<1>4. ASSUME NEW c \in Task, NEW f \in Finding, NEW r \in DriftReport, D!FinishReconciliation(c, f, r)
      PROVE  RepairInv'
  <2>. DEFINE d == D!enrichDriftFindingLifecycle(r)
  <2>1. findings' = [findings EXCEPT ![f] = d] /\ repairs' = [repairs EXCEPT ![c] = Null]
    BY <1>4 DEF D!FinishReconciliation
  <2>2. Fine(d)
    BY ReportedFinding
  <2>. HIDE DEF d, Fine
  <2>. QED
    BY <1>1, <2>1, <2>2
<1>5. ASSUME NEW c \in Task, NEW f \in Finding, NEW p \in Policy, D!StartRemediation(c, f, p)
      PROVE  RepairInv'
  <2>. DEFINE new == [kind |-> "remediate", finding |-> f, read |-> findings[f], policy |-> p]
  <2>1. /\ findings' = findings /\ repairs' = [repairs EXCEPT ![c] = new]
        /\ findings[f] # Null /\ D!assertDriftRemediationControls(findings[f], p)
    BY <1>5 DEF D!StartRemediation
  <2>2. new.finding = f /\ new.read = findings[f] /\ new.policy = p
    OBVIOUS
  <2>3. IsFinding(findings[f])
    BY <2>1 DEF RepairInv
  <2>. HIDE DEF new
  <2>. QED
    BY <1>2, <2>1, <2>2, <2>3
<1>6. ASSUME NEW c \in Task, D!FinishRemediation(c)
      PROVE  RepairInv'
  <2>. DEFINE d == D!Repairing(repairs[c].read, repairs[c].policy)
  <2>1. /\ Remediating(c) /\ findings' = [findings EXCEPT ![repairs[c].finding] = d]
        /\ repairs' = [repairs EXCEPT ![c] = Null]
    BY <1>6 DEF D!FinishRemediation, Remediating
  <2>2. /\ repairs[c].finding \in Finding /\ IsFinding(repairs[c].read)
        /\ D!assertDriftRemediationControls(repairs[c].read, repairs[c].policy)
    BY <2>1 DEF RepairInv
  <2>3. Fine(d)
    BY <2>2, RepairingFinding DEF D!assertDriftRemediationControls
  <2>. HIDE DEF d, Fine
  <2>. QED
    BY <1>1, <2>1, <2>2, <2>3
<1>7. ASSUME NEW c \in Task, D!FailCall(c)
      PROVE  RepairInv'
  <2>1. findings' = findings /\ repairs' = [repairs EXCEPT ![c] = Null]
    BY <1>7 DEF D!FailCall
  <2>. QED
    BY <1>2, <2>1
<1>8. ASSUME UNCHANGED <<findings, repairs>>
      PROVE  RepairInv'
  BY <1>8 DEF RepairInv, Remediating, D!RepairIsWithinPolicy, D!assertDriftRemediationControls, D!driftSeverityAllowed, D!driftRemediationAction
<1>9. D!ExportEvidence \/ D!Tick \/ UNCHANGED D!driftVars => UNCHANGED <<findings, repairs>>
  BY DEF D!ExportEvidence, D!Tick, D!driftVars
<1>. QED
  BY <1>3, <1>4, <1>5, <1>6, <1>7, <1>8, <1>9 DEF D!Next

\* No reconciliation run replaces the record of another one, however many of them wait for
\* the connector, and what is under repair is what the approval of its remediation covers,
\* also if a reconciliation replaced the finding while the plan was made
\* (runReconciliation, nextAppRecordSequence, planDriftRemediationDryRun).
THEOREM ReconciliationHolds == D!Spec => []ReconciliationIsSound
<1>1. D!Init => NumbersInv /\ RepairInv
  BY NumbersInit, RepairInit
<1>2. NumbersInv /\ RepairInv /\ [D!Next]_(D!driftVars) => (NumbersInv /\ RepairInv)'
  BY NumbersStep, RepairStep
<1>3. NumbersInv /\ RepairInv => ReconciliationIsSound
  BY DriftCardinality DEF NumbersInv, RepairInv, ReconciliationIsSound, D!ReconciliationIsSound, D!RunsAreDistinct
<1>. QED
  BY <1>1, <1>2, <1>3, PTL DEF D!Spec

-----------------------------------------------------------------------------
(* Terms of exceptions *)

\* The time of detection is a day, so is the term of an exception; one that has expired is
\* over, and time does not go back.
TermInv ==
  /\ today \in Nat
  /\ findings = [f \in Finding |-> findings[f]]
  /\ repairs = [c \in Task |-> repairs[c]]
  /\ \A f \in Finding : findings[f] # Null => IsFinding(findings[f]) /\ findings[f].detected \in Nat
  /\ \A c \in Task : Remediating(c) =>
       /\ repairs[c].finding \in Finding
       /\ IsFinding(repairs[c].read) /\ repairs[c].read.detected \in Nat
  /\ \A f \in Finding : exceptions[f] # Null =>
       /\ exceptions[f].expires \in Nat
       /\ exceptions[f].status = "expired" => today > exceptions[f].expires

\* exceptionRequestStatus tells an exception that is over from one that is not.
LEMMA RequestStatus ==
  ASSUME NEW d, NEW expires \in Nat, today \in Nat
  PROVE  /\ D!exceptionRequestStatus(d, expires) = "expired" => today > expires
         /\ today > expires => D!exceptionRequestStatus(d, expires) \in {"expired", "remediated"}
BY DEF D!exceptionRequestStatus

\* A request that is built anew keeps its term.
LEMMA RequestBuilt ==
  ASSUME NEW d, NEW existing
  PROVE  LET request == D!buildExceptionRequest(d, existing)
         IN  /\ request.expires = D!exceptionExpiresAt(d, existing)
             /\ request.status = D!exceptionRequestStatus(d, D!exceptionExpiresAt(d, existing))
<1>. DEFINE expires == D!exceptionExpiresAt(d, existing)
            status == D!exceptionRequestStatus(d, expires)
            risk == D!riskAcceptanceStatus(existing, status)
            approval == IF existing # Null THEN existing.approval
                        ELSE IF status = "risk_accepted" THEN "approved" ELSE "pending"
<1>1. D!buildExceptionRequest(d, existing) = [status |-> status, expires |-> expires, risk |-> risk, approval |-> approval]
  BY DEF D!buildExceptionRequest
<1>. HIDE DEF expires, status, risk, approval
<1>2. D!buildExceptionRequest(d, existing).expires = expires /\ D!buildExceptionRequest(d, existing).status = status
  BY <1>1
<1>. QED
  BY <1>2 DEF expires, status

\* What an export makes of the exceptions.
LEMMA ExportedExceptions ==
  ASSUME D!ExportEvidence, NEW f \in Finding
  PROVE  exceptions'[f] = IF findings[f] = Null \/ ~ D!requiresExceptionRequest(findings[f]) THEN exceptions[f]
                          ELSE D!buildExceptionRequest(findings[f], exceptions[f])
<1>1. exceptions' = D!buildAccessReviewGovernance.requests
  BY DEF D!ExportEvidence
<1>. DEFINE requests == [g \in Finding |->
       IF findings[g] = Null \/ ~ D!requiresExceptionRequest(findings[g]) THEN exceptions[g]
       ELSE D!buildExceptionRequest(findings[g], exceptions[g])]
            made == [g \in Finding |->
       IF findings[g] = Null THEN governance[g]
       ELSE D!buildGovernanceFinding(findings[g], governance[g], D!exceptionExpiresAt(findings[g], exceptions[g]))]
<1>2. D!buildAccessReviewGovernance = [findings |-> made, requests |-> requests]
  BY DEF D!buildAccessReviewGovernance
<1>3. requests[f] = IF findings[f] = Null \/ ~ D!requiresExceptionRequest(findings[f]) THEN exceptions[f]
                    ELSE D!buildExceptionRequest(findings[f], exceptions[f])
  OBVIOUS
<1>. HIDE DEF requests, made
<1>4. exceptions' = requests
  BY <1>1, <1>2
<1>. QED
  BY <1>3, <1>4

LEMMA TermInit == D!Init => TermInv
<1>. SUFFICES ASSUME D!Init PROVE TermInv
  OBVIOUS
<1>1. /\ repairs = [c \in Task |-> Null] /\ findings \in [Finding -> {Null} \cup D!Seeded] /\ today = 0
      /\ exceptions = [f \in Finding |-> Null]
  BY DEF D!Init
<1>2. \A f \in Finding : findings[f] # Null => IsFinding(findings[f]) /\ findings[f].detected = today
  BY <1>1, SeededFinding
<1>. QED
  BY <1>1, <1>2 DEF TermInv, Remediating

\* A step keeps the term of every exception, and what has expired stays so or is remediated.
TermsKept ==
  \A f \in Finding : exceptions[f] # Null =>
    /\ exceptions'[f].expires = exceptions[f].expires
    /\ exceptions[f].status = "expired" => exceptions'[f].status \in {"expired", "remediated"}

LEMMA TermStep ==
  ASSUME ExceptionDays \in Nat, TermInv, [D!Next]_(D!driftVars)
  PROVE  TermInv' /\ TermsKept
<1>1. ASSUME NEW f \in Finding, NEW d, IsFinding(d), d.detected \in Nat, NEW c \in Task,
             findings' = [findings EXCEPT ![f] = d], repairs' = [repairs EXCEPT ![c] = Null],
             UNCHANGED <<exceptions, today>>
      PROVE  TermInv' /\ TermsKept
  <2>1. /\ \A g \in Finding : findings'[g] = IF g = f THEN d ELSE findings[g]
        /\ \A b \in Task : repairs'[b] = IF b = c THEN Null ELSE repairs[b]
        /\ findings' = [g \in Finding |-> findings'[g]] /\ repairs' = [b \in Task |-> repairs'[b]]
    BY <1>1 DEF TermInv
  <2>2. \A g \in Finding : findings'[g] # Null => IsFinding(findings'[g]) /\ findings'[g].detected \in Nat
    BY <1>1, <2>1 DEF TermInv
  <2>3. \A b \in Task : Remediating(b)' => Remediating(b) /\ repairs'[b] = repairs[b]
    BY <2>1 DEF Remediating
  <2>. QED
    BY <1>1, <2>1, <2>2, <2>3 DEF TermInv, TermsKept
<1>2. ASSUME NEW c \in Task, NEW new, repairs' = [repairs EXCEPT ![c] = new], UNCHANGED <<findings, exceptions, today>>,
             new # Null /\ new.kind = "remediate" =>
               new.finding \in Finding /\ IsFinding(new.read) /\ new.read.detected \in Nat
      PROVE  TermInv' /\ TermsKept
  <2>1. \A b \in Task : repairs'[b] = IF b = c THEN new ELSE repairs[b]
    BY <1>2 DEF TermInv
  <2>2. repairs' = [b \in Task |-> repairs'[b]]
    BY <1>2 DEF TermInv
  <2>3. \A b \in Task : Remediating(b)' =>
          repairs'[b].finding \in Finding /\ IsFinding(repairs'[b].read) /\ repairs'[b].read.detected \in Nat
    BY <1>2, <2>1 DEF TermInv, Remediating
  <2>. QED
    BY <1>2, <2>2, <2>3 DEF TermInv, TermsKept
<1>3. ASSUME NEW c \in Task, D!StartReconciliation(c)
      PROVE  TermInv' /\ TermsKept
  <2>. DEFINE n == D!nextAppRecordSequence
              new == [kind |-> "reconcile", number |-> n, started |-> today]
  <2>1. UNCHANGED <<findings, exceptions, today>> /\ repairs' = [repairs EXCEPT ![c] = new]
    BY <1>3 DEF D!StartReconciliation
  <2>2. new.kind # "remediate"
    OBVIOUS
  <2>. HIDE DEF new
  <2>. QED
    BY <1>2, <2>1, <2>2
<1>4. ASSUME NEW c \in Task, NEW f \in Finding, NEW r \in DriftReport, D!FinishReconciliation(c, f, r)
      PROVE  TermInv' /\ TermsKept
  <2>. DEFINE d == D!enrichDriftFindingLifecycle(r)
  <2>1. /\ findings' = [findings EXCEPT ![f] = d] /\ repairs' = [repairs EXCEPT ![c] = Null]
        /\ UNCHANGED <<exceptions, today>>
    BY <1>4 DEF D!FinishReconciliation
  <2>2. IsFinding(d) /\ d.detected \in Nat
    BY ReportedFinding DEF TermInv
  <2>. HIDE DEF d
  <2>. QED
    BY <1>1, <2>1, <2>2
<1>5. ASSUME NEW c \in Task, NEW f \in Finding, NEW p \in Policy, D!StartRemediation(c, f, p)
      PROVE  TermInv' /\ TermsKept
  <2>. DEFINE new == [kind |-> "remediate", finding |-> f, read |-> findings[f], policy |-> p]
  <2>1. UNCHANGED <<findings, exceptions, today>> /\ repairs' = [repairs EXCEPT ![c] = new] /\ findings[f] # Null
    BY <1>5 DEF D!StartRemediation
  <2>2. new.finding = f /\ new.read = findings[f]
    OBVIOUS
  <2>3. IsFinding(findings[f]) /\ findings[f].detected \in Nat
    BY <2>1 DEF TermInv
  <2>. HIDE DEF new
  <2>. QED
    BY <1>2, <2>1, <2>2, <2>3
<1>6. ASSUME NEW c \in Task, D!FinishRemediation(c)
      PROVE  TermInv' /\ TermsKept
  <2>. DEFINE d == D!Repairing(repairs[c].read, repairs[c].policy)
  <2>1. /\ Remediating(c) /\ findings' = [findings EXCEPT ![repairs[c].finding] = d]
        /\ repairs' = [repairs EXCEPT ![c] = Null] /\ UNCHANGED <<exceptions, today>>
    BY <1>6 DEF D!FinishRemediation, Remediating
  <2>2. repairs[c].finding \in Finding /\ IsFinding(repairs[c].read) /\ repairs[c].read.detected \in Nat
    BY <2>1 DEF TermInv
  <2>3. IsFinding(d) /\ d.detected \in Nat
    BY <2>2, RepairingFinding
  <2>. HIDE DEF d
  <2>. QED
    BY <1>1, <2>1, <2>2, <2>3
<1>7. ASSUME NEW c \in Task, D!FailCall(c)
      PROVE  TermInv' /\ TermsKept
  <2>1. UNCHANGED <<findings, exceptions, today>> /\ repairs' = [repairs EXCEPT ![c] = Null]
    BY <1>7 DEF D!FailCall
  <2>. QED
    BY <1>2, <2>1
<1>8. ASSUME D!ExportEvidence
      PROVE  TermInv' /\ TermsKept
  <2>1. UNCHANGED <<findings, repairs, today>>
    BY <1>8 DEF D!ExportEvidence
  <2>2. ASSUME NEW f \in Finding
        PROVE  /\ exceptions'[f] # Null => /\ exceptions'[f].expires \in Nat
                                           /\ exceptions'[f].status = "expired" => today > exceptions'[f].expires
               /\ exceptions[f] # Null =>
                    /\ exceptions'[f].expires = exceptions[f].expires
                    /\ exceptions[f].status = "expired" => exceptions'[f].status \in {"expired", "remediated"}
    <3>. DEFINE request == D!buildExceptionRequest(findings[f], exceptions[f])
                expires == D!exceptionExpiresAt(findings[f], exceptions[f])
    <3>1. CASE exceptions'[f] = exceptions[f]
      BY <3>1 DEF TermInv
    <3>2. CASE exceptions'[f] = request /\ findings[f] # Null
      <4>1. /\ exceptions[f] = Null => expires = findings[f].detected + ExceptionDays
            /\ exceptions[f] # Null => expires = exceptions[f].expires
        BY DEF D!exceptionExpiresAt
      <4>2. expires \in Nat
        BY <3>2, <4>1 DEF TermInv
      <4>3. request.expires = expires /\ request.status = D!exceptionRequestStatus(findings[f], expires)
        BY RequestBuilt
      <4>4. today \in Nat /\ (exceptions[f] # Null /\ exceptions[f].status = "expired" => today > exceptions[f].expires)
        BY DEF TermInv
      <4>. HIDE DEF request, expires
      <4>5. /\ request.status = "expired" => today > expires
            /\ today > expires => request.status \in {"expired", "remediated"}
        BY <4>2, <4>3, <4>4, RequestStatus
      <4>. QED
        BY <3>2, <4>1, <4>2, <4>3, <4>4, <4>5
    <3>. QED
      BY <1>8, <3>1, <3>2, ExportedExceptions
  <2>. QED
    BY <2>1, <2>2 DEF TermInv, TermsKept, Remediating
<1>9. ASSUME D!Tick
      PROVE  TermInv' /\ TermsKept
  <2>1. today' = today + 1 /\ UNCHANGED <<findings, repairs, exceptions>>
    BY <1>9 DEF D!Tick
  <2>. QED
    BY <2>1 DEF TermInv, TermsKept, Remediating
<1>10. ASSUME UNCHANGED D!driftVars
       PROVE  TermInv' /\ TermsKept
  BY <1>10 DEF D!driftVars, TermInv, TermsKept, Remediating
<1>. QED
  BY <1>3, <1>4, <1>5, <1>6, <1>7, <1>8, <1>9, <1>10 DEF D!Next

\* An exception that has expired stays so until its drift is remediated, and no step moves
\* the end of a term: detecting the same drift again gives it no new one
\* (buildExceptionRequest, exceptionExpiresAt).
THEOREM ExpiryHolds ==
  ASSUME ExceptionDays \in Nat
  PROVE  D!Spec => ExpiryIsFinal
<1>1. D!Init => TermInv
  BY TermInit
<1>2. TermInv /\ [D!Next]_(D!driftVars) => TermInv' /\ TermsKept
  BY TermStep
<1>3. ExpiryIsFinal <=> [][TermsKept]_(D!driftVars)
  BY DEF ExpiryIsFinal, D!ExpiryIsFinal, TermsKept
<1>. QED
  BY <1>1, <1>2, <1>3, PTL DEF D!Spec

-----------------------------------------------------------------------------
(* Policies *)

Summary == [id : Draft, version : {"draft", "published"}, status : {"draft", "validated", "published", "rolled_back"}]
PolicyEvent == [type : {"created", "validated", "validation_failed", "published", "rolled_back"}, policy : Draft]

\* P!LastOf, of any log.
LastIn(log, types, d, n) ==
  LET at == {i \in 1..n : log[i].type \in types /\ log[i].policy = d}
  IN  IF at = {} THEN 0 ELSE CHOOSE i \in at : \A j \in at : j <= i

\* The events that change what a policy is, and those that void a validation.
Stages == {"created", "published", "rolled_back"}
Voids == {"created", "rolled_back", "published", "validation_failed"}

\* The two parts of PublishedIsAccountedFor, for one policy and for one event.
EndsPublished(log, d) ==
  LET n == LastIn(log, Stages, d, Len(log)) IN n > 0 /\ log[n].type = "published"
WasValidated(log, n) ==
  LastIn(log, {"validated"}, log[n].policy, n - 1) > LastIn(log, Voids, log[n].policy, n - 1)

\* A policy that may be published has a validation that nothing has voided since.
PolicyInv ==
  /\ policies \in [Draft -> {Null} \cup Summary]
  /\ trail \in Seq(PolicyEvent)
  /\ \A d \in Draft : LastIn(trail, Voids, d, Len(trail)) \in 0..Len(trail)
  /\ \A d \in Draft : LastIn(trail, Stages, d, Len(trail)) \in 0..Len(trail)
  /\ \A d \in Draft : (policies[d] # Null /\ policies[d].status = "published") <=> EndsPublished(trail, d)
  /\ \A d \in Draft : policies[d] # Null /\ policies[d].status = "validated" =>
       LastIn(trail, {"validated"}, d, Len(trail)) > LastIn(trail, Voids, d, Len(trail))
  /\ \A n \in 1..Len(trail) : trail[n].type = "published" => WasValidated(trail, n)

LEMMA LastAfterAppend ==
  ASSUME NEW log \in Seq(PolicyEvent), NEW e \in PolicyEvent, NEW types, NEW d
  PROVE  /\ \A n \in 0..Len(log) : LastIn(Append(log, e), types, d, n) = LastIn(log, types, d, n)
         /\ e.type \in types /\ e.policy = d =>
              LastIn(Append(log, e), types, d, Len(log) + 1) = Len(log) + 1
         /\ ~(e.type \in types /\ e.policy = d) =>
              LastIn(Append(log, e), types, d, Len(log) + 1) = LastIn(log, types, d, Len(log))
<1>. DEFINE longer == Append(log, e)
            At(l, n) == {i \in 1..n : l[i].type \in types /\ l[i].policy = d}
            Pick(T) == IF T = {} THEN 0 ELSE CHOOSE i \in T : \A j \in T : j <= i
<1>1. /\ Len(log) \in Nat /\ longer[Len(log) + 1] = e
      /\ \A i \in 1..Len(log) : longer[i] = log[i]
  OBVIOUS
<1>2. \A l, n : LastIn(l, types, d, n) = Pick(At(l, n))
  BY DEF LastIn
<1>. HIDE DEF longer
<1>3. ASSUME NEW n \in 0..Len(log)
      PROVE  At(longer, n) = At(log, n)
  BY <1>1
<1>4. ASSUME e.type \in types, e.policy = d
      PROVE  Pick(At(longer, Len(log) + 1)) = Len(log) + 1
  <2>. DEFINE T == At(longer, Len(log) + 1)
  <2>1. Len(log) + 1 \in T /\ \A j \in T : j \in Nat /\ j <= Len(log) + 1
    BY <1>1, <1>4
  <2>. HIDE DEF T
  <2>2. Pick(T) = Len(log) + 1
    <3>. DEFINE m == CHOOSE i \in T : \A j \in T : j <= i
    <3>1. m \in T /\ \A j \in T : j <= m
      BY <2>1
    <3>2. Pick(T) = m
      BY <2>1
    <3>. HIDE DEF m, Pick
    <3>. QED
      BY <1>1, <2>1, <3>1, <3>2
  <2>. HIDE DEF Pick, At
  <2>. QED
    BY <2>2 DEF T
<1>5. ASSUME ~(e.type \in types /\ e.policy = d)
      PROVE  At(longer, Len(log) + 1) = At(log, Len(log))
  BY <1>1, <1>5
<1>. HIDE DEF At, Pick
<1>. QED
  BY <1>1, <1>2, <1>3, <1>4, <1>5 DEF longer


\* A handler saves one policy and records one event about it.
LEMMA PolicyRecorded ==
  ASSUME Null \notin Summary, PolicyInv, NEW d0 \in Draft, NEW s \in Summary, NEW e \in PolicyEvent, e.policy = d0,
         policies' = [policies EXCEPT ![d0] = s], trail' = Append(trail, e),
         e.type \in Stages => (s.status = "published" <=> e.type = "published"),
         e.type \notin Stages => (s.status = "published" <=> policies[d0] # Null /\ policies[d0].status = "published"),
         s.status = "validated" => e.type = "validated",
         e.type = "published" => policies[d0] # Null /\ policies[d0].status = "validated"
  PROVE  PolicyInv'
<1>. DEFINE m == Len(trail)
<1>1. /\ m \in Nat /\ trail' \in Seq(PolicyEvent) /\ Len(trail') = m + 1 /\ trail'[m + 1] = e
      /\ \A n \in 1..m : trail'[n] = trail[n]
  BY DEF PolicyInv
<1>2. \A d \in Draft : policies'[d] = IF d = d0 THEN s ELSE policies[d]
  BY DEF PolicyInv
<1>3. \A types, d :
        /\ \A n \in 0..m : LastIn(trail', types, d, n) = LastIn(trail, types, d, n)
        /\ e.type \in types /\ d0 = d => LastIn(trail', types, d, m + 1) = m + 1
        /\ ~(e.type \in types /\ d0 = d) => LastIn(trail', types, d, m + 1) = LastIn(trail, types, d, m)
  <2>. SUFFICES ASSUME NEW types, NEW d
                PROVE  /\ \A n \in 0..m : LastIn(trail', types, d, n) = LastIn(trail, types, d, n)
                       /\ e.type \in types /\ d0 = d => LastIn(trail', types, d, m + 1) = m + 1
                       /\ ~(e.type \in types /\ d0 = d) => LastIn(trail', types, d, m + 1) = LastIn(trail, types, d, m)
    OBVIOUS
  <2>1. trail \in Seq(PolicyEvent)
    BY DEF PolicyInv
  <2>2. /\ \A n \in 0..m : LastIn(Append(trail, e), types, d, n) = LastIn(trail, types, d, n)
        /\ e.type \in types /\ e.policy = d => LastIn(Append(trail, e), types, d, m + 1) = m + 1
        /\ ~(e.type \in types /\ e.policy = d) =>
             LastIn(Append(trail, e), types, d, m + 1) = LastIn(trail, types, d, m)
    BY <2>1, LastAfterAppend
  <2>. QED
    BY <2>2
<1>. HIDE DEF m
<1>4. ASSUME NEW d \in Draft, NEW types \in {Stages, Voids}
      PROVE  LastIn(trail', types, d, m + 1) \in 0..m + 1
  <2>1. LastIn(trail, types, d, m) \in 0..m
    BY DEF PolicyInv, m
  <2>2. \/ LastIn(trail', types, d, m + 1) = m + 1
        \/ LastIn(trail', types, d, m + 1) = LastIn(trail, types, d, m)
    BY <1>3
  <2>. QED
    BY <1>1, <2>1, <2>2
<1>5. ASSUME NEW d \in Draft
      PROVE  (policies'[d] # Null /\ policies'[d].status = "published") <=> EndsPublished(trail', d)
  <2>. DEFINE k == LastIn(trail, Stages, d, m)
  <2>1. k \in 0..m /\ ((policies[d] # Null /\ policies[d].status = "published") <=> (k > 0 /\ trail[k].type = "published"))
    BY DEF PolicyInv, EndsPublished, m
  <2>2. EndsPublished(trail', d) <=>
          LastIn(trail', Stages, d, m + 1) > 0 /\ trail'[LastIn(trail', Stages, d, m + 1)].type = "published"
    BY <1>1 DEF EndsPublished
  <2>3. CASE e.type \in Stages /\ d0 = d
    <3>1. LastIn(trail', Stages, d, m + 1) = m + 1
      BY <1>3, <2>3
    <3>2. EndsPublished(trail', d) <=> e.type = "published"
      BY <1>1, <2>2, <3>1
    <3>. QED
      BY <1>2, <2>3, <3>2
  <2>4. CASE ~(e.type \in Stages /\ d0 = d)
    <3>1. LastIn(trail', Stages, d, m + 1) = k
      BY <1>3, <2>4
    <3>. HIDE DEF k
    <3>2. EndsPublished(trail', d) <=> k > 0 /\ trail[k].type = "published"
      BY <1>1, <2>1, <2>2, <3>1
    <3>. QED
      BY <1>2, <2>1, <2>4, <3>2
  <2>. QED
    BY <2>3, <2>4
<1>6. ASSUME NEW d \in Draft, policies'[d] # Null, policies'[d].status = "validated"
      PROVE  LastIn(trail', {"validated"}, d, m + 1) > LastIn(trail', Voids, d, m + 1)
  <2>1. LastIn(trail, Voids, d, m) \in 0..m
    BY DEF PolicyInv, m
  <2>2. CASE d = d0
    <3>1. e.type = "validated"
      BY <1>2, <1>6, <2>2
    <3>2. e.type \in {"validated"} /\ e.type \notin Voids
      BY <3>1 DEF Voids
    <3>3. LastIn(trail', {"validated"}, d, m + 1) = m + 1 /\ LastIn(trail', Voids, d, m + 1) = LastIn(trail, Voids, d, m)
      BY <1>3, <2>2, <3>2
    <3>. QED
      BY <1>1, <2>1, <3>3
  <2>3. CASE d # d0
    <3>1. /\ LastIn(trail', {"validated"}, d, m + 1) = LastIn(trail, {"validated"}, d, m)
          /\ LastIn(trail', Voids, d, m + 1) = LastIn(trail, Voids, d, m)
      BY <1>3, <2>3
    <3>2. policies[d] # Null /\ policies[d].status = "validated"
      BY <1>2, <1>6, <2>3
    <3>. QED
      BY <3>1, <3>2 DEF PolicyInv, m
  <2>. QED
    BY <2>2, <2>3
<1>7. ASSUME NEW n \in 1..m + 1, trail'[n].type = "published"
      PROVE  WasValidated(trail', n)
  <2>. DEFINE d == trail'[n].policy
  <2>1. n - 1 \in 0..m
    BY <1>1
  <2>2. /\ LastIn(trail', {"validated"}, d, n - 1) = LastIn(trail, {"validated"}, d, n - 1)
        /\ LastIn(trail', Voids, d, n - 1) = LastIn(trail, Voids, d, n - 1)
    BY <1>3, <2>1
  <2>3. CASE n \in 1..m
    <3>1. trail'[n] = trail[n]
      BY <1>1, <2>3
    <3>2. WasValidated(trail, n)
      BY <1>7, <2>3, <3>1 DEF PolicyInv, m
    <3>. QED
      BY <2>2, <3>1, <3>2 DEF WasValidated
  <2>4. CASE n = m + 1
    <3>1. trail'[n] = e /\ d = d0 /\ n - 1 = m
      BY <1>1, <2>4
    <3>2. policies[d0] # Null /\ policies[d0].status = "validated"
      BY <1>7, <3>1
    <3>3. LastIn(trail, {"validated"}, d0, m) > LastIn(trail, Voids, d0, m)
      BY <3>2 DEF PolicyInv, m
    <3>. QED
      BY <2>2, <3>1, <3>3 DEF WasValidated
  <2>. QED
    BY <1>1, <2>3, <2>4
<1>8. policies' \in [Draft -> {Null} \cup Summary]
  BY DEF PolicyInv
<1>. QED
  BY <1>1, <1>4, <1>5, <1>6, <1>7, <1>8 DEF PolicyInv

LEMMA PolicyInit == P!Init => PolicyInv
<1>. SUFFICES ASSUME P!Init PROVE PolicyInv
  OBVIOUS
<1>1. policies = [d \in Draft |-> Null] /\ trail = <<>>
  BY DEF P!Init
<1>2. trail \in Seq(PolicyEvent) /\ Len(trail) = 0
  BY <1>1
<1>3. \A types, d : LastIn(trail, types, d, 0) = 0
  BY DEF LastIn
<1>. QED
  BY <1>1, <1>2, <1>3 DEF PolicyInv, EndsPublished

LEMMA PolicyStep == Null \notin Summary /\ PolicyInv /\ [P!Next]_(P!policyVars) => PolicyInv'
<1>. SUFFICES ASSUME Null \notin Summary, PolicyInv, [P!Next]_(P!policyVars) PROVE PolicyInv'
  OBVIOUS
<1>0. ASSUME NEW d \in Draft, policies[d] # Null
      PROVE  policies[d] \in Summary
  BY <1>0 DEF PolicyInv
<1>1. ASSUME NEW d \in Draft, NEW k \in PolicyKey, P!CreatePolicy(d, k)
      PROVE  PolicyInv'
  <2>. DEFINE s == [id |-> d, version |-> "draft", status |-> "draft"]
              e == [type |-> "created", policy |-> d]
  <2>1. policies' = [policies EXCEPT ![d] = s] /\ trail' = Append(trail, e)
    BY <1>1 DEF P!CreatePolicy, P!Summary, P!Save, P!Record
  <2>2. s \in Summary /\ e \in PolicyEvent /\ e.policy = d /\ e.type = "created" /\ s.status = "draft"
    BY DEF Summary, PolicyEvent
  <2>. HIDE DEF s, e
  <2>. QED
    BY <2>1, <2>2, PolicyRecorded DEF Stages
<1>2. ASSUME NEW d \in Draft, NEW k \in PolicyKey, P!PublishPolicy(d, k)
      PROVE  PolicyInv'
  <2>. DEFINE s == [id |-> d, version |-> "published", status |-> "published"]
              e == [type |-> "published", policy |-> d]
  <2>1. /\ policies' = [policies EXCEPT ![d] = s] /\ trail' = Append(trail, e)
        /\ policies[d] # Null /\ policies[d].status = "validated"
    BY <1>2 DEF P!PublishPolicy, P!Summary, P!Save, P!Record
  <2>2. s \in Summary /\ e \in PolicyEvent /\ e.policy = d /\ e.type = "published" /\ s.status = "published"
    BY DEF Summary, PolicyEvent
  <2>. HIDE DEF s, e
  <2>. QED
    BY <2>1, <2>2, PolicyRecorded DEF Stages
<1>3. ASSUME NEW d \in Draft, NEW k \in PolicyKey, P!PublishRefused(d, k)
      PROVE  PolicyInv'
  <2>. DEFINE s == [policies[d] EXCEPT !.status = "draft"]
              e == [type |-> "validation_failed", policy |-> d]
  <2>1. /\ policies' = [policies EXCEPT ![d] = s] /\ trail' = Append(trail, e)
        /\ policies[d] # Null /\ policies[d].status = "validated"
    BY <1>3 DEF P!PublishRefused, P!Save, P!Record
  <2>2. s \in Summary /\ s.status = "draft"
    BY <1>0, <2>1 DEF Summary
  <2>3. e \in PolicyEvent /\ e.policy = d /\ e.type = "validation_failed"
    BY DEF PolicyEvent
  <2>. HIDE DEF s, e
  <2>. QED
    BY <2>1, <2>2, <2>3, PolicyRecorded DEF Stages
<1>4. ASSUME NEW d \in Draft, NEW k \in PolicyKey, NEW version \in {"draft", "published"}, P!RollbackPolicy(d, k, version)
      PROVE  PolicyInv'
  <2>. DEFINE s == [id |-> d, version |-> version, status |-> "rolled_back"]
              e == [type |-> "rolled_back", policy |-> d]
  <2>1. policies' = [policies EXCEPT ![d] = s] /\ trail' = Append(trail, e)
    BY <1>4 DEF P!RollbackPolicy, P!Summary, P!Save, P!Record
  <2>2. s \in Summary /\ e \in PolicyEvent /\ e.policy = d /\ e.type = "rolled_back" /\ s.status = "rolled_back"
    BY DEF Summary, PolicyEvent
  <2>. HIDE DEF s, e
  <2>. QED
    BY <2>1, <2>2, PolicyRecorded DEF Stages
<1>5. ASSUME NEW d \in Draft, P!ValidatePolicy(d)
      PROVE  PolicyInv'
  <2>. DEFINE status == P!Revalidated(policies[d].status, d \in valid)
              s == [policies[d] EXCEPT !.status = status]
              t == IF d \in valid THEN "validated" ELSE "validation_failed"
              e == [type |-> t, policy |-> d]
  <2>1. policies' = [policies EXCEPT ![d] = s] /\ trail' = Append(trail, e) /\ policies[d] # Null
    BY <1>5 DEF P!ValidatePolicy, P!Save, P!Record
  <2>2. policies[d] \in Summary
    BY <1>0, <2>1
  <2>3. /\ status \in {"draft", "validated", "published", "rolled_back"}
        /\ status = "validated" => t = "validated"
        /\ status = "published" <=> policies[d].status = "published"
    BY <2>2 DEF P!Revalidated, Summary
  <2>4. t \in {"validated", "validation_failed"}
    OBVIOUS
  <2>. HIDE DEF status, t
  <2>5. s \in Summary /\ s.status = status
    BY <2>2, <2>3 DEF Summary
  <2>6. e \in PolicyEvent /\ e.policy = d /\ e.type = t
    BY <2>4 DEF PolicyEvent
  <2>. HIDE DEF s, e
  <2>. QED
    BY <2>1, <2>3, <2>4, <2>5, <2>6, PolicyRecorded DEF Stages
<1>6. ASSUME UNCHANGED <<policies, trail>>
      PROVE  PolicyInv'
  BY <1>6 DEF PolicyInv, EndsPublished, WasValidated
<1>7. P!Upgrade \/ UNCHANGED P!policyVars => UNCHANGED <<policies, trail>>
  BY DEF P!Upgrade, P!policyVars
<1>. QED
  BY <1>1, <1>2, <1>3, <1>4, <1>5, <1>6, <1>7 DEF P!Next

\* A policy is published exactly if the audit log ends its story with a publication, and
\* before every publication its model passed a validation that no creation, roll-back,
\* publication or failed validation has voided since, also when the validation changes
\* between two requests (publishPolicy, validatePolicy, createPolicy, rollbackPolicy).
THEOREM PublishedHolds ==
  ASSUME Null \notin Summary
  PROVE  P!Spec => []PublishedIsAccountedFor
<1>1. P!Init => PolicyInv
  BY PolicyInit
<1>2. PolicyInv /\ [P!Next]_(P!policyVars) => PolicyInv'
  BY PolicyStep
<1>3. ASSUME PolicyInv
      PROVE  PublishedIsAccountedFor
  <2>1. \A types, d, n : P!LastOf(types, d, n) = LastIn(trail, types, d, n)
    BY DEF P!LastOf, LastIn
  <2>2. DOMAIN trail = 1..Len(trail)
    BY <1>3 DEF PolicyInv
  <2>3. /\ \A d \in Draft : (policies[d] # Null /\ policies[d].status = "published") <=> EndsPublished(trail, d)
        /\ \A n \in 1..Len(trail) : trail[n].type = "published" => WasValidated(trail, n)
    BY <1>3 DEF PolicyInv
  <2>. QED
    BY <2>1, <2>2, <2>3 DEF PublishedIsAccountedFor, P!PublishedIsAccountedFor, EndsPublished, WasValidated, Stages, Voids
<1>. QED
  BY <1>1, <1>2, <1>3, PTL DEF P!Spec

-----------------------------------------------------------------------------
(* Discovery runs of the sample connector *)

\* How far a run is, what it has and what it reports.
IsProgress(x) ==
  /\ x = [step |-> x.step, parts |-> x.parts, warnings |-> x.warnings, overtaken |-> x.overtaken]
  /\ x.step \in 0..5 /\ x.parts \in Seq(Nat) /\ x.overtaken \in BOOLEAN

\* What the n-th call of a run warns of when it reads this scenario.
Told(n, scenario) == S!Observed(S!Scopes[n], Scenarios[scenario][S!Scopes[n]])

\* A run that is under way and was not overtaken has read the active scenario only, and what
\* it saw is among the warnings, whatever other requests have added to them.
UnderWay(x, active, said) ==
  x.step \in 1..4 /\ ~x.overtaken =>
    /\ active # 0
    /\ Len(x.parts) = x.step
    /\ \A n \in 1..x.step : x.parts[n] = active /\ Told(n, active) \subseteq said

\* The same of one that has ended, for the scenario it read.
Ended(x) ==
  x.step = 5 /\ ~x.overtaken =>
    /\ Len(x.parts) = 5
    /\ \A n \in 1..5 : x.parts[n] = x.parts[1]
    /\ \A n \in 1..4 : Told(n, x.parts[1]) \subseteq x.warnings

SampleInv ==
  /\ scenarioIndex \in Nat
  /\ warnings = warningKeys
  /\ sync = [r \in Run |-> sync[r]]
  /\ \A r \in Run : IsProgress(sync[r]) /\ UnderWay(sync[r], scenarioIndex, warnings) /\ Ended(sync[r])

LEMMA ScopeNames == DOMAIN S!Scopes = 1..4 /\ S!Scopes[1] = "subjects"
BY DEF S!Scopes

\* #beginNextScenario: the warnings are those of this read.
LEMMA ScenarioBegun ==
  ASSUME Len(Scenarios) \in Nat \ {0}, scenarioIndex \in Nat, NEW scope, S!BeginNextScenario(scope)
  PROVE  /\ scenarioIndex' \in Nat \ {0}
         /\ warnings' = warningKeys'
         /\ S!Observed(scope, Scenarios[scenarioIndex'][scope]) \subseteq warnings'
<1>. DEFINE next == S!Min({scenarioIndex + 1, Len(Scenarios)})
            observed == S!Observed(scope, Scenarios[next][scope])
<1>1. scenarioIndex' = next /\ warnings' = {} \cup (observed \ {}) /\ warningKeys' = {} \cup observed
  BY DEF S!BeginNextScenario, S!ReadPages
<1>2. next \in {scenarioIndex + 1, Len(Scenarios)}
  BY DEF S!Min
<1>. HIDE DEF next
<1>. QED
  BY <1>1, <1>2

\* #activeScenario: a read of a scenario that is active only adds warnings.
LEMMA ScenarioRead ==
  ASSUME Len(Scenarios) \in Nat \ {0}, scenarioIndex \in Nat, warnings = warningKeys, NEW scope,
         S!ReadActiveScenario(scope)
  PROVE  /\ scenarioIndex' \in Nat \ {0}
         /\ warnings' = warningKeys'
         /\ S!Observed(scope, Scenarios[scenarioIndex'][scope]) \subseteq warnings'
         /\ scenarioIndex # 0 => scenarioIndex' = scenarioIndex /\ warnings \subseteq warnings'
<1>1. CASE scenarioIndex = 0
  <2>1. S!BeginNextScenario(scope)
    BY <1>1 DEF S!ReadActiveScenario
  <2>. QED
    BY <1>1, <2>1, ScenarioBegun
<1>2. CASE scenarioIndex # 0
  <2>. DEFINE observed == S!Observed(scope, Scenarios[scenarioIndex][scope])
  <2>1. /\ scenarioIndex' = scenarioIndex
        /\ warnings' = warnings \cup (observed \ warningKeys) /\ warningKeys' = warningKeys \cup observed
    BY <1>2 DEF S!ReadActiveScenario, S!ReadPages
  <2>. HIDE DEF observed
  <2>2. warnings' = warningKeys' /\ observed \subseteq warnings' /\ warnings \subseteq warnings'
    BY <2>1
  <2>. QED
    BY <1>2, <2>1, <2>2 DEF observed
<1>. QED
  BY <1>1, <1>2

\* What another request does to the scenario leaves a run's progress as good as it was.
LEMMA ProgressKept ==
  ASSUME NEW x, UnderWay(x, scenarioIndex, warnings),
         scenarioIndex # 0 => scenarioIndex' = scenarioIndex /\ warnings \subseteq warnings'
  PROVE  UnderWay(x, scenarioIndex', warnings')
BY DEF UnderWay


LEMMA PartAdded ==
  ASSUME NEW x, NEW n, IsProgress(x)
  PROVE  S!WithPart(x, n) =
           [step |-> x.step + 1, parts |-> Append(x.parts, n), warnings |-> x.warnings, overtaken |-> x.overtaken]
<1>1. S!WithPart(x, n) = [x EXCEPT !.step = @ + 1, !.parts = Append(@, n)]
  BY DEF S!WithPart
<1>. QED
  BY <1>1 DEF IsProgress

LEMMA SampleInit == S!Init => SampleInv
<1>. SUFFICES ASSUME S!Init PROVE SampleInv
  OBVIOUS
<1>. DEFINE idle == [step |-> 0, parts |-> <<>>, warnings |-> {}, overtaken |-> FALSE]
<1>1. scenarioIndex = 0 /\ warnings = {} /\ warningKeys = {} /\ sync = [r \in Run |-> idle]
  BY DEF S!Init, S!Idle
<1>2. IsProgress(idle) /\ idle.step = 0
  BY DEF IsProgress
<1>. HIDE DEF idle
<1>. QED
  BY <1>1, <1>2 DEF SampleInv, UnderWay, Ended

LEMMA SampleStep ==
  ASSUME Len(Scenarios) \in Nat \ {0}, SampleInv, [S!Next]_(S!vars)
  PROVE  SampleInv'
<1>0. \A r \in Run : IsProgress(sync[r]) /\ UnderWay(sync[r], scenarioIndex, warnings) /\ Ended(sync[r])
  BY DEF SampleInv
<1>1. ASSUME NEW r \in Run, S!DiscoverSubjects(r)
      PROVE  SampleInv'
  <2>1. /\ S!BeginNextScenario("subjects")
        /\ sync' = [q \in Run |-> IF q = r THEN S!Begun(scenarioIndex') ELSE S!Overtaken(sync[q])]
    BY <1>1 DEF S!DiscoverSubjects
  <2>2. /\ scenarioIndex' \in Nat \ {0} /\ warnings' = warningKeys'
        /\ S!Observed("subjects", Scenarios[scenarioIndex']["subjects"]) \subseteq warnings'
    BY <2>1, ScenarioBegun DEF SampleInv
  <2>3. Told(1, scenarioIndex') \subseteq warnings'
    BY <2>2, ScopeNames DEF Told
  <2>4. ASSUME NEW n \in Nat \ {0}, NEW said, Told(1, n) \subseteq said
        PROVE  IsProgress(S!Begun(n)) /\ UnderWay(S!Begun(n), n, said) /\ Ended(S!Begun(n))
    <3>. DEFINE new == S!Begun(n)
    <3>1. /\ new.step = 1 /\ new.parts = <<n>> /\ ~new.overtaken
          /\ new = [step |-> new.step, parts |-> new.parts, warnings |-> new.warnings, overtaken |-> new.overtaken]
          /\ new.overtaken \in BOOLEAN
      <4>1. new = [[step |-> 0, parts |-> <<>>, warnings |-> {}, overtaken |-> FALSE] EXCEPT !.step = 1, !.parts = <<n>>]
        BY DEF S!Begun, S!Idle
      <4>2. new = [step |-> 1, parts |-> <<n>>, warnings |-> {}, overtaken |-> FALSE]
        <5>. HIDE DEF new
        <5>. QED
          BY <4>1
      <4>. HIDE DEF new
      <4>. QED
        BY <4>2
    <3>. HIDE DEF new
    <3>2. new.parts \in Seq(Nat) /\ Len(new.parts) = 1 /\ new.parts[1] = n
      BY <3>1
    <3>3. IsProgress(new) /\ UnderWay(new, n, said) /\ Ended(new)
      BY <2>4, <3>1, <3>2 DEF IsProgress, UnderWay, Ended
    <3>. QED
      BY <3>3 DEF new
  <2>5. ASSUME NEW q \in Run
        PROVE  IsProgress(S!Overtaken(sync[q])) /\ UnderWay(S!Overtaken(sync[q]), scenarioIndex', warnings') /\ Ended(S!Overtaken(sync[q]))
    <3>. DEFINE x == sync[q]
                y == S!Overtaken(sync[q])
    <3>1. IsProgress(x) /\ Ended(x)
      BY <1>0
    <3>. HIDE DEF x
    <3>2. /\ y = [step |-> x.step, parts |-> x.parts, warnings |-> x.warnings,
                  overtaken |-> x.overtaken \/ x.step \in 1..4]
      BY <3>1 DEF IsProgress, x, S!Overtaken
    <3>. HIDE DEF y
    <3>3. IsProgress(y)
      BY <3>1, <3>2 DEF IsProgress
    <3>4. UnderWay(y, scenarioIndex', warnings')
      BY <3>1, <3>2 DEF IsProgress, UnderWay
    <3>5. Ended(y)
      BY <3>1, <3>2 DEF IsProgress, Ended
    <3>. QED
      BY <3>3, <3>4, <3>5 DEF y
  <2>6. \A q \in Run : IsProgress(sync'[q]) /\ UnderWay(sync'[q], scenarioIndex', warnings') /\ Ended(sync'[q])
    BY <2>1, <2>2, <2>3, <2>4, <2>5
  <2>7. sync' = [q \in Run |-> sync'[q]]
    BY <2>1
  <2>. QED
    BY <2>2, <2>6, <2>7 DEF SampleInv
\* A step that moves one run on, or none, and does not begin a scenario under another.
<1>2. ASSUME NEW r \in Run, NEW y, sync' = [sync EXCEPT ![r] = y],
             IsProgress(y), UnderWay(y, scenarioIndex', warnings'), Ended(y),
             scenarioIndex' \in Nat, warnings' = warningKeys',
             scenarioIndex # 0 => scenarioIndex' = scenarioIndex /\ warnings \subseteq warnings'
      PROVE  SampleInv'
  <2>1. \A q \in Run : sync'[q] = IF q = r THEN y ELSE sync[q]
    BY <1>2 DEF SampleInv
  <2>2. sync' = [q \in Run |-> sync'[q]]
    BY <1>2 DEF SampleInv
  <2>3. \A q \in Run : UnderWay(sync[q], scenarioIndex', warnings')
    BY <1>0, <1>2, ProgressKept
  <2>. QED
    BY <1>0, <1>2, <2>1, <2>2, <2>3 DEF SampleInv
<1>3. ASSUME NEW r \in Run, S!ReadPart(r)
      PROVE  SampleInv'
  <2>. DEFINE x == sync[r]
              scope == S!Scopes[x.step + 1]
              y == [step |-> x.step + 1, parts |-> Append(x.parts, scenarioIndex'),
                    warnings |-> x.warnings, overtaken |-> x.overtaken]
  <2>1. x.step \in 1..3 /\ S!ReadActiveScenario(scope)
    BY <1>3 DEF S!ReadPart, S!Reading
  <2>2. IsProgress(x) /\ UnderWay(x, scenarioIndex, warnings)
    BY <1>0
  <2>3. sync' = [sync EXCEPT ![r] = y]
    <3>1. sync' = [sync EXCEPT ![r] = S!WithPart(x, scenarioIndex')]
      BY <1>3 DEF S!ReadPart
    <3>2. S!WithPart(x, scenarioIndex') = y
      BY <2>2, PartAdded
    <3>. QED
      BY <3>1, <3>2
  <2>4. /\ scenarioIndex' \in Nat \ {0} /\ warnings' = warningKeys'
        /\ S!Observed(scope, Scenarios[scenarioIndex'][scope]) \subseteq warnings'
        /\ scenarioIndex # 0 => scenarioIndex' = scenarioIndex /\ warnings \subseteq warnings'
    <3>. HIDE DEF scope
    <3>. QED
      BY <2>1, ScenarioRead DEF SampleInv
  <2>5. Told(x.step + 1, scenarioIndex') \subseteq warnings'
    BY <2>4 DEF Told
  <2>. HIDE DEF x
  <2>6. /\ y.step = x.step + 1 /\ y.parts = Append(x.parts, scenarioIndex') /\ y.overtaken = x.overtaken
        /\ y = [step |-> y.step, parts |-> y.parts, warnings |-> y.warnings, overtaken |-> y.overtaken]
    OBVIOUS
  <2>. HIDE DEF y
  <2>7. /\ y.parts \in Seq(Nat) /\ Len(y.parts) = Len(x.parts) + 1 /\ y.parts[Len(x.parts) + 1] = scenarioIndex'
        /\ \A n \in 1..Len(x.parts) : y.parts[n] = x.parts[n]
    BY <2>2, <2>4, <2>6 DEF IsProgress
  <2>8. IsProgress(y) /\ Ended(y)
    BY <2>1, <2>2, <2>6, <2>7 DEF IsProgress, Ended
  <2>9. UnderWay(y, scenarioIndex', warnings')
    <3>1. SUFFICES ASSUME ~y.overtaken
                   PROVE  /\ scenarioIndex' # 0 /\ Len(y.parts) = y.step
                          /\ \A n \in 1..y.step :
                               y.parts[n] = scenarioIndex' /\ Told(n, scenarioIndex') \subseteq warnings'
      BY DEF UnderWay
    <3>2. /\ scenarioIndex # 0 /\ Len(x.parts) = x.step
          /\ \A n \in 1..x.step : x.parts[n] = scenarioIndex /\ Told(n, scenarioIndex) \subseteq warnings
      BY <2>1, <2>2, <2>6, <3>1 DEF UnderWay
    <3>3. ASSUME NEW n \in 1..x.step
          PROVE  y.parts[n] = scenarioIndex' /\ Told(n, scenarioIndex') \subseteq warnings'
      BY <2>4, <2>7, <3>2
    <3>4. \A n \in 1..y.step : n \in 1..x.step \/ n = x.step + 1
      BY <2>1, <2>6
    <3>. QED
      BY <2>4, <2>5, <2>6, <2>7, <3>2, <3>3, <3>4
  <2>. QED
    BY <1>2, <2>3, <2>4, <2>8, <2>9
<1>4. ASSUME NEW r \in Run, S!GetDiscoveryMetadata(r)
      PROVE  SampleInv'
  <2>. DEFINE x == sync[r]
              active == S!Max({scenarioIndex, 1})
              y == [step |-> 5, parts |-> Append(x.parts, active), warnings |-> warnings, overtaken |-> x.overtaken]
  <2>1. x.step = 4 /\ UNCHANGED <<scenarioIndex, warnings, warningKeys>>
    BY <1>4 DEF S!GetDiscoveryMetadata
  <2>2. IsProgress(x) /\ UnderWay(x, scenarioIndex, warnings)
    BY <1>0
  <2>3. sync' = [sync EXCEPT ![r] = y]
    <3>1. sync' = [sync EXCEPT ![r] = [S!WithPart(x, active) EXCEPT !.warnings = warnings]]
      BY <1>4 DEF S!GetDiscoveryMetadata, SampleInv
    <3>2. S!WithPart(x, active) = [step |-> 5, parts |-> Append(x.parts, active),
                                   warnings |-> x.warnings, overtaken |-> x.overtaken]
      <4>. HIDE DEF x, active
      <4>1. S!WithPart(x, active) = [step |-> x.step + 1, parts |-> Append(x.parts, active),
                                     warnings |-> x.warnings, overtaken |-> x.overtaken]
        BY <2>2, PartAdded
      <4>2. x.step + 1 = 5
        BY <2>1
      <4>. QED
        BY <4>1, <4>2
    <3>3. [S!WithPart(x, active) EXCEPT !.warnings = warnings] = y
      <4>. HIDE DEF x, active
      <4>. QED
        BY <3>2
    <3>. HIDE DEF y
    <3>. QED
      BY <3>1, <3>3
  <2>4. active \in Nat /\ (scenarioIndex # 0 => active = scenarioIndex)
    BY DEF S!Max, SampleInv
  <2>. HIDE DEF x, active
  <2>5. /\ y.step = 5 /\ y.parts = Append(x.parts, active) /\ y.overtaken = x.overtaken /\ y.warnings = warnings
        /\ y = [step |-> y.step, parts |-> y.parts, warnings |-> y.warnings, overtaken |-> y.overtaken]
    OBVIOUS
  <2>. HIDE DEF y
  <2>6. /\ y.parts \in Seq(Nat) /\ Len(y.parts) = Len(x.parts) + 1 /\ y.parts[Len(x.parts) + 1] = active
        /\ \A n \in 1..Len(x.parts) : y.parts[n] = x.parts[n]
    BY <2>2, <2>4, <2>5 DEF IsProgress
  <2>7. IsProgress(y) /\ UnderWay(y, scenarioIndex', warnings')
    BY <2>2, <2>5, <2>6 DEF IsProgress, UnderWay
  <2>8. ASSUME ~y.overtaken
        PROVE  /\ Len(y.parts) = 5
               /\ \A n \in 1..5 : y.parts[n] = scenarioIndex
               /\ \A n \in 1..4 : Told(n, scenarioIndex) \subseteq y.warnings
    <3>1. /\ scenarioIndex # 0 /\ Len(x.parts) = 4
          /\ \A n \in 1..4 : x.parts[n] = scenarioIndex /\ Told(n, scenarioIndex) \subseteq warnings
      BY <2>1, <2>2, <2>5, <2>8 DEF UnderWay
    <3>2. \A n \in 1..5 : n \in 1..4 \/ n = 5
      OBVIOUS
    <3>. QED
      BY <2>4, <2>5, <2>6, <3>1, <3>2
  <2>9. Ended(y)
    BY <2>8 DEF Ended
  <2>. QED
    BY <1>2, <2>1, <2>3, <2>7, <2>9 DEF SampleInv
<1>5. ASSUME sync' = sync, scenarioIndex' \in Nat, warnings' = warningKeys',
             scenarioIndex # 0 => scenarioIndex' = scenarioIndex /\ warnings \subseteq warnings'
      PROVE  SampleInv'
  <2>1. \A q \in Run : UnderWay(sync[q], scenarioIndex', warnings')
    BY <1>0, <1>5, ProgressKept
  <2>. QED
    BY <1>0, <1>5, <2>1 DEF SampleInv
<1>6. ASSUME S!ReadCurrentAccess
      PROVE  SampleInv'
  <2>1. S!ReadActiveScenario("native_grants") /\ sync' = sync
    BY <1>6 DEF S!ReadCurrentAccess
  <2>. QED
    BY <1>5, <2>1, ScenarioRead DEF SampleInv
<1>7. ASSUME S!RevokeAccess
      PROVE  SampleInv'
  BY <1>5, <1>7 DEF S!RevokeAccess
<1>8. ASSUME UNCHANGED S!vars
      PROVE  SampleInv'
  BY <1>5, <1>8 DEF S!vars, SampleInv
<1>. QED
  BY <1>1, <1>3, <1>4, <1>6, <1>7, <1>8 DEF S!Next

\* A discovery run of the sample connector that no other one overtook has all its parts from
\* one scenario, and warns of everything that was cut, throttled or deleted in them, however
\* many scenarios the connector plays and whatever else is asked of it meanwhile
\* (#beginNextScenario, #activeScenario, #warnOnce). The constructor refuses an empty list
\* of scenarios.
THEOREM UndisturbedRunHolds ==
  ASSUME Len(Scenarios) \in Nat \ {0}
  PROVE  S!Spec => []UndisturbedRunIsWhole
<1>1. S!Init => SampleInv
  BY SampleInit
<1>2. SampleInv /\ [S!Next]_(S!vars) => SampleInv'
  BY SampleStep
<1>3. ASSUME SampleInv
      PROVE  UndisturbedRunIsWhole
  <2>1. ASSUME NEW r \in Run, sync[r].step = 5, ~sync[r].overtaken
        PROVE  /\ \A i \in DOMAIN sync[r].parts : sync[r].parts[i] = sync[r].parts[1]
               /\ \A i \in DOMAIN S!Scopes :
                    S!Observed(S!Scopes[i], Scenarios[sync[r].parts[1]][S!Scopes[i]]) \subseteq sync[r].warnings
    <3>1. /\ Len(sync[r].parts) = 5 /\ \A n \in 1..5 : sync[r].parts[n] = sync[r].parts[1]
          /\ \A n \in 1..4 : Told(n, sync[r].parts[1]) \subseteq sync[r].warnings
      BY <1>3, <2>1 DEF SampleInv, Ended
    <3>2. DOMAIN sync[r].parts = 1..5
      BY <1>3, <3>1 DEF SampleInv, IsProgress
    <3>. QED
      BY <3>1, <3>2, ScopeNames DEF Told
  <2>. QED
    BY <2>1 DEF UndisturbedRunIsWhole, S!UndisturbedRunIsWhole
<1>. QED
  BY <1>1, <1>2, <1>3, PTL DEF S!Spec

-----------------------------------------------------------------------------
(* Relationships and the lists that the engine caches *)

Relationship ==
  [id : Id, subject : Subject, version : {1, 2}, asserted : Nat, status : {"active", "deleted"},
   updated : Nat \cup {Null}, expires : Nat \cup {Null}]

\* The list of a subject holds the subject's relationships, each once, but for those with
\* identifier j.
IndexedBut(list, s, rels, j) ==
  /\ list \in Seq(Relationship)
  /\ \A n \in 1..Len(list) : list[n].subject = s /\ list[n].id # j /\ rels[list[n].id] = list[n]
  /\ \A m, n \in 1..Len(list) : list[m].id = list[n].id => m = n
  /\ \A i \in Id : i # j /\ rels[i] # Null /\ rels[i].subject = s => \E n \in 1..Len(list) : list[n] = rels[i]

\* The same of all of the subject's relationships.
Indexed(list, s, rels) ==
  /\ list \in Seq(Relationship)
  /\ \A n \in 1..Len(list) : list[n].subject = s /\ rels[list[n].id] = list[n]
  /\ \A m, n \in 1..Len(list) : list[m].id = list[n].id => m = n
  /\ \A i \in Id : rels[i] # Null /\ rels[i].subject = s => \E n \in 1..Len(list) : list[n] = rels[i]

IndexInv ==
  /\ time \in Nat
  /\ relationships \in [Id -> {Null} \cup Relationship]
  /\ \A i \in Id : relationships[i] # Null => relationships[i].id = i
  /\ bySubject = [s \in Subject |-> bySubject[s]]
  /\ \A s \in Subject : Indexed(bySubject[s], s, relationships)

LEMMA Removed ==
  ASSUME NEW list \in Seq(Relationship), NEW n \in 1..Len(list)
  PROVE  /\ R!RemoveAt(list, n) \in Seq(Relationship)
         /\ Len(R!RemoveAt(list, n)) = Len(list) - 1
         /\ \A k \in 1..Len(list) - 1 : R!RemoveAt(list, n)[k] = IF k < n THEN list[k] ELSE list[k + 1]
<1>. DEFINE a == SubSeq(list, 1, n - 1)
            b == SubSeq(list, n + 1, Len(list))
<1>1. R!RemoveAt(list, n) = a \o b
  BY DEF R!RemoveAt
<1>2. /\ a \in Seq(Relationship) /\ Len(a) = n - 1
      /\ \A k \in 1..n - 1 : a[k] = list[k]
  OBVIOUS
<1>3. /\ b \in Seq(Relationship) /\ Len(b) = Len(list) - n
      /\ \A k \in 1..Len(list) - n : b[k] = list[n + k]
  OBVIOUS
<1>. HIDE DEF a, b
<1>4. /\ a \o b \in Seq(Relationship) /\ Len(a \o b) = Len(list) - 1
      /\ \A k \in 1..Len(list) - 1 : (a \o b)[k] = IF k <= n - 1 THEN a[k] ELSE b[k - (n - 1)]
  <2>1. /\ a \o b \in Seq(Relationship) /\ Len(a \o b) = Len(a) + Len(b)
        /\ \A k \in 1..Len(a) + Len(b) : (a \o b)[k] = IF k <= Len(a) THEN a[k] ELSE b[k - Len(a)]
    BY <1>2, <1>3, ConcatProperties
  <2>2. Len(a) = n - 1 /\ Len(a) + Len(b) = Len(list) - 1
    BY <1>2, <1>3
  <2>. QED
    BY <2>1, <2>2
<1>5. ASSUME NEW k \in 1..Len(list) - 1
      PROVE  (a \o b)[k] = IF k < n THEN list[k] ELSE list[k + 1]
  <2>1. CASE k < n
    BY <1>2, <1>4, <2>1
  <2>2. CASE ~(k < n)
    <3>1. k - (n - 1) \in 1..Len(list) - n /\ n + (k - (n - 1)) = k + 1
      BY <2>2
    <3>2. ~(k <= n - 1)
      BY <2>2
    <3>3. (a \o b)[k] = b[k - (n - 1)]
      BY <1>4, <3>2
    <3>. QED
      BY <1>3, <2>2, <3>1, <3>3
  <2>. QED
    BY <2>1, <2>2
<1>. QED
  BY <1>1, <1>4, <1>5

\* The entry that is dropped is the only one with its identifier.
LEMMA Dropped ==
  ASSUME NEW s, NEW rels, NEW j \in Id, NEW list, Indexed(list, s, rels),
         \A i \in Id : rels[i] # Null => rels[i].id = i
  PROVE  IndexedBut(R!Without(list, j), s, rels, j)
<1>. DEFINE at == {n \in DOMAIN list : list[n].id = j}
            first == CHOOSE n \in at : \A k \in at : n <= k
<1>0. R!Without(list, j) = IF at = {} THEN list ELSE R!RemoveAt(list, first)
  BY DEF R!Without
<1>1. list \in Seq(Relationship) /\ DOMAIN list = 1..Len(list) /\ Len(list) \in Nat
  BY DEF Indexed
<1>2. CASE at = {}
  <2>1. \A n \in 1..Len(list) : list[n].id # j
    BY <1>1, <1>2
  <2>2. R!Without(list, j) = list
    BY <1>0, <1>2
  <2>. HIDE DEF at, first
  <2>. QED
    BY <2>1, <2>2 DEF Indexed, IndexedBut
<1>3. CASE at # {}
  <2>1. PICK n \in 1..Len(list) : list[n].id = j
    BY <1>1, <1>3
  <2>2. at = {n}
    BY <1>1, <2>1 DEF Indexed
  <2>3. first = n
    BY <2>2
  <2>. DEFINE l == R!RemoveAt(list, n)
  <2>4. R!Without(list, j) = l
    BY <1>0, <1>3, <2>3
  <2>5. /\ l \in Seq(Relationship) /\ Len(l) = Len(list) - 1
        /\ \A k \in 1..Len(list) - 1 : l[k] = IF k < n THEN list[k] ELSE list[k + 1]
    BY <1>1, Removed
  <2>. HIDE DEF at, first, l
  <2>. DEFINE Old(k) == IF k < n THEN k ELSE k + 1
  <2>6. \A k \in 1..Len(l) : Old(k) \in 1..Len(list) /\ Old(k) # n /\ l[k] = list[Old(k)]
    BY <1>1, <2>5
  <2>7. \A k \in 1..Len(list) : k # n => \E m \in 1..Len(l) : l[m] = list[k]
    <3>1. ASSUME NEW k \in 1..Len(list), k < n
          PROVE  \E m \in 1..Len(l) : l[m] = list[k]
      <4>1. k \in 1..Len(l) /\ l[k] = list[k]
        BY <1>1, <2>5, <3>1
      <4>. QED
        BY <4>1
    <3>2. ASSUME NEW k \in 1..Len(list), k > n
          PROVE  \E m \in 1..Len(l) : l[m] = list[k]
      <4>1. k - 1 \in 1..Len(l) /\ l[k - 1] = list[k]
        BY <1>1, <2>5, <3>2
      <4>. QED
        BY <4>1
    <3>. QED
      BY <1>1, <3>1, <3>2
  <2>8. \A k, m \in 1..Len(l) : Old(k) = Old(m) => k = m
    BY <1>1, <2>5
  <2>. HIDE DEF Old
  <2>9. /\ \A k \in 1..Len(l) : l[k].subject = s /\ l[k].id # j /\ rels[l[k].id] = l[k]
        /\ \A k, m \in 1..Len(l) : l[k].id = l[m].id => k = m
    <3>1. /\ \A k \in 1..Len(list) : list[k].subject = s /\ rels[list[k].id] = list[k]
          /\ \A k, m \in 1..Len(list) : list[k].id = list[m].id => k = m
      BY DEF Indexed
    <3>2. ASSUME NEW k \in 1..Len(l)
          PROVE  l[k].subject = s /\ l[k].id # j /\ rels[l[k].id] = l[k]
      BY <2>1, <2>6, <3>1
    <3>3. ASSUME NEW k \in 1..Len(l), NEW m \in 1..Len(l), l[k].id = l[m].id
          PROVE  k = m
      <4>1. Old(k) \in 1..Len(list) /\ Old(m) \in 1..Len(list) /\ l[k] = list[Old(k)] /\ l[m] = list[Old(m)]
        BY <2>6
      <4>2. list[Old(k)].id = list[Old(m)].id
        BY <3>3, <4>1
      <4>3. Old(k) = Old(m)
        BY <3>1, <4>1, <4>2
      <4>. QED
        BY <2>8, <4>3
    <3>. QED
      BY <3>2, <3>3
  <2>10. ASSUME NEW i \in Id, i # j, rels[i] # Null, rels[i].subject = s
         PROVE  \E m \in 1..Len(l) : l[m] = rels[i]
    <3>1. PICK k \in 1..Len(list) : list[k] = rels[i]
      BY <2>10 DEF Indexed
    <3>2. CASE k # n
      BY <2>7, <3>1, <3>2
    <3>3. CASE k = n
      BY <2>1, <2>10, <3>1, <3>3
    <3>. QED
      BY <3>2, <3>3
  <2>. QED
    BY <2>4, <2>5, <2>9, <2>10 DEF IndexedBut
<1>. QED
  BY <1>2, <1>3


\* What a write does to the store and its index: the old entry goes, the new one comes.
LEMMA Reindexing ==
  ASSUME Null \notin Relationship, IndexInv, NEW j \in Id, NEW r \in Relationship, r.id = j, time' \in Nat,
         relationships' = [relationships EXCEPT ![j] = r], bySubject' = R!Replaced(relationships[j], r)
  PROVE  IndexInv'
<1>. DEFINE old == relationships[j]
            index == IF old = Null THEN bySubject ELSE R!removeRelationshipFromSubjectIndex(bySubject, old)
<1>1. bySubject' = [index EXCEPT ![r.subject] = Append(@, r)]
  BY DEF R!Replaced, R!addRelationshipToSubjectIndex
<1>2. /\ \A i \in Id : relationships'[i] = IF i = j THEN r ELSE relationships[i]
      /\ relationships' \in [Id -> {Null} \cup Relationship]
      /\ \A i \in Id : relationships'[i] # Null => relationships'[i].id = i
  BY DEF IndexInv
<1>3. r.subject \in Subject
  BY DEF Relationship
<1>4. /\ index = [s \in Subject |-> index[s]]
      /\ \A s \in Subject : IndexedBut(index[s], s, relationships, j)
  <2>1. CASE old = Null
    <3>1. index = bySubject
      BY <2>1
    <3>2. ASSUME NEW s \in Subject
          PROVE  IndexedBut(bySubject[s], s, relationships, j)
      <4>1. Indexed(bySubject[s], s, relationships)
        BY DEF IndexInv
      <4>2. \A n \in 1..Len(bySubject[s]) : bySubject[s][n] \in Relationship
        BY <4>1 DEF Indexed
      <4>3. \A n \in 1..Len(bySubject[s]) : bySubject[s][n].id # j
        BY <2>1, <4>1, <4>2 DEF Indexed
      <4>. QED
        BY <4>1, <4>3 DEF Indexed, IndexedBut
    <3>. HIDE DEF index
    <3>. QED
      BY <3>1, <3>2 DEF IndexInv
  <2>2. CASE old # Null
    <3>1. index = [bySubject EXCEPT ![old.subject] = R!Without(bySubject[old.subject], j)]
      BY <2>2 DEF R!removeRelationshipFromSubjectIndex, IndexInv
    <3>2. old \in Relationship /\ old.subject \in Subject /\ old.id = j
      BY <2>2 DEF IndexInv, Relationship
    <3>. HIDE DEF index
    <3>3. \A s \in Subject : index[s] = IF s = old.subject THEN R!Without(bySubject[s], j) ELSE bySubject[s]
      BY <3>1 DEF IndexInv
    <3>4. ASSUME NEW s \in Subject
          PROVE  IndexedBut(index[s], s, relationships, j)
      <4>1. Indexed(bySubject[s], s, relationships) /\ \A i \in Id : relationships[i] # Null => relationships[i].id = i
        BY DEF IndexInv
      <4>2. CASE s = old.subject
        <5>1. IndexedBut(R!Without(bySubject[s], j), s, relationships, j)
          BY <4>1, Dropped
        <5>. QED
          BY <3>3, <4>2, <5>1
      <4>3. CASE s # old.subject
        <5>1. \A n \in 1..Len(bySubject[s]) : bySubject[s][n].id # j
          BY <4>1, <4>3 DEF Indexed
        <5>2. IndexedBut(bySubject[s], s, relationships, j)
          BY <4>1, <5>1 DEF Indexed, IndexedBut
        <5>. QED
          BY <3>3, <4>3, <5>2
      <4>. QED
        BY <4>2, <4>3
    <3>. QED
      BY <3>1, <3>4 DEF IndexInv
  <2>. QED
    BY <2>1, <2>2
<1>. HIDE DEF index, old
<1>5. \A s \in Subject : bySubject'[s] = IF s = r.subject THEN Append(index[s], r) ELSE index[s]
  BY <1>1, <1>4
<1>6. bySubject' = [s \in Subject |-> bySubject'[s]]
  BY <1>1, <1>4
<1>7. ASSUME NEW s \in Subject
      PROVE  Indexed(bySubject'[s], s, relationships')
  <2>. DEFINE list == index[s]
  <2>1. IndexedBut(list, s, relationships, j)
    BY <1>4
  <2>. HIDE DEF list
  <2>2. /\ list \in Seq(Relationship) /\ Len(list) \in Nat
        /\ \A n \in 1..Len(list) : /\ list[n] \in Relationship /\ list[n].id \in Id
                                   /\ list[n].subject = s /\ list[n].id # j /\ relationships'[list[n].id] = list[n]
        /\ \A i \in Id : i # j /\ relationships'[i] # Null /\ relationships'[i].subject = s
             => \E n \in 1..Len(list) : list[n] = relationships'[i]
        /\ \A m, n \in 1..Len(list) : list[m].id = list[n].id => m = n
    <3>1. list \in Seq(Relationship) /\ Len(list) \in Nat /\ \A n \in 1..Len(list) : list[n] \in Relationship
      BY <2>1 DEF IndexedBut
    <3>2. \A n \in 1..Len(list) : list[n].id \in Id
      BY <3>1 DEF Relationship
    <3>. QED
      BY <1>2, <2>1, <3>1, <3>2 DEF IndexedBut
  <2>3. CASE s # r.subject
    <3>1. bySubject'[s] = list
      BY <1>5, <2>3 DEF list
    <3>2. relationships'[j].subject # s
      BY <1>2, <2>3
    <3>. QED
      BY <2>2, <3>1, <3>2 DEF Indexed
  <2>4. CASE s = r.subject
    <3>. DEFINE longer == Append(list, r)
    <3>1. bySubject'[s] = longer
      BY <1>5, <2>4 DEF list
    <3>2. /\ longer \in Seq(Relationship) /\ Len(longer) = Len(list) + 1 /\ longer[Len(list) + 1] = r
          /\ \A n \in 1..Len(list) : longer[n] = list[n]
          /\ \A n \in 1..Len(longer) : n \in 1..Len(list) \/ n = Len(list) + 1
      BY <2>2
    <3>. HIDE DEF longer
    <3>3. relationships'[j] = r
      BY <1>2
    <3>4. \A n \in 1..Len(longer) : longer[n].subject = s /\ relationships'[longer[n].id] = longer[n]
      BY <2>2, <2>4, <3>2, <3>3
    <3>5. \A m, n \in 1..Len(longer) : longer[m].id = longer[n].id => m = n
      BY <2>2, <3>2
    <3>6. ASSUME NEW i \in Id, relationships'[i] # Null, relationships'[i].subject = s
          PROVE  \E n \in 1..Len(longer) : longer[n] = relationships'[i]
      <4>1. CASE i = j
        <5>1. Len(list) + 1 \in 1..Len(longer) /\ longer[Len(list) + 1] = relationships'[i]
          BY <2>2, <3>2, <3>3, <4>1
        <5>. QED
          BY <5>1
      <4>2. CASE i # j
        <5>1. PICK n \in 1..Len(list) : list[n] = relationships'[i]
          BY <2>2, <3>6, <4>2
        <5>2. n \in 1..Len(longer) /\ longer[n] = relationships'[i]
          BY <2>2, <3>2, <5>1
        <5>. QED
          BY <5>2
      <4>. QED
        BY <4>1, <4>2
    <3>. QED
      BY <3>1, <3>2, <3>4, <3>5, <3>6 DEF Indexed
  <2>. QED
    BY <2>3, <2>4
<1>. QED
  BY <1>2, <1>6, <1>7 DEF IndexInv


\* A list that a scope of this revision holds is what the index of the store now gives.
Sound(scope, rev, index) ==
  /\ scope = [key |-> scope.key, lists |-> scope.lists]
  /\ scope.lists = [s \in Subject |-> scope.lists[s]]
  /\ scope.key.revision \in Nat
  /\ scope.key.revision <= rev
  /\ scope.key.revision = rev =>
       \A s \in Subject :
         scope.lists[s] # Null =>
           scope.lists[s] = {r \in R!ToSet(index[s]) : R!isActiveRelationshipAt(r, scope.key.asOf, scope.key.version)}

CacheInv ==
  /\ revision \in Nat
  /\ Len(scopes) \in Nat
  /\ scopes = [n \in 1..Len(scopes) |-> scopes[n]]
  /\ \A n \in 1..Len(scopes) : Sound(scopes[n], revision, bySubject)

LEMMA Rewritten ==
  ASSUME Null \notin Relationship, IndexInv, CacheInv, NEW j \in Id, NEW r \in Relationship, r.id = j,
         relationships' = [relationships EXCEPT ![j] = r], bySubject' = R!Replaced(relationships[j], r),
         revision' = revision + 1, scopes' = scopes, time' = time
  PROVE  IndexInv' /\ CacheInv'
<1>1. IndexInv'
  BY Reindexing DEF IndexInv
<1>2. revision \in Nat /\ \A n \in 1..Len(scopes) : Sound(scopes[n], revision, bySubject)
  BY DEF CacheInv
<1>3. \A n \in 1..Len(scopes) : Sound(scopes[n], revision', bySubject')
  BY <1>2 DEF Sound
<1>. QED
  BY <1>1, <1>2, <1>3 DEF CacheInv

LEMMA DeletedRecord ==
  ASSUME NEW r \in Relationship, time \in Nat
  PROVE  R!Deleted(r) \in Relationship /\ R!Deleted(r).id = r.id
<1>1. r = [id |-> r.id, subject |-> r.subject, version |-> r.version, asserted |-> r.asserted,
           status |-> r.status, updated |-> r.updated, expires |-> r.expires]
  BY DEF Relationship
<1>2. R!Deleted(r) = [r EXCEPT !.status = "deleted", !.updated = time]
  BY DEF R!Deleted
<1>3. R!Deleted(r) = [[id |-> r.id, subject |-> r.subject, version |-> r.version, asserted |-> r.asserted,
                       status |-> r.status, updated |-> r.updated, expires |-> r.expires]
                      EXCEPT !.status = "deleted", !.updated = time]
  BY <1>1, <1>2, Zenon
<1>4. R!Deleted(r) = [id |-> r.id, subject |-> r.subject, version |-> r.version, asserted |-> r.asserted,
                      status |-> "deleted", updated |-> time, expires |-> r.expires]
  BY <1>3
<1>. QED
  BY <1>4 DEF Relationship

\* The scopes are those that were there and, perhaps, a new one.
LEMMA ScopesBefore ==
  ASSUME CacheInv, NEW key
  PROVE  /\ Len(R!WithScope(key)) \in Nat
         /\ R!WithScope(key) = [n \in 1..Len(R!WithScope(key)) |-> R!WithScope(key)[n]]
         /\ \A n \in 1..Len(R!WithScope(key)) :
              \/ R!WithScope(key)[n] = R!NewScope(key)
              \/ \E m \in 1..Len(scopes) : R!WithScope(key)[n] = scopes[m]
<1>. DEFINE T == {scopes[m] : m \in 1..Len(scopes)} \cup {R!NewScope(key)}
            longer == Append(scopes, R!NewScope(key))
            w == R!WithScope(key)
<1>1. scopes \in Seq(T)
  BY DEF CacheInv
<1>2. longer \in Seq(T) /\ Len(longer) = Len(scopes) + 1
  BY <1>1
<1>3. w \in {scopes, longer, Tail(longer)}
  BY DEF R!WithScope
<1>. HIDE DEF T, longer, w
<1>4. Tail(longer) \in Seq(T)
  <2>1. Len(longer) > 0
    BY <1>2 DEF CacheInv
  <2>. QED
    BY <1>2, <2>1
<1>5. w \in Seq(T)
  BY <1>1, <1>2, <1>3, <1>4
<1>6. \A n \in 1..Len(w) : w[n] \in T
  BY <1>5
<1>7. Len(w) \in Nat /\ w = [n \in 1..Len(w) |-> w[n]]
  BY <1>5
<1>. QED
  BY <1>6, <1>7 DEF w, T


\* What the engine uses is what the index gives.
LEMMA Active ==
  ASSUME CacheInv, NEW s \in Subject, NEW asOf, NEW version
  PROVE  R!ActiveRelationshipsForSubject(s, asOf, version) =
           {r \in R!ToSet(bySubject[s]) : R!isActiveRelationshipAt(r, asOf, version)}
<1>. DEFINE key == R!ScopeKey(asOf, version)
            n == CHOOSE m \in R!Scopes(key) : TRUE
<1>1. R!Filtered(s, asOf, version) = {r \in R!ToSet(bySubject[s]) : R!isActiveRelationshipAt(r, asOf, version)}
  BY DEF R!Filtered
<1>2. CASE R!Scopes(key) = {}
  BY <1>1, <1>2 DEF R!ActiveRelationshipsForSubject, R!CachedList
<1>3. CASE R!Scopes(key) # {}
  <2>1. n \in R!Scopes(key)
    BY <1>3
  <2>2. R!ActiveRelationshipsForSubject(s, asOf, version) =
          IF scopes[n].lists[s] = Null THEN R!Filtered(s, asOf, version) ELSE scopes[n].lists[s]
    BY <1>3 DEF R!ActiveRelationshipsForSubject, R!CachedList
  <2>. HIDE DEF n
  <2>3. n \in 1..Len(scopes) /\ scopes[n].key = key
    BY <2>1 DEF R!Scopes, CacheInv
  <2>4. scopes[n].key.revision = revision /\ scopes[n].key.asOf = asOf /\ scopes[n].key.version = version
    BY <2>3 DEF R!ScopeKey
  <2>5. Sound(scopes[n], revision, bySubject)
    BY <2>3 DEF CacheInv
  <2>6. scopes[n].lists[s] # Null =>
          scopes[n].lists[s] = {r \in R!ToSet(bySubject[s]) : R!isActiveRelationshipAt(r, asOf, version)}
    BY <2>4, <2>5 DEF Sound
  <2>. QED
    BY <1>1, <2>2, <2>6
<1>. QED
  BY <1>2, <1>3

LEMMA CheckStep ==
  ASSUME IndexInv, CacheInv, NEW s \in Subject, NEW asOf \in Nat, NEW version, R!Check(s, asOf, version)
  PROVE  IndexInv' /\ CacheInv'
<1>. DEFINE key == R!ScopeKey(asOf, version)
            active == R!ActiveRelationshipsForSubject(s, asOf, version)
            w == R!WithScope(key)
            Sees(scope) == Sound(scope, revision, bySubject)
<1>1. /\ scopes' = [n \in DOMAIN w |-> R!Cached(w[n], key, s, active)]
      /\ UNCHANGED <<relationships, bySubject, revision, time>>
  BY DEF R!Check
<1>2. IndexInv'
  BY <1>1 DEF IndexInv
<1>3. active = {r \in R!ToSet(bySubject[s]) : R!isActiveRelationshipAt(r, asOf, version)}
  BY Active
<1>4. key.revision = revision /\ key.asOf = asOf /\ key.version = version /\ revision \in Nat
  BY DEF R!ScopeKey, CacheInv
<1>5. Sound(R!NewScope(key), revision, bySubject)
  <2>. HIDE DEF key
  <2>. QED
    BY <1>4 DEF Sound, R!NewScope
<1>6. /\ Len(w) \in Nat /\ w = [n \in 1..Len(w) |-> w[n]]
      /\ \A n \in 1..Len(w) : w[n] = R!NewScope(key) \/ \E m \in 1..Len(scopes) : w[n] = scopes[m]
  BY ScopesBefore
<1>. HIDE DEF key, active, w
<1>7. \A n \in 1..Len(w) : Sound(w[n], revision, bySubject)
  BY <1>5, <1>6 DEF CacheInv
<1>8. ASSUME NEW scope, Sound(scope, revision, bySubject)
      PROVE  Sound(R!Cached(scope, key, s, active), revision, bySubject)
  <2>1. CASE scope.key # key
    BY <1>8, <2>1 DEF R!Cached
  <2>2. CASE scope.key = key
    <3>. DEFINE lists == [scope.lists EXCEPT ![s] = active]
    <3>1. scope = [key |-> scope.key, lists |-> scope.lists] /\ scope.lists = [t \in Subject |-> scope.lists[t]]
      BY <1>8 DEF Sound
    <3>2. R!Cached(scope, key, s, active) = [key |-> key, lists |-> lists]
      BY <2>2, <3>1 DEF R!Cached
    <3>3. lists = [t \in Subject |-> IF t = s THEN active ELSE scope.lists[t]]
      BY <3>1
    <3>. HIDE DEF lists
    <3>4. lists = [t \in Subject |-> lists[t]] /\ \A t \in Subject : lists[t] = IF t = s THEN active ELSE scope.lists[t]
      BY <3>3
    <3>5. \A t \in Subject :
            lists[t] # Null =>
              lists[t] = {r \in R!ToSet(bySubject[t]) : R!isActiveRelationshipAt(r, key.asOf, key.version)}
      BY <1>3, <1>4, <1>8, <2>2, <3>4 DEF Sound
    <3>. QED
      BY <1>4, <3>2, <3>4, <3>5 DEF Sound
  <2>. QED
    BY <2>1, <2>2
<1>9. scopes' = [n \in 1..Len(w) |-> R!Cached(w[n], key, s, active)] /\ Len(scopes') = Len(w)
  BY <1>1, <1>6
<1>10. \A n \in 1..Len(w) : Sound(scopes'[n], revision, bySubject)
  BY <1>7, <1>8, <1>9
<1>. QED
  BY <1>1, <1>2, <1>4, <1>6, <1>9, <1>10 DEF CacheInv

\* However relationships are written, moved to another subject or deleted, the engine would now
\* decide on exactly those that the store holds and that are active: what it cached for an
\* earlier revision is never used (upsertRelationship, deleteRelationship, the index by subject
\* and #activeRelationshipScope). The graph holds relationships only: Null is not one of them.
THEOREM EngineSeesTheStoreHolds ==
  ASSUME Null \notin Relationship, LastMoment \in Nat
  PROVE  R!Spec => []EngineSeesTheStore
<1>1. R!Init => IndexInv /\ CacheInv
  <2>. SUFFICES ASSUME R!Init PROVE IndexInv /\ CacheInv
    OBVIOUS
  <2>1. \A s \in Subject : Indexed(<<>>, s, relationships)
    BY DEF R!Init, Indexed
  <2>. QED
    BY <2>1 DEF R!Init, IndexInv, CacheInv
<1>2. IndexInv /\ CacheInv /\ [R!Next]_R!relationshipVars => IndexInv' /\ CacheInv'
  <2>. SUFFICES ASSUME IndexInv, CacheInv, [R!Next]_R!relationshipVars PROVE IndexInv' /\ CacheInv'
    OBVIOUS
  <2>0. time \in Nat
    BY DEF IndexInv
  <2>1. ASSUME NEW i \in Id, NEW s \in Subject, NEW version \in R!Versions, NEW expires \in {Null} \cup time + 1..LastMoment,
               R!UpsertRelationship(i, s, version, expires)
        PROVE  IndexInv' /\ CacheInv'
    <3>. DEFINE r == [id |-> i, subject |-> s, version |-> version, asserted |-> time, status |-> "active",
                      updated |-> Null, expires |-> expires]
    <3>1. r \in Relationship /\ r.id = i
      BY <2>0 DEF Relationship, R!Versions
    <3>2. /\ relationships' = [relationships EXCEPT ![i] = r]
          /\ bySubject' = R!Replaced(relationships[i], r)
          /\ revision' = revision + 1 /\ scopes' = scopes /\ time' = time
      BY <2>1 DEF R!UpsertRelationship
    <3>. HIDE DEF r
    <3>. QED
      BY <3>1, <3>2, Rewritten
  <2>2. ASSUME NEW i \in Id, R!DeleteRelationship(i)
        PROVE  IndexInv' /\ CacheInv'
    <3>1. /\ relationships[i] # Null
          /\ relationships' = [relationships EXCEPT ![i] = R!Deleted(relationships[i])]
          /\ bySubject' = R!Replaced(relationships[i], R!Deleted(relationships[i]))
          /\ revision' = revision + 1 /\ scopes' = scopes /\ time' = time
      BY <2>2 DEF R!DeleteRelationship
    <3>2. relationships[i] \in Relationship /\ relationships[i].id = i
      BY <3>1 DEF IndexInv
    <3>3. R!Deleted(relationships[i]) \in Relationship /\ R!Deleted(relationships[i]).id = i
      BY <2>0, <3>2, DeletedRecord
    <3>. QED
      BY <3>1, <3>3, Rewritten
  <2>3. ASSUME NEW s \in Subject, NEW asOf \in 0..LastMoment, NEW version \in {Null, 1}, R!Check(s, asOf, version)
        PROVE  IndexInv' /\ CacheInv'
    BY <2>3, CheckStep
  <2>4. CASE R!Tick
    BY <2>0, <2>4 DEF R!Tick, IndexInv, CacheInv
  <2>5. CASE UNCHANGED R!relationshipVars
    BY <2>5 DEF R!relationshipVars, IndexInv, CacheInv
  <2>. QED
    BY <2>1, <2>2, <2>3, <2>4, <2>5 DEF R!Next
<1>3. IndexInv /\ CacheInv => EngineSeesTheStore
  <2>. SUFFICES ASSUME IndexInv, CacheInv, NEW s \in Subject, NEW asOf \in 0..time, NEW version \in {Null, 1}
                PROVE  R!Ids(R!ActiveRelationshipsForSubject(s, asOf, version)) =
                         {i \in Id : relationships[i] # Null /\ relationships[i].subject = s
                                     /\ R!isActiveRelationshipAt(relationships[i], asOf, version)}
    BY DEF EngineSeesTheStore, R!EngineSeesTheStore
  <2>. DEFINE Now(r) == R!isActiveRelationshipAt(r, asOf, version)
              list == bySubject[s]
  <2>1. R!ActiveRelationshipsForSubject(s, asOf, version) = {r \in R!ToSet(list) : Now(r)}
    BY Active
  <2>2. Indexed(list, s, relationships)
    BY DEF IndexInv
  <2>. HIDE DEF Now, list
  <2>3. R!ToSet(list) = {list[n] : n \in 1..Len(list)}
    BY <2>2 DEF R!ToSet, Indexed
  <2>4. \A n \in 1..Len(list) : /\ list[n] \in Relationship /\ list[n].id \in Id /\ list[n].subject = s
                                /\ relationships[list[n].id] = list[n] /\ list[n] # Null
    <3>1. /\ \A n \in 1..Len(list) : list[n] \in Relationship
          /\ \A n \in 1..Len(list) : list[n].subject = s /\ relationships[list[n].id] = list[n]
      BY <2>2 DEF Indexed
    <3>2. \A r \in Relationship : r.id \in Id /\ r # Null
      BY DEF Relationship
    <3>. QED
      BY <3>1, <3>2
  <2>5. \A i \in Id : relationships[i] # Null /\ relationships[i].subject = s
          => relationships[i].id = i /\ \E n \in 1..Len(list) : list[n] = relationships[i]
    BY <2>2 DEF Indexed, IndexInv
  <2>6. R!Ids(R!ActiveRelationshipsForSubject(s, asOf, version)) = {r.id : r \in {r \in R!ToSet(list) : Now(r)}}
    BY <2>1 DEF R!Ids
  <2>7. {r.id : r \in {r \in R!ToSet(list) : Now(r)}} =
          {i \in Id : relationships[i] # Null /\ relationships[i].subject = s /\ Now(relationships[i])}
    <3>1. ASSUME NEW n \in 1..Len(list), Now(list[n])
          PROVE  list[n].id \in {i \in Id : relationships[i] # Null /\ relationships[i].subject = s /\ Now(relationships[i])}
      BY <2>4, <3>1
    <3>2. ASSUME NEW i \in Id, relationships[i] # Null, relationships[i].subject = s, Now(relationships[i])
          PROVE  \E r \in R!ToSet(list) : Now(r) /\ r.id = i
      BY <2>3, <2>5, <3>2
    <3>. QED
      BY <2>3, <3>1, <3>2
  <2>. QED
    BY <2>6, <2>7 DEF Now
<1>. QED
  BY <1>1, <1>2, <1>3, PTL DEF R!Spec

-----------------------------------------------------------------------------
(* The names of audit events *)

\* The records that an actor and a token come from: no keys, or a key with that token.
NameOf(actor, token) ==
  \/ ApiKeys = <<>> /\ actor = AppActor
  \/ \E k \in H!ToSet(ApiKeys) : k.token = token /\ actor = H!resolveRequestAuditActor(k.label)

\* A request in progress has the name that its token gives it until it is answered.
NamedRequest(x) ==
  /\ x = [input |-> x.input, handler |-> x.handler, label |-> x.label, actor |-> x.actor,
          phase |-> x.phase, status |-> x.status]
  /\ x.phase \in {"reading", "waiting"} => NameOf(x.actor, x.input.auth.token)

NamesInv ==
  /\ serving = [c \in Task |-> serving[c]]
  /\ \A c \in Task : serving[c] # Null => NamedRequest(serving[c])
  /\ \E X : events \in Seq(X)
  /\ \A e \in H!ToSet(events) : e.type = "handled" => NameOf(e.actor, e.token)

\* A set of natural numbers has a least one.
LEMMA LeastNumber ==
  ASSUME NEW T \in SUBSET Nat, T # {}
  PROVE  H!Min(T) \in T
<1>1. PICK x \in T : \A y \in T : ~(<<y, x>> \in OpToRel(<, Nat))
  BY NatLessThanWellFounded, WFMin
<1>2. OpToRel(<, Nat) = {p \in Nat \X Nat : p[1] < p[2]}
  BY DEF OpToRel
<1>3. ASSUME NEW y \in T
      PROVE  x <= y
  <2>1. <<y, x>> \notin {p \in Nat \X Nat : p[1] < p[2]}
    BY <1>1, <1>2, Zenon
  <2>2. x \in Nat /\ y \in Nat
    BY <1>1
  <2>3. ~(y < x)
    BY <2>1, <2>2
  <2>. QED
    BY <2>2, <2>3
<1>. QED
  BY <1>1, <1>3 DEF H!Min

\* What authentication says of a request that it lets pass.
LEMMA Authenticated ==
  ASSUME NEW K, ApiKeys \in Seq(K), NEW header, H!authenticateRequest(header).status = "authenticated"
  PROVE  NameOf(H!resolveRequestAuditActor(H!authenticateRequest(header).label), header.token)
<1>. DEFINE I == {i \in 1..Len(ApiKeys) : ApiKeys[i].token = header.token}
            first == IF I # {} THEN H!Min(I) ELSE 0
<1>1. CASE ApiKeys = <<>>
  BY <1>1 DEF NameOf, H!authenticateRequest, H!resolveRequestAuditActor
<1>2. CASE ApiKeys # <<>>
  <2>1. /\ first # 0
        /\ H!authenticateRequest(header).label = ApiKeys[first].label
    BY <1>2 DEF H!authenticateRequest, H!SelectInSeq
  <2>2. I \subseteq Nat /\ I # {}
    BY <2>1
  <2>3. first \in I
    BY <2>2, LeastNumber
  <2>. HIDE DEF I, first
  <2>4. first \in 1..Len(ApiKeys) /\ ApiKeys[first].token = header.token
    BY <2>3 DEF I
  <2>5. ApiKeys[first] \in H!ToSet(ApiKeys)
    BY <2>4 DEF H!ToSet
  <2>. QED
    BY <2>1, <2>4, <2>5 DEF NameOf
<1>. QED
  BY <1>1, <1>2

\* An event that is recorded joins those that were.
LEMMA EventRecorded ==
  ASSUME NamesInv, NEW e, events' = Append(events, e), e.type = "handled" => NameOf(e.actor, e.token)
  PROVE  /\ \E X : events' \in Seq(X)
         /\ \A x \in H!ToSet(events') : x.type = "handled" => NameOf(x.actor, x.token)
<1>1. PICK X : events \in Seq(X)
  BY DEF NamesInv
<1>2. events \in Seq(X \cup {e})
  BY <1>1
<1>3. events' \in Seq(X \cup {e}) /\ Len(events') = Len(events) + 1 /\ Len(events) \in Nat
  BY <1>2
<1>4. \A i \in 1..Len(events') : events'[i] = e \/ (i \in 1..Len(events) /\ events'[i] = events[i])
  BY <1>2, <1>3
<1>5. ASSUME NEW x \in H!ToSet(events')
      PROVE  x = e \/ x \in H!ToSet(events)
  BY <1>1, <1>3, <1>4, <1>5 DEF H!ToSet
<1>. QED
  BY <1>3, <1>5 DEF NamesInv


\* A request that is answered, or waits for a connector, keeps its name.
LEMMA RequestMoves ==
  ASSUME NamesInv, NEW c \in Task, serving[c] # Null, NEW phase, NEW status,
         serving' = [serving EXCEPT ![c].phase = phase, ![c].status = status]
           \/ serving' = [serving EXCEPT ![c].phase = phase],
         phase = "answered" \/ serving[c].phase \in {"reading", "waiting"}
  PROVE  /\ serving' = [d \in Task |-> serving'[d]]
         /\ \A d \in Task : serving'[d] # Null => NamedRequest(serving'[d])
<1>. DEFINE x == serving[c]
            y == [input |-> x.input, handler |-> x.handler, label |-> x.label, actor |-> x.actor,
                  phase |-> phase, status |-> serving'[c].status]
<1>1. /\ x = [input |-> x.input, handler |-> x.handler, label |-> x.label, actor |-> x.actor,
              phase |-> x.phase, status |-> x.status]
      /\ serving = [d \in Task |-> serving[d]]
  BY DEF NamesInv, NamedRequest
<1>2. serving' = [d \in Task |-> serving'[d]] /\ \A d \in Task : d # c => serving'[d] = serving[d]
  BY <1>1
<1>3. serving'[c] = y
  <2>1. CASE serving' = [serving EXCEPT ![c].phase = phase, ![c].status = status]
    <3>1. serving'[c] = [x EXCEPT !.phase = phase, !.status = status]
      BY <1>1, <2>1
    <3>. QED
      BY <1>1, <3>1
  <2>2. CASE serving' = [serving EXCEPT ![c].phase = phase]
    <3>1. serving'[c] = [x EXCEPT !.phase = phase]
      BY <1>1, <2>2
    <3>. QED
      BY <1>1, <3>1
  <2>. QED
    BY <2>1, <2>2
<1>4. phase \in {"reading", "waiting"} => NameOf(x.actor, x.input.auth.token)
  BY DEF NamesInv, NamedRequest
<1>5. NamedRequest(y)
  BY <1>4 DEF NamedRequest
<1>. QED
  BY <1>2, <1>3, <1>5 DEF NamesInv

LEMMA NamesInit == H!Init => NamesInv
<1>. SUFFICES ASSUME H!Init PROVE NamesInv
  OBVIOUS
<1>1. events \in Seq({}) /\ H!ToSet(events) = {}
  BY DEF H!Init, H!ToSet
<1>. QED
  BY <1>1 DEF H!Init, NamesInv

\* A request arrives on a connection.
Begins(c, q, handler, label, phase, status) ==
  serving' = [serving EXCEPT ![c] = H!Progress(q, handler, label, phase, status)]

LEMMA NamesStep ==
  ASSUME NEW K, ApiKeys \in Seq(K), NamesInv, [H!Next]_(H!httpVars)
  PROVE  NamesInv'
<1>1. ASSUME UNCHANGED events
      PROVE  /\ \E X : events' \in Seq(X)
             /\ \A e \in H!ToSet(events') : e.type = "handled" => NameOf(e.actor, e.token)
  BY <1>1 DEF NamesInv
<1>2. ASSUME NEW c \in Task, NEW q \in Input, H!RouteRequest(c, q)
      PROVE  NamesInv'
  <2>. DEFINE who == H!authenticateRequest(q.auth)
  <2>1. PICK handler, label, phase, status :
          /\ Begins(c, q, handler, label, phase, status)
          /\ phase = "answered" \/ (who.status = "authenticated" /\ label = who.label)
          /\ events' = events \/ \E r, n : events' = Append(events, H!Failure(r, n))
    <3>1. CASE \E status : Begins(c, q, H!NotFound, Null, "answered", status) /\ UNCHANGED events
      BY <3>1
    <3>2. CASE /\ Begins(c, q, H!Route(q.method, q.segments), who.label, "reading", Null)
               /\ who.status = "authenticated" /\ UNCHANGED events
      BY <3>2
    <3>3. CASE /\ Begins(c, q, H!NotFound, Null, "answered", 401)
               /\ H!recordAuthenticationFailure(who.status)
      <4>1. events' = events \/ \E r, n : events' = Append(events, H!Failure(r, n))
        BY <3>3 DEF H!recordAuthenticationFailure
      <4>. QED
        BY <3>3, <4>1
    <3>. DEFINE answer == IF q.segments = H!Undecodable THEN 500
                          ELSE IF q.method = "GET" /\ H!Open(q.segments) THEN 200 ELSE 404
    <3>4. \/ Begins(c, q, H!NotFound, Null, "answered", answer) /\ UNCHANGED events
          \/ /\ Begins(c, q, H!Route(q.method, q.segments), who.label, "reading", Null)
             /\ who.status = "authenticated" /\ UNCHANGED events
          \/ /\ Begins(c, q, H!NotFound, Null, "answered", 401)
             /\ H!recordAuthenticationFailure(who.status)
      BY <1>2 DEF H!RouteRequest, Begins
    <3>. HIDE DEF answer, who
    <3>. QED
      BY <3>1, <3>2, <3>3, <3>4
  <2>2. PICK x : x = H!Progress(q, handler, label, phase, status)
    OBVIOUS
  <2>3. NamedRequest(x)
    <3>1. /\ x.input = q /\ x.actor = H!resolveRequestAuditActor(label) /\ x.phase = phase
          /\ x = [input |-> x.input, handler |-> x.handler, label |-> x.label, actor |-> x.actor,
                  phase |-> x.phase, status |-> x.status]
      BY <2>2 DEF H!Progress
    <3>2. phase = "answered" \/ NameOf(H!resolveRequestAuditActor(label), q.auth.token)
      BY <2>1, Authenticated
    <3>. QED
      BY <3>1, <3>2 DEF NamedRequest
  <2>4. /\ serving' = [d \in Task |-> serving'[d]]
        /\ \A d \in Task : serving'[d] # Null => NamedRequest(serving'[d])
    BY <2>1, <2>2, <2>3 DEF NamesInv, Begins
  <2>5. /\ \E X : events' \in Seq(X)
        /\ \A e \in H!ToSet(events') : e.type = "handled" => NameOf(e.actor, e.token)
    <3>1. CASE events' = events
      BY <1>1, <3>1
    <3>2. ASSUME NEW r, NEW n, events' = Append(events, H!Failure(r, n))
          PROVE  /\ \E X : events' \in Seq(X)
                 /\ \A e \in H!ToSet(events') : e.type = "handled" => NameOf(e.actor, e.token)
      <4>1. H!Failure(r, n).type # "handled"
        BY DEF H!Failure
      <4>. QED
        BY <3>2, <4>1, EventRecorded
    <3>. QED
      BY <2>1, <3>1, <3>2
  <2>. QED
    BY <2>4, <2>5 DEF NamesInv, NameOf, NamedRequest
<1>3. ASSUME NEW c \in Task, H!Handle(c) \/ H!Resume(c)
      PROVE  NamesInv'
  <2>1. serving[c] # Null /\ serving[c].phase \in {"reading", "waiting"}
    BY <1>3 DEF H!Handle, H!Resume
  <2>2. (\E status : H!Answer(c, status)) \/ serving' = [serving EXCEPT ![c].phase = "waiting"]
    BY <1>3 DEF H!Handle, H!Resume
  <2>3. /\ serving' = [d \in Task |-> serving'[d]]
        /\ \A d \in Task : serving'[d] # Null => NamedRequest(serving'[d])
    BY <2>1, <2>2, RequestMoves DEF H!Answer
  <2>4. events' = events \/ H!RecordAudit(c)
    BY <1>3 DEF H!Handle, H!Resume
  <2>5. /\ \E X : events' \in Seq(X)
        /\ \A e \in H!ToSet(events') : e.type = "handled" => NameOf(e.actor, e.token)
    <3>1. CASE events' = events
      BY <1>1, <3>1
    <3>2. CASE H!RecordAudit(c)
      <4>1. PICK e : e = [type |-> "handled", actor |-> serving[c].actor, token |-> serving[c].input.auth.token]
        OBVIOUS
      <4>2. events' = Append(events, e)
        BY <3>2, <4>1 DEF H!RecordAudit, H!getRequestAuditActor
      <4>3. NameOf(e.actor, e.token)
        BY <2>1, <4>1 DEF NamesInv, NamedRequest
      <4>. QED
        BY <4>2, <4>3, EventRecorded
    <3>. QED
      BY <2>4, <3>1, <3>2
  <2>. QED
    BY <2>3, <2>5 DEF NamesInv, NameOf, NamedRequest
<1>4. ASSUME NEW c \in Task, H!Close(c)
      PROVE  NamesInv'
  BY <1>1, <1>4 DEF H!Close, NamesInv, NameOf, NamedRequest
<1>5. CASE H!Tick \/ UNCHANGED H!httpVars
  BY <1>1, <1>5 DEF H!Tick, H!httpVars, NamesInv, NameOf, NamedRequest
<1>. QED
  BY <1>2, <1>3, <1>4, <1>5 DEF H!Next

\* With keys configured, whatever a request did is recorded under the name of the key whose
\* token it presented, however many requests are in progress and wait beside it
\* (authenticateRequest, withRequestAuditActor, recordAudit).
THEOREM EventNamesItsCallerHolds ==
  ASSUME NEW K, ApiKeys \in Seq(K)
  PROVE  H!Spec => []H!EventNamesItsCaller
<1>1. H!Init => NamesInv
  BY NamesInit
<1>2. NamesInv /\ [H!Next]_(H!httpVars) => NamesInv'
  BY NamesStep
<1>3. NamesInv => H!EventNamesItsCaller
  BY DEF NamesInv, NameOf, H!EventNamesItsCaller
<1>. QED
  BY <1>1, <1>2, <1>3, PTL DEF H!Spec

-----------------------------------------------------------------------------
(* The counts of failed authentications *)

\* Every non-empty set of natural numbers has a least one.
LEMMA LeastOf ==
  ASSUME NEW T \in SUBSET Nat, T # {}
  PROVE  \E n \in T : \A k \in T : n <= k
<1>1. PICK n \in T : \A k \in T : ~(<<k, n>> \in OpToRel(<, Nat))
  BY NatLessThanWellFounded, WFMin
<1>2. OpToRel(<, Nat) = {p \in Nat \X Nat : p[1] < p[2]}
  BY DEF OpToRel
<1>3. ASSUME NEW k \in T
      PROVE  n <= k
  <2>1. <<k, n>> \notin {p \in Nat \X Nat : p[1] < p[2]}
    BY <1>1, <1>2, Zenon
  <2>2. k \in Nat /\ n \in Nat /\ ~(k < n)
    BY <2>1
  <2>. QED
    BY <2>2
<1>. QED
  BY <1>3

\* A first number that is not of a kind, when zero is, follows one that is.
LEMMA FirstFailure ==
  ASSUME NEW N \in Nat, NEW T \in SUBSET (0..N), T # {}, 0 \notin T
  PROVE  \E m \in 1..N : m \in T /\ m - 1 \in 0..N /\ m - 1 \notin T
<1>1. T \in SUBSET Nat
  OBVIOUS
<1>2. PICK m \in T : \A k \in T : m <= k
  BY <1>1, LeastOf
<1>3. m \in 1..N /\ m - 1 \in 0..N /\ ~(m <= m - 1)
  OBVIOUS
<1>. QED
  BY <1>2, <1>3

\* The running totals up to n.
TotalsTo(numbers, n, total) ==
  /\ total \in [0..n -> Nat] /\ total[0] = 0
  /\ \A k \in 1..n : total[k] = total[k - 1] + numbers[k]

\* There are running totals up to every n: the least n without any would have them from n - 1.
LEMMA TotalsExist ==
  ASSUME NEW numbers \in Seq(Nat), NEW n \in 0..Len(numbers)
  PROVE  \E total : TotalsTo(numbers, n, total)
<1>. DEFINE T == {k \in 0..Len(numbers) : ~\E total : TotalsTo(numbers, k, total)}
<1>1. TotalsTo(numbers, 0, [k \in 0..0 |-> 0])
  BY DEF TotalsTo
<1>2. T \in SUBSET (0..Len(numbers)) /\ 0 \notin T /\ Len(numbers) \in Nat
  BY <1>1
<1>3. \A k \in 0..Len(numbers) : k \in T <=> ~\E total : TotalsTo(numbers, k, total)
  OBVIOUS
<1>. HIDE DEF T
<1>. SUFFICES ASSUME T # {}
              PROVE  FALSE
  BY <1>3
<1>4. PICK m \in 1..Len(numbers) : m \in T /\ m - 1 \in 0..Len(numbers) /\ m - 1 \notin T
  BY <1>2, FirstFailure
<1>5. PICK total : TotalsTo(numbers, m - 1, total)
  BY <1>3, <1>4
<1>. DEFINE longer == [k \in 0..m |-> IF k = m THEN total[m - 1] + numbers[m] ELSE total[k]]
<1>6. m \in Nat /\ m # 0 /\ numbers[m] \in Nat /\ total[m - 1] \in Nat
  BY <1>2, <1>4, <1>5 DEF TotalsTo
<1>7. /\ longer \in [0..m -> Nat] /\ longer[0] = 0 /\ longer[m] = total[m - 1] + numbers[m]
      /\ \A k \in 0..m - 1 : longer[k] = total[k]
  BY <1>5, <1>6 DEF TotalsTo
<1>. HIDE DEF longer
<1>8. ASSUME NEW k \in 1..m
      PROVE  longer[k] = longer[k - 1] + numbers[k]
  <2>1. CASE k = m
    <3>1. m - 1 \in 0..m - 1
      BY <1>6
    <3>. QED
      BY <1>7, <2>1, <3>1
  <2>2. CASE k # m
    <3>1. k \in 1..m - 1 /\ k \in 0..m - 1 /\ k - 1 \in 0..m - 1
      BY <1>6, <2>2
    <3>2. total[k] = total[k - 1] + numbers[k]
      BY <1>5, <3>1 DEF TotalsTo
    <3>. QED
      BY <1>7, <3>1, <3>2
  <2>. QED
    BY <2>1, <2>2
<1>9. TotalsTo(numbers, m, longer)
  BY <1>7, <1>8 DEF TotalsTo
<1>. QED
  BY <1>3, <1>4, <1>9

\* The running totals are what their definition says.
LEMMA TotalsDef ==
  ASSUME NEW numbers \in Seq(Nat)
  PROVE  TotalsTo(numbers, Len(numbers), H!Totals(numbers))
<1>. DEFINE Defines(t) == t = [n \in 0..Len(numbers) |-> IF n = 0 THEN 0 ELSE t[n - 1] + numbers[n]]
            total == H!Totals(numbers)
            T == {n \in 0..Len(numbers) : total[n] \notin Nat}
<1>1. PICK g : TotalsTo(numbers, Len(numbers), g)
  BY TotalsExist
<1>2. Defines(g)
  BY <1>1 DEF TotalsTo
<1>3. Defines(total)
  BY <1>2 DEF H!Totals
<1>4. Len(numbers) \in Nat
  OBVIOUS
<1>5. \A n \in 0..Len(numbers) : n \in T <=> total[n] \notin Nat
  OBVIOUS
<1>6. T \in SUBSET (0..Len(numbers))
  OBVIOUS
<1>. HIDE DEF total, T
<1>7. /\ total = [n \in 0..Len(numbers) |-> total[n]] /\ total[0] = 0
      /\ \A n \in 1..Len(numbers) : total[n] = total[n - 1] + numbers[n]
  BY <1>3, <1>4
<1>8. ASSUME T # {}
      PROVE  FALSE
  <2>1. 0 \notin T
    BY <1>4, <1>5, <1>7
  <2>2. PICK m \in 1..Len(numbers) : m \in T /\ m - 1 \in 0..Len(numbers) /\ m - 1 \notin T
    BY <1>4, <1>6, <1>8, <2>1, FirstFailure
  <2>3. total[m - 1] \in Nat
    BY <1>5, <2>2
  <2>4. numbers[m] \in Nat
    BY <2>2
  <2>5. total[m] = total[m - 1] + numbers[m]
    BY <1>7, <2>2
  <2>6. m \in 0..Len(numbers)
    BY <1>4, <2>2
  <2>. QED
    BY <1>5, <2>2, <2>3, <2>4, <2>5, <2>6
<1>9. total \in [0..Len(numbers) -> Nat]
  BY <1>5, <1>7, <1>8
<1>. QED
  BY <1>7, <1>9 DEF TotalsTo, total

\* A number that is added last is added to the total.
LEMMA TotalsAppend ==
  ASSUME NEW numbers \in Seq(Nat), NEW number \in Nat
  PROVE  /\ H!Totals(numbers)[Len(numbers)] \in Nat
         /\ H!Totals(Append(numbers, number))[Len(numbers) + 1] = H!Totals(numbers)[Len(numbers)] + number
<1>. DEFINE longer == Append(numbers, number)
            t == H!Totals(numbers)
            u == H!Totals(longer)
            T == {n \in 0..Len(numbers) : t[n] # u[n]}
<1>1. /\ longer \in Seq(Nat) /\ Len(longer) = Len(numbers) + 1 /\ longer[Len(numbers) + 1] = number
      /\ Len(numbers) \in Nat /\ \A n \in 1..Len(numbers) : longer[n] = numbers[n]
  OBVIOUS
<1>2. TotalsTo(numbers, Len(numbers), t)
  BY TotalsDef
<1>3. TotalsTo(longer, Len(longer), u)
  BY <1>1, TotalsDef
<1>4. \A n \in 0..Len(numbers) : n \in T <=> t[n] # u[n]
  OBVIOUS
<1>5. T \in SUBSET (0..Len(numbers))
  OBVIOUS
<1>. HIDE DEF longer, t, u, T
<1>6. ASSUME T # {}
      PROVE  FALSE
  <2>1. 0 \notin T
    BY <1>1, <1>2, <1>3, <1>4 DEF TotalsTo
  <2>2. PICK m \in 1..Len(numbers) : m \in T /\ m - 1 \in 0..Len(numbers) /\ m - 1 \notin T
    BY <1>1, <1>5, <1>6, <2>1, FirstFailure
  <2>3. t[m] = t[m - 1] + numbers[m] /\ t[m - 1] = u[m - 1] /\ longer[m] = numbers[m]
    BY <1>1, <1>2, <1>4, <2>2 DEF TotalsTo
  <2>4. m \in 1..Len(longer)
    BY <1>1
  <2>5. u[m] = u[m - 1] + longer[m]
    BY <1>3, <2>4 DEF TotalsTo
  <2>. QED
    BY <1>4, <2>2, <2>3, <2>5
<1>7. t[Len(numbers)] = u[Len(numbers)] /\ t[Len(numbers)] \in Nat
  BY <1>1, <1>2, <1>4, <1>6 DEF TotalsTo
<1>8. Len(numbers) + 1 \in 1..Len(longer) /\ Len(numbers) + 1 - 1 = Len(numbers)
  BY <1>1
<1>9. \A n \in 1..Len(longer) : u[n] = u[n - 1] + longer[n]
  BY <1>3 DEF TotalsTo
<1>10. u[Len(numbers) + 1] = u[Len(numbers) + 1 - 1] + longer[Len(numbers) + 1]
  BY <1>8, <1>9
<1>11. u[Len(numbers) + 1] = u[Len(numbers)] + number
  BY <1>1, <1>8, <1>10
<1>. QED
  BY <1>7, <1>11 DEF t, u, longer

\* The failures for a reason that an event reports, and those that all events report.
CountOf(e, r) == IF e.type = "failed" /\ e.reason = r THEN e.count ELSE 0
Reported(r) == H!Totals(H!Reports(r))[Len(events)]
Sampled == [at : Nat, suppressed : Nat]
Suppressed(r) == IF samples[r] = Null THEN 0 ELSE samples[r].suppressed

\* Every event has a count, every sample a time and a count, and those add up.
CountsInv ==
  /\ minute \in Nat
  /\ \E X : events \in Seq(X)
  /\ \A n \in DOMAIN events : \A r \in H!Reason : CountOf(events[n], r) \in Nat
  /\ failed \in [H!Reason -> Nat]
  /\ samples \in [H!Reason -> {Null} \cup Sampled]
  /\ \A r \in H!Reason : Reported(r) + Suppressed(r) = failed[r]

LEMMA ReportsTyped ==
  ASSUME CountsInv, NEW r \in H!Reason
  PROVE  H!Reports(r) \in Seq(Nat) /\ Len(H!Reports(r)) = Len(events) /\ Reported(r) \in Nat
<1>1. DOMAIN events = 1..Len(events) /\ Len(events) \in Nat
  BY DEF CountsInv
<1>2. H!Reports(r) = [n \in 1..Len(events) |-> CountOf(events[n], r)]
  BY <1>1 DEF H!Reports, CountOf
<1>3. \A n \in 1..Len(events) : CountOf(events[n], r) \in Nat
  BY <1>1 DEF CountsInv
<1>4. H!Reports(r) \in Seq(Nat) /\ Len(H!Reports(r)) = Len(events)
  BY <1>1, <1>2, <1>3
<1>. QED
  BY <1>4, TotalsAppend DEF Reported

\* An event that is recorded adds what it reports to what is reported.
LEMMA EventCounted ==
  ASSUME CountsInv, NEW r \in H!Reason, NEW e, events' = Append(events, e),
         CountOf(e, r) \in Nat
  PROVE  Reported(r)' = Reported(r) + CountOf(e, r)
<1>1. PICK X : events \in Seq(X)
  BY DEF CountsInv
<1>2. events \in Seq(X \cup {e}) /\ e \in X \cup {e}
  BY <1>1
<1>3. /\ Len(events) \in Nat /\ Len(events') = Len(events) + 1 /\ DOMAIN events' = 1..Len(events) + 1
      /\ DOMAIN events = 1..Len(events)
      /\ events'[Len(events) + 1] = e /\ \A n \in 1..Len(events) : events'[n] = events[n]
  BY <1>2
<1>. DEFINE old == H!Reports(r)
            new == [n \in 1..Len(events) + 1 |-> CountOf(events'[n], r)]
<1>4. H!Reports(r)' = new
  BY <1>3 DEF H!Reports, CountOf
<1>5. old = [n \in 1..Len(events) |-> CountOf(events[n], r)]
  BY <1>3 DEF H!Reports, CountOf
<1>6. old \in Seq(Nat) /\ Len(old) = Len(events)
  BY ReportsTyped
<1>7. /\ \A n \in 1..Len(events) : new[n] = old[n]
      /\ new[Len(events) + 1] = CountOf(e, r)
  <2>. HIDE DEF old
  <2>1. \A n \in 1..Len(events) : old[n] = CountOf(events[n], r)
    BY <1>5
  <2>2. \A n \in 1..Len(events) : n \in 1..Len(events) + 1
    BY <1>3
  <2>3. Len(events) + 1 \in 1..Len(events) + 1
    BY <1>3
  <2>. QED
    BY <1>3, <2>1, <2>2, <2>3
<1>. DEFINE appended == Append(old, CountOf(e, r))
<1>8. /\ appended \in Seq(Nat) /\ Len(appended) = Len(events) + 1
      /\ appended[Len(events) + 1] = CountOf(e, r) /\ \A n \in 1..Len(events) : appended[n] = old[n]
  <2>. HIDE DEF old
  <2>. QED
    BY <1>6
<1>9. new = appended
  <2>1. DOMAIN new = 1..Len(events) + 1 /\ new = [n \in 1..Len(events) + 1 |-> new[n]]
    OBVIOUS
  <2>. HIDE DEF old, new, appended
  <2>2. appended = [n \in 1..Len(events) + 1 |-> appended[n]]
    BY <1>8
  <2>3. ASSUME NEW n \in 1..Len(events) + 1
        PROVE  new[n] = appended[n]
    <3>1. n \in 1..Len(events) \/ n = Len(events) + 1
      BY <1>3
    <3>. QED
      BY <1>7, <1>8, <3>1
  <2>. QED
    BY <2>1, <2>2, <2>3
<1>10. H!Totals(appended)[Len(old) + 1] = H!Totals(old)[Len(old)] + CountOf(e, r)
  <2>. HIDE DEF old
  <2>. QED
    BY <1>6, TotalsAppend
<1>11. Reported(r)' = H!Totals(new)[Len(events) + 1]
  <2>. HIDE DEF new
  <2>. QED
    BY <1>3, <1>4 DEF Reported
<1>. QED
  BY <1>6, <1>9, <1>10, <1>11 DEF Reported

\* Every count of a longer log is a number.
LEMMA CountsAppend ==
  ASSUME CountsInv, NEW e, events' = Append(events, e), \A r \in H!Reason : CountOf(e, r) \in Nat
  PROVE  /\ \E X : events' \in Seq(X)
         /\ \A n \in DOMAIN events' : \A r \in H!Reason : CountOf(events'[n], r) \in Nat
<1>1. PICK X : events \in Seq(X)
  BY DEF CountsInv
<1>2. events \in Seq(X \cup {e}) /\ e \in X \cup {e}
  BY <1>1
<1>3. /\ events' \in Seq(X \cup {e}) /\ DOMAIN events' = 1..Len(events) + 1 /\ Len(events) \in Nat
      /\ DOMAIN events = 1..Len(events)
      /\ events'[Len(events) + 1] = e /\ \A n \in 1..Len(events) : events'[n] = events[n]
  BY <1>2
<1>4. ASSUME NEW n \in DOMAIN events', NEW r \in H!Reason
      PROVE  CountOf(events'[n], r) \in Nat
  <2>1. n \in 1..Len(events) \/ n = Len(events) + 1
    BY <1>3
  <2>2. CASE n \in 1..Len(events)
    BY <1>3, <2>2 DEF CountsInv
  <2>3. CASE n = Len(events) + 1
    BY <1>3, <2>3
  <2>. QED
    BY <2>1, <2>2, <2>3
<1>. QED
  BY <1>3, <1>4

\* A failure that is not reported is suppressed, one that is reports those suppressed before.
LEMMA FailureCounted ==
  ASSUME CountsInv, Null \notin Sampled, NEW reason \in H!Reason,
         failed' = [failed EXCEPT ![reason] = @ + 1], UNCHANGED minute,
         H!recordAuthenticationFailure(reason)
  PROVE  CountsInv'
<1>1. /\ failed' \in [H!Reason -> Nat] /\ failed'[reason] = failed[reason] + 1
      /\ \A r \in H!Reason : r # reason => failed'[r] = failed[r]
  BY DEF CountsInv
<1>2. CASE samples[reason] # Null /\ minute - samples[reason].at < Window
  <2>1. samples' = [samples EXCEPT ![reason].suppressed = @ + 1] /\ UNCHANGED events
    BY <1>2 DEF H!recordAuthenticationFailure
  <2>2. samples[reason] \in Sampled
    BY <1>2 DEF CountsInv
  <2>3. /\ samples'[reason] = [samples[reason] EXCEPT !.suppressed = @ + 1]
        /\ \A r \in H!Reason : r # reason => samples'[r] = samples[r]
        /\ samples' = [r \in H!Reason |-> samples'[r]]
    BY <2>1 DEF CountsInv
  <2>4. samples'[reason] \in Sampled /\ samples'[reason].suppressed = samples[reason].suppressed + 1
    BY <2>2, <2>3 DEF Sampled
  <2>5. samples' \in [H!Reason -> {Null} \cup Sampled]
    BY <2>3, <2>4 DEF CountsInv
  <2>6. \A r \in H!Reason : Reported(r)' = Reported(r)
    BY <2>1 DEF Reported, H!Reports
  <2>7. ASSUME NEW r \in H!Reason
        PROVE  Reported(r)' + Suppressed(r)' = failed'[r]
    <3>1. Reported(r) \in Nat /\ failed[r] \in Nat /\ Reported(r) + Suppressed(r) = failed[r]
      BY ReportsTyped DEF CountsInv
    <3>2. CASE r = reason
      <4>1. Suppressed(r) \in Nat /\ Suppressed(r)' = Suppressed(r) + 1
        BY <1>2, <2>2, <2>4, <3>2 DEF Suppressed, Sampled
      <4>. QED
        BY <1>1, <2>6, <3>1, <3>2, <4>1
    <3>3. CASE r # reason
      BY <1>1, <2>3, <2>6, <3>1, <3>3 DEF Suppressed
    <3>. QED
      BY <3>2, <3>3
  <2>8. /\ \E X : events' \in Seq(X)
        /\ \A n \in DOMAIN events' : \A r \in H!Reason : CountOf(events'[n], r) \in Nat
    BY <2>1 DEF CountsInv
  <2>9. minute' \in Nat
    BY DEF CountsInv
  <2>. QED
    BY <1>1, <2>5, <2>7, <2>8, <2>9 DEF CountsInv
<1>3. CASE ~(samples[reason] # Null /\ minute - samples[reason].at < Window)
  <2>1. PICK e : e = H!Failure(reason, Suppressed(reason))
    OBVIOUS
  <2>2. samples' = [samples EXCEPT ![reason] = [at |-> minute, suppressed |-> 0]] /\ events' = Append(events, e)
    BY <1>3, <2>1 DEF H!recordAuthenticationFailure, Suppressed
  <2>3. Suppressed(reason) \in Nat
    BY DEF CountsInv, Suppressed, Sampled
  <2>4. e.type = "failed" /\ e.reason = reason /\ e.count = 1 + Suppressed(reason)
    BY <2>1 DEF H!Failure
  <2>5. \A r \in H!Reason : CountOf(e, r) = IF r = reason THEN 1 + Suppressed(reason) ELSE 0
    BY <2>4 DEF CountOf
  <2>6. \A r \in H!Reason : CountOf(e, r) \in Nat
    BY <2>3, <2>5
  <2>7. minute \in Nat
    BY DEF CountsInv
  <2>8. /\ samples'[reason] = [at |-> minute, suppressed |-> 0]
        /\ \A r \in H!Reason : r # reason => samples'[r] = samples[r]
        /\ samples' \in [H!Reason -> {Null} \cup Sampled]
    BY <2>2, <2>7 DEF CountsInv, Sampled
  <2>9. samples'[reason] \in Sampled
    BY <2>7, <2>8 DEF Sampled
  <2>10. ASSUME NEW r \in H!Reason
         PROVE  Reported(r)' + Suppressed(r)' = failed'[r]
    <3>1. Reported(r) \in Nat /\ failed[r] \in Nat /\ Reported(r) + Suppressed(r) = failed[r]
      BY ReportsTyped DEF CountsInv
    <3>2. Reported(r)' = Reported(r) + CountOf(e, r)
      BY <2>2, <2>6, EventCounted
    <3>3. CASE r = reason
      <4>1. Suppressed(r)' = 0
        BY <2>8, <2>9, <3>3 DEF Suppressed
      <4>2. Reported(r)' = Reported(r) + (1 + Suppressed(r))
        BY <2>5, <3>2, <3>3
      <4>. QED
        BY <1>1, <2>3, <3>1, <3>3, <4>1, <4>2
    <3>4. CASE r # reason
      <4>1. Suppressed(r)' = Suppressed(r) /\ Reported(r)' = Reported(r)
        BY <2>5, <2>8, <3>1, <3>2, <3>4 DEF Suppressed
      <4>. QED
        BY <1>1, <3>1, <3>4, <4>1
    <3>. QED
      BY <3>3, <3>4
  <2>. QED
    BY <1>1, <2>2, <2>6, <2>7, <2>8, <2>10, CountsAppend DEF CountsInv
<1>. QED
  BY <1>2, <1>3

LEMMA CountsInit == H!Init => CountsInv
<1>. SUFFICES ASSUME H!Init PROVE CountsInv
  OBVIOUS
<1>1. /\ events = <<>> /\ events \in Seq(Nat) /\ Len(events) = 0 /\ DOMAIN events = {} /\ minute = 0
      /\ samples = [r \in H!Reason |-> Null] /\ failed = [r \in H!Reason |-> 0]
  BY DEF H!Init
<1>2. ASSUME NEW r \in H!Reason
      PROVE  Reported(r) = 0
  <2>1. H!Reports(r) = <<>>
    BY <1>1 DEF H!Reports
  <2>2. <<>> \in Seq(Nat) /\ Len(<<>>) = 0
    OBVIOUS
  <2>3. TotalsTo(<<>>, Len(<<>>), H!Totals(<<>>))
    BY <2>2, TotalsDef
  <2>. QED
    BY <1>1, <2>1, <2>2, <2>3 DEF TotalsTo, Reported
<1>. QED
  BY <1>1, <1>2 DEF CountsInv, Suppressed

LEMMA CountsStep ==
  ASSUME Null \notin Sampled, CountsInv, [H!Next]_(H!httpVars)
  PROVE  CountsInv'
<1>1. ASSUME UNCHANGED <<samples, events, failed>>, minute' \in Nat
      PROVE  CountsInv'
  BY <1>1 DEF CountsInv, Reported, Suppressed, H!Reports
<1>2. minute \in Nat
  BY DEF CountsInv
<1>3. ASSUME NEW c \in Task, NEW q \in Input, H!RouteRequest(c, q)
      PROVE  CountsInv'
  <2>1. PICK who : who = H!authenticateRequest(q.auth)
    OBVIOUS
  <2>2. who.status \in H!Reason \cup {"authenticated"}
    BY <2>1 DEF H!authenticateRequest, H!Reason
  <2>3. /\ UNCHANGED minute
        /\ \/ UNCHANGED <<samples, events, failed>>
           \/ /\ who.status # "authenticated"
              /\ failed' = [failed EXCEPT ![who.status] = @ + 1]
              /\ H!recordAuthenticationFailure(who.status)
    BY <1>3, <2>1 DEF H!RouteRequest
  <2>. QED
    BY <1>1, <1>2, <2>2, <2>3, FailureCounted
<1>4. ASSUME NEW c \in Task, H!Handle(c) \/ H!Resume(c)
      PROVE  CountsInv'
  <2>1. UNCHANGED <<samples, failed, minute>> /\ (UNCHANGED events \/ H!RecordAudit(c))
    BY <1>4 DEF H!Handle, H!Resume
  <2>2. CASE UNCHANGED events
    BY <1>1, <1>2, <2>1, <2>2
  <2>3. CASE H!RecordAudit(c)
    <3>1. PICK e : e.type = "handled" /\ events' = Append(events, e)
      BY <2>3 DEF H!RecordAudit
    <3>2. \A r \in H!Reason : CountOf(e, r) = 0
      BY <3>1 DEF CountOf
    <3>3. \A r \in H!Reason : Reported(r)' = Reported(r)
      BY <3>1, <3>2, EventCounted, ReportsTyped
    <3>4. /\ \E X : events' \in Seq(X)
          /\ \A n \in DOMAIN events' : \A r \in H!Reason : CountOf(events'[n], r) \in Nat
      BY <3>1, <3>2, CountsAppend
    <3>. QED
      BY <1>2, <2>1, <3>3, <3>4 DEF CountsInv, Suppressed
  <2>. QED
    BY <2>1, <2>2, <2>3
<1>5. ASSUME NEW c \in Task, H!Close(c)
      PROVE  CountsInv'
  BY <1>1, <1>2, <1>5 DEF H!Close
<1>6. CASE H!Tick
  BY <1>1, <1>2, <1>6 DEF H!Tick
<1>7. CASE UNCHANGED H!httpVars
  BY <1>1, <1>2, <1>7 DEF H!httpVars
<1>. QED
  BY <1>3, <1>4, <1>5, <1>6, <1>7 DEF H!Next

\* Whatever a request did is recorded under the name of the key it presented, and the sampled
\* events of failed authentications, with those counted since the last one, account for every
\* failure (withRequestAuditActor, recordAuthenticationFailure). Undefined is no sample.
THEOREM CallersAreAccountedForHolds ==
  ASSUME NEW K, ApiKeys \in Seq(K), Null \notin Sampled
  PROVE  H!Spec => []CallersAreAccountedFor
<1>1. H!Init => CountsInv
  BY CountsInit
<1>2. CountsInv /\ [H!Next]_(H!httpVars) => CountsInv'
  BY CountsStep
<1>3. CountsInv => H!FailuresAreAccountedFor
  BY DEF CountsInv, H!FailuresAreAccountedFor, Reported, Suppressed
<1>4. H!Spec => []H!EventNamesItsCaller
  BY EventNamesItsCallerHolds
<1>. QED
  BY <1>1, <1>2, <1>3, <1>4, PTL DEF H!Spec, CallersAreAccountedFor
=============================================================================

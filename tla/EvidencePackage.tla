--------------------------- MODULE EvidencePackage ---------------------------
(* The evidence package: how an export is assembled from the audit events of  *)
(* a period (packages/api/src/runtime-evidence-export.ts), completed          *)
(* (packages/core/src/evidence-package-builder.ts), hashed, signed and later  *)
(* verified (packages/core/src/evidence-integrity.ts).                        *)
(*                                                                            *)
(* A digest is the value it was computed from and a signature is the key and  *)
(* the metadata it was made with: neither can be made to fit another value.   *)
(* A field that is not there is None. The sections that no check looks into   *)
(* (metrics, artifacts, data flows, reviews) are the one field "others".      *)
EXTENDS Naturals, Sequences, SequencesExt

CONSTANT None

OrElse(value, default) == IF value = None THEN default ELSE value
Map(seq, Op(_)) == [i \in DOMAIN seq |-> Op(seq[i])]
\* The first statement about a control, or None.
FindControl(seq, control) ==
  LET i == SelectInSeq(seq, LAMBDA y : y.control = control) IN IF i = 0 THEN None ELSE seq[i]
\* Two lists hold the same ids as often: [...a].sort() is compared with [...b].sort().
SameItems(a, b) ==
  \A i \in ToSet(a) \cup ToSet(b) : Len(SelectSeq(a, LAMBDA y : y = i)) = Len(SelectSeq(b, LAMBDA y : y = i))

---------------------------------------------------------------------------
(* The draft of an export.                                                 *)

\* The types of events that count for a control, for two controls of the catalog.
controlImplementationCatalog ==
  [c \in {"AC-3", "AU-6"} |->
     IF c = "AC-3" THEN {"decision.allowed", "decision.denied"} ELSE {"audit.integrity_verified", "evidence.generated"}]

PeriodStart(events, options, now) ==
  OrElse(options.start, IF events = <<>> THEN now ELSE Min({events[i].at : i \in DOMAIN events}))
PeriodEnd(options, now) == OrElse(options.end, now)
InPeriod(events, options, now) ==
  SelectSeq(events, LAMBDA e : PeriodStart(events, options, now) <= e.at /\ e.at <= PeriodEnd(options, now))
Ids(records) == Map(records, LAMBDA r : r.id)

ControlMapping(control, events) ==
  IF control \notin DOMAIN controlImplementationCatalog
  THEN [control |-> control, status |-> "planned", events |-> <<>>, gap |-> "undefined"]
  ELSE LET matching == Ids(SelectSeq(events, LAMBDA e : e.type \in controlImplementationCatalog[control]))
       IN [control |-> control, events |-> matching,
           status |-> IF matching # <<>> THEN "implemented" ELSE "partially_implemented",
           gap |-> IF matching # <<>> THEN None ELSE "no_events"]
buildControlMappings(controls, events) == Map(controls, LAMBDA c : ControlMapping(c, events))

buildControlStatements(mappings, generatedAt) ==
  Map(mappings, LAMBDA y : [control |-> y.control, status |-> y.status, reviewer |-> "assessor", reviewedAt |-> generatedAt])

\* One item for a broken audit chain, one for each control that lacks evidence, one for each
\* open finding of the access reviews.
buildPoamItems(mappings, chainVerified, findings) ==
  (IF chainVerified THEN <<>> ELSE <<[id |-> <<"audit-integrity">>, control |-> "AU-6", status |-> "open"]>>)
  \o Map(SelectSeq(mappings, LAMBDA y : y.status # "implemented"),
         LAMBDA y : [id |-> <<"control", y.control>>, control |-> y.control, status |-> "planned"])
  \o Map(SelectSeq(findings, LAMBDA f : f.status # "remediated"),
         LAMBDA f : [id |-> <<"finding", f.id>>, control |-> f.control,
                     status |-> IF f.remediation \in {"planned", "in_progress"} THEN "planned" ELSE "open"])

exportDraft(app, controls, options, now) ==
  LET events == InPeriod(app.events, options, now)
      mappings == buildControlMappings(controls, events)
  IN [exportId |-> <<"evidence", now>>, controls |-> controls, generatedAt |-> now,
      periodStart |-> PeriodStart(app.events, options, now), periodEnd |-> PeriodEnd(options, now),
      sourceEventIds |-> Ids(events), controlMappings |-> mappings,
      controlStatements |-> buildControlStatements(mappings, now),
      poamItems |-> buildPoamItems(mappings, app.chainVerified, app.findings),
      systemBoundary |-> [id |-> "boundary", components |-> app.components], others |-> Len(events),
      poamExport |-> None, oscal |-> None, controlTraceViews |-> None]

---------------------------------------------------------------------------
(* The content of a package: the draft with what it left to the builder.   *)

signedEvidencePackageId(exportId) == <<"signed-package", exportId>>

buildDeploymentScope(evidence) ==
  [boundary |-> IF evidence.systemBoundary = None THEN "unknown" ELSE evidence.systemBoundary.id,
   components |-> IF evidence.systemBoundary = None THEN <<>> ELSE evidence.systemBoundary.components,
   controls |-> OrElse(evidence.controls, <<>>), start |-> OrElse(evidence.periodStart, 0), end |-> OrElse(evidence.periodEnd, 0)]
buildExpectedDeploymentScope(evidence) ==
  IF None \in {evidence.systemBoundary, evidence.periodStart, evidence.periodEnd} THEN None ELSE buildDeploymentScope(evidence)

buildPoamExport(draft) ==
  [uuid |-> <<"poam", draft.exportId>>, items |-> draft.poamItems, controls |-> draft.controls]

buildOscalControlImplementations(mappings, statements) ==
  Map(mappings, LAMBDA y : LET statement == FindControl(statements, y.control)
                            IN [control |-> y.control, events |-> y.events,
                                status |-> IF statement = None THEN y.status ELSE statement.status])
buildOscalArtifacts(draft, scope, poam) ==
  LET implementations == buildOscalControlImplementations(draft.controlMappings, draft.controlStatements)
  IN [componentDefinition |-> implementations, scope |-> scope, systemSecurityPlan |-> implementations,
      assessmentResults |-> implementations, planOfActionAndMilestones |-> poam]

buildControlTraceViews(draft, scope, keyId) ==
  Map(draft.controlMappings,
      LAMBDA y : LET statement == FindControl(draft.controlStatements, y.control)
                 IN [id |-> <<draft.exportId, y.control>>, control |-> y.control, events |-> y.events, scope |-> scope,
                     packageId |-> signedEvidencePackageId(draft.exportId), keyId |-> keyId,
                     reviewer |-> IF statement = None THEN "assessor" ELSE statement.reviewer,
                     reviewedAt |-> IF statement = None THEN scope.end ELSE statement.reviewedAt])

buildEvidencePackageContent(draft, keyId) ==
  LET scope == buildDeploymentScope(draft)
      poam == OrElse(draft.poamExport, buildPoamExport(draft))
  IN [draft EXCEPT !.poamExport = poam,
                   !.oscal = OrElse(draft.oscal, buildOscalArtifacts(draft, scope, poam)),
                   !.controlTraceViews = OrElse(draft.controlTraceViews, buildControlTraceViews(draft, scope, keyId))]

---------------------------------------------------------------------------
(* The manifest and the signature. A package is its content with an         *)
(* integrityManifest, a signedPackage, verifierChecks and a storageReceipt.  *)

hashReference(value) == <<"sha256", value>>
Sections ==
  {"others", "controlMappings", "poamItems", "poamExport", "systemBoundary", "controlStatements", "oscal", "controlTraceViews"}

integrityManifest(content) ==
  [packageHash |-> hashReference(content), sections |-> [n \in Sections |-> hashReference(content[n])]]
attachEvidenceIntegrityManifest(content) ==
  [content |-> content, integrityManifest |-> integrityManifest(content),
   signedPackage |-> None, verifierChecks |-> None, storageReceipt |-> None]

\* The payload a signer signs: the metadata without the signature.
Unsigned(signedPackage) == [f \in DOMAIN signedPackage \ {"signature"} |-> signedPackage[f]]
sign(signer, unsigned) == [algorithm |-> signer.algorithm, key |-> signer.key, payload |-> unsigned]

attachSignedEvidencePackage(evidence, signer) ==
  LET content == evidence.content
      unsigned == [packageId |-> signedEvidencePackageId(content.exportId), packageHash |-> evidence.integrityManifest.packageHash,
                   algorithm |-> signer.algorithm, keyId |-> signer.keyId, signedAt |-> content.generatedAt,
                   scope |-> content.oscal.scope, sourceEventIds |-> content.sourceEventIds,
                   statements |-> Map(content.controlStatements, LAMBDA y : y.control),
                   traces |-> Ids(content.controlTraceViews)]
  IN [evidence EXCEPT !.signedPackage = [f \in DOMAIN unsigned \cup {"signature"} |->
                                           IF f = "signature" THEN sign(signer, unsigned) ELSE unsigned[f]]]

canonicalEvidenceContent(evidence) == evidence.content

---------------------------------------------------------------------------
(* Verification: every check has to pass.                                  *)

Manifest(evidence, field, default) == IF evidence.integrityManifest = None THEN default ELSE evidence.integrityManifest[field]
Signed(evidence, field) == IF evidence.signedPackage = None THEN None ELSE evidence.signedPackage[field]

packageHashMatches(evidence) ==
  Manifest(evidence, "packageHash", None) = hashReference(canonicalEvidenceContent(evidence))

verifySectionHashes(evidence) ==
  LET sections == Manifest(evidence, "sections", <<>>)
  IN /\ DOMAIN sections # {}
     /\ \A n \in DOMAIN sections :
          evidence.content[n] # None /\ sections[n] = hashReference(evidence.content[n])

\* A bug: the hash that was signed is not compared with the manifest's.
anySignedHash(evidence) == evidence.signedPackage # None
signedHashMatches(evidence) == Signed(evidence, "packageHash") = Manifest(evidence, "packageHash", None)

verifySignedPackageSignature(signedPackage, key) ==
  /\ signedPackage.signature.algorithm = signedPackage.algorithm
  /\ signedPackage.signature.key = key
  /\ signedPackage.signature.payload = Unsigned(signedPackage)
signatureVerifies(evidence, trustedKeys) ==
  /\ evidence.signedPackage # None
  /\ evidence.signedPackage.keyId \in DOMAIN trustedKeys
  /\ LET trusted == trustedKeys[evidence.signedPackage.keyId]
     IN /\ trusted.algorithm = evidence.signedPackage.algorithm
        /\ verifySignedPackageSignature(evidence.signedPackage, trusted.key)

oscalFragmentsPresent(oscal) ==
  oscal # None /\ \A f \in {"componentDefinition", "systemSecurityPlan", "assessmentResults", "planOfActionAndMilestones"} : oscal[f] # None

poamExportMirrors(content) ==
  SameItems(Ids(OrElse(content.poamItems, <<>>)), IF content.poamExport = None THEN <<>> ELSE Ids(content.poamExport.items))

\* The trace that new Map(...) keeps for a control is the last one.
TraceOf(traces, control) ==
  LET i == SelectLastInSeq(traces, LAMBDA y : y.control = control) IN IF i = 0 THEN None ELSE traces[i]
traceIsComplete(trace, events, evidence) ==
  /\ trace # None /\ evidence.signedPackage # None
  /\ trace.packageId = evidence.signedPackage.packageId /\ trace.keyId = evidence.signedPackage.keyId
  /\ trace.scope = evidence.signedPackage.scope /\ SameItems(trace.events, events)
  /\ trace.reviewedAt # None /\ trace.reviewer # None
missingControlTraceIds(evidence) ==
  LET mappings == OrElse(evidence.content.controlMappings, <<>>)
  IN {i \in DOMAIN mappings :
        ~traceIsComplete(TraceOf(OrElse(evidence.content.controlTraceViews, <<>>), mappings[i].control), mappings[i].events, evidence)}

verifyEvidenceExport(evidence, trustedKeys) ==
  /\ packageHashMatches(evidence)
  /\ verifySectionHashes(evidence)
  /\ signedHashMatches(evidence)
  /\ signatureVerifies(evidence, trustedKeys)
  /\ Signed(evidence, "scope") = buildExpectedDeploymentScope(evidence.content)
  /\ oscalFragmentsPresent(evidence.content.oscal)
  /\ poamExportMirrors(evidence.content)
  /\ missingControlTraceIds(evidence) = {}

attachEvidenceVerifierChecks(evidence, trustedKeys) ==
  [evidence EXCEPT !.verifierChecks = verifyEvidenceExport(evidence, trustedKeys)]

\* Throws, here None, when a custom signer's key is not among the trusted ones.
finalizeEvidenceExport(draft, signer, trustedKeys) ==
  IF signer.keyId \notin DOMAIN trustedKeys THEN None
  ELSE attachEvidenceVerifierChecks(
         attachSignedEvidencePackage(
           attachEvidenceIntegrityManifest(buildEvidencePackageContent(draft, signer.keyId)), signer), trustedKeys)

---------------------------------------------------------------------------
(* Properties.                                                             *)

\* The key that the verifier trusts under the signer's id is the signer's own.
Trusts(trustedKeys, signer) ==
  signer.keyId \in DOMAIN trustedKeys /\ trustedKeys[signer.keyId] = [algorithm |-> signer.algorithm, key |-> signer.key]

\* What a verifier vouches for: the content, its hash and the signed metadata. The checks that
\* came with the package, the receipt of its storage and the sections that the manifest leaves
\* out are not part of it.
VouchedFor(evidence) ==
  [content |-> evidence.content, hash |-> Manifest(evidence, "packageHash", None), signed |-> evidence.signedPackage]
SectionsAgree(evidence, original) ==
  LET sections == Manifest(evidence, "sections", <<>>)
  IN DOMAIN sections # {} /\ \A n \in DOMAIN sections : sections[n] = original.integrityManifest.sections[n]

\* verifyEvidenceExport accepts a package exactly when what it vouches for is as the signer
\* made it and the verifier trusts that signer: an export of the runtime always verifies, and
\* no change to it does, whatever else is recomputed to fit the change.
VerifiesExactlyAsSigned(evidence, original, signer, trustedKeys) ==
  verifyEvidenceExport(evidence, trustedKeys)
    <=> /\ Trusts(trustedKeys, signer)
        /\ VouchedFor(evidence) = VouchedFor(original)
        /\ SectionsAgree(evidence, original)
=============================================================================

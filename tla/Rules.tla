-------------------------------- MODULE Rules --------------------------------
(***************************************************************************)
(* The rules of the system that keep no state, over any sets of inputs:    *)
(* what a policy model is validated and compiled to (PolicyModel), what a  *)
(* configuration is accepted and ready for (Readiness), what the two       *)
(* connectors make of a tenant and of an organization (GraphDiscovery,     *)
(* AwsDiscovery), which evidence packages verify (EvidencePackage), and    *)
(* which bodies reach a handler (RequestDecoders). A state is one input,   *)
(* and "done" follows it.                                                  *)
(***************************************************************************)
EXTENDS Integers, Sequences

CONSTANTS
  None, Unreadable,                    \* see PolicyModel and Readiness
  MaxDriveItemDepth,                   \* see GraphDiscovery
  Now, LatencyWindow, ActivityWindow, FindingWindow,   \* see AwsDiscovery
  Model,          \* policy models to validate and compile
  CaveatModel, Request,                \* models with caveats, and requests
  Environment, App,                    \* environments and what the process is made of
  Description,    \* lists of persistence backends
  Pilot,          \* manifests of a pilot
  Tenant,         \* what the Microsoft Graph connector has read
  Organization,   \* what the AWS connector has read
  Exporter, ControlList, Period, ExportedAt,   \* what is exported, for which controls and period, and when
  Signer, OwnKeys,                     \* the signer of the runtime and the keys it trusts
  TrustedKeys,    \* the keys of the verifiers
  Presented(_),   \* the packages that are presented to a verifier after an export
  Batches(_)      \* the bodies sent to a route, batch by batch

P == INSTANCE PolicyModel
R == INSTANCE Readiness
G == INSTANCE GraphDiscovery
A == INSTANCE AwsDiscovery
E == INSTANCE EvidencePackage
B == INSTANCE RequestDecoders

\* The engine's evaluatedAt is a date.
ASSUME RequestAssumption == \A q \in Request : q.at # None /\ q.at.type = "datetime"

ApiKeyEntry == [before : STRING, colon : BOOLEAN, after : STRING, long : BOOLEAN]
ASSUME EnvironmentAssumption == \A e \in Environment : e.keys \in Seq(ApiKeyEntry)
ASSUME DescriptionAssumption == \A ds \in Description : ds \in Seq({ds[n] : n \in DOMAIN ds})
ASSUME PilotAssumption ==
  \A p \in Pilot : p.scopes \in Seq(STRING) /\ p.roles \in Seq(STRING) /\ p.minApprovers \in Nat

\* Items are read by their parents: an item has an identifier of its own, and lies in a
\* drive or in a folder. Permissions are read of sites, drives and items.
ASSUME TenantAssumption ==
  \A p \in Tenant :
    /\ \A i, j \in p.items : i.id = j.id /\ i.id # None => i = j
    /\ \A i \in p.items :
         \/ i.parent[1] = "drive" /\ i.parent = G!driveResource(i.parent[2])
         \/ \E j \in p.items : j.id # None /\ G!isDriveItemContainer(j) /\ i.parent = G!driveItemResource(j.id)
    /\ \A perm \in p.permissions : perm.target[1] \in {"site", "drive", "item"}
ASSUME DepthAssumption == MaxDriveItemDepth \in Nat \ {0}

ASSUME OrganizationAssumption ==
  \A a \in Organization : \A e \in a.events : {e.time, e.delivered} \subseteq Int \cup {None}
ASSUME WindowAssumption == {Now, LatencyWindow, ActivityWindow, FindingWindow} \subseteq Int

EvidenceInput == [app : Exporter, controls : ControlList, period : Period, trusted : TrustedKeys]
Draft(i) == E!exportDraft(i.app, i.controls, i.period, ExportedAt)
Content(i) == E!buildEvidencePackageContent(Draft(i), Signer.keyId)
Exported(i) == E!finalizeEvidenceExport(Draft(i), Signer, OwnKeys)

ASSUME ExportAssumption ==
  /\ ExportedAt \in Nat
  /\ \A a \in Exporter : a.events \in Seq({a.events[n] : n \in DOMAIN a.events})
                       /\ \A n \in DOMAIN a.events : a.events[n].at \in Nat
  /\ \A c \in ControlList : c \in Seq(STRING)
  /\ \A y \in Period : {y.start, y.end} \subseteq Nat \cup {None}

\* undefined is no value: no number, no reviewer, and nothing that an export is made of.
ASSUME NoneAssumption ==
  /\ None \notin Nat /\ None # "assessor"
  /\ \A i \in EvidenceInput :
       LET draft == Draft(i)
           scope == E!buildDeploymentScope(draft)
           poam == E!buildPoamExport(draft)
           traces == E!buildControlTraceViews(draft, scope, Signer.keyId)
           manifest == E!attachEvidenceIntegrityManifest(Content(i))
       IN /\ \A n \in {"controls", "controlMappings", "controlStatements", "poamItems", "systemBoundary", "others"} :
               draft[n] # None
          /\ poam # None /\ traces # None /\ \A n \in DOMAIN traces : traces[n] # None
          /\ E!buildOscalArtifacts(draft, scope, poam) # None
          /\ E!buildOscalControlImplementations(draft.controlMappings, draft.controlStatements) # None
          /\ manifest.integrityManifest # None
          /\ E!attachSignedEvidencePackage(manifest, Signer).signedPackage # None

\* The runtime signs with a key of its own.
ASSUME SignerAssumption ==
  /\ Signer.keyId \in DOMAIN OwnKeys
  /\ \A k \in TrustedKeys : \A n \in DOMAIN k : k[n] \in [algorithm : {k[n].algorithm}, key : {k[n].key}]

\* What is presented has the fields of a package, and nobody can sign with a key that a
\* verifier trusts: a signature with such a key is the one that the export was given.
ASSUME PresentedAssumption ==
  \A i \in EvidenceInput : LET original == Exported(i).signedPackage IN \A p \in Presented(Exported(i)) :
    /\ p.integrityManifest # None => DOMAIN p.integrityManifest.sections \subseteq E!Sections
    /\ p.signedPackage # None =>
         /\ p.signedPackage = [f \in DOMAIN original |-> p.signedPackage[f]]
         /\ (\E n \in DOMAIN i.trusted : p.signedPackage.signature.key = i.trusted[n].key) =>
              p.signedPackage.signature = original.signature

VARIABLES
  rule,   \* the rule that is asked, then "done"
  input   \* its input

vars == <<rule, input>>

Init ==
  \/ rule = "model" /\ \E m \in Model : input = [model |-> m]
  \/ rule = "caveat" /\ \E m \in CaveatModel, q \in Request : input = [model |-> m, request |-> q]
  \/ rule = "environment" /\ \E e \in Environment, a \in App : input = [env |-> e, app |-> a]
  \/ rule = "persistence" /\ \E ds \in Description : input = [descriptors |-> ds]
  \/ rule = "pilot" /\ \E p \in Pilot : input = [pilot |-> p]
  \/ rule = "graph" /\ input \in Tenant
  \/ rule = "aws" /\ input \in Organization
  \/ rule = "evidence" /\ input \in EvidenceInput
  \/ rule = "body" /\ \E r \in B!Routes : \E batch \in Batches(r) : \E b \in batch : input = [route |-> r, body |-> b]

\* The input is evaluated; nothing is left to do.
Next == rule # "done" /\ rule' = "done" /\ UNCHANGED input

Spec == Init /\ [][Next]_vars

-----------------------------------------------------------------------------
(* Properties *)

(* A valid policy model loses nothing that it declares when it is compiled, *)
(* and a caveat of it is decided for every request whose context is valid   *)
(* (validatePolicyModel, compilePolicyModel).                               *)
ValidModelIsHonoured ==
  /\ rule = "model" => P!ValidModelCompilesAsDeclared(input.model)
  /\ rule = "caveat" => P!ValidCaveatIsDecided(input.model, input.request)

(* A configuration accepted for other hosts leaves no route open to a       *)
(* request without a token, and nothing is ready by default, because of the *)
(* backend described first, or without two approvers (loadRuntimeConfig,    *)
(* the assessments of readiness).                                           *)
ReadyIsEarned ==
  /\ rule = "environment" => R!ExposedApiIsGuarded(input.env) /\ R!ReadyIsNeverByDefault(input.env, input.app)
  /\ rule = "persistence" => R!VerdictIgnoresOrder(input.descriptors)
  /\ rule = "pilot" => R!PilotIsNarrow(input.pilot)

(* #loadSnapshot of a connector builds no fact about something it did not   *)
(* import, leaves nothing out silently but what NothingIsLostSilently names *)
(* as an exception, and its confidence in a grant rests on recent,          *)
(* punctual, ordered events.                                                *)
SnapshotIsFaithful ==
  /\ rule = "graph" => G!NothingDangles(input) /\ G!NothingIsLostSilently(input)
  /\ rule = "aws" => /\ A!NothingDangles(input)
                     /\ A!NothingIsLostSilently(input)
                     /\ A!HighConfidenceIsEarned(input)

(* A package verifies exactly as it was signed, by a signer that the        *)
(* verifier trusts: an export of the runtime does, and no changed one,      *)
(* whatever is recomputed to fit the change (finalizeEvidenceExport,        *)
(* verifyEvidenceExport).                                                   *)
VerifiesExactlyAsSigned ==
  rule = "evidence" => \A p \in Presented(Exported(input)) :
                          E!VerifiesExactlyAsSigned(p, Exported(input), Signer, input.trusted)

(* A body reaches its handler as its schema and its decoder say: the two    *)
(* agree on its shape, and no body asks for enforcement by leaving          *)
(* something out (the decoders of request-decoders.ts).                     *)
BodyReachesHandler ==
  rule = "body" => /\ B!SchemaAndDecoderAgree(input.route, input.body)
                   /\ B!HandlerGetsWhatItNeeds(input.route, input.body)
=============================================================================

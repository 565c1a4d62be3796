------------------------------ MODULE Profiles ------------------------------
(* The judgements over a profile release and over the authority of a        *)
(* provider, in one specification: a behaviour is of one of them, its part, *)
(* and the variables of the others keep None.                               *)
EXTENDS Naturals, Sequences, FiniteSets

CONSTANTS
    Parts,    \* those that are judged
    None,     \* no value
    Outside,  \* a successor that is not in the graph
    Torn,     \* a file that was written in part
    \* NetworkReferences
    Subjects, Targets, FirstGraphs, Domain, NetworkEdits,
    \* ProfileValidation
    Artifacts, Bytes, Documents, Raised, Routed, Results, NetworkHolds, Conformances,
    Publication, ShapesOf, MaxResults, ValidationEdits,
    \* RequirementEvidence
    Keys, Ids, Rules, Shown, Flaws, Owner, Fixtures, Breaks, Activates, Mutations,
    FirstShapes, FirstFixtures, FirstSource, Versions, Drifted, Entangled, RequirementEdits,
    \* ReleaseGate
    Revisions, AcceptanceOf, Pins, Blindspots, Pinned, PassingPairs, Decided, Unblocked, Plans,
    ReleaseEdits, MaxCommits, MaxRuns,
    \* ProviderAuthority
    Authorities, Requests, Covers, ScopeOf, Terms, MaxAge, MaxTime, MaxSnapshots,
    MaxDate, MaxReceipts

VARIABLES
    part,
    \* NetworkReferences
    graph, judged, revisions,
    \* ProfileValidation
    bytes, pinned, document, target, command, profile, pc, reader, order, fixed, round,
    mail, reports, verdict, changes,
    \* RequirementEvidence
    shapes, clauses, files, registers, source, upstream, build, upbuild, check,
    passed, settled, rewrites,
    \* ReleaseGate
    disk, lock, korean, candidate, evidence, head, committed, relock, run, gate,
    signing, signature, accepted, plan, edits, runs,
    \* ProviderAuthority
    now, mandate, revokedAt, registry, asked, receipts, decision, snapshots

network_vars == <<graph, judged, revisions>>
validation_vars == <<bytes, pinned, document, target, command, profile, pc, reader, order,
                     fixed, round, mail, reports, verdict, changes>>
requirement_vars == <<shapes, clauses, files, registers, source, upstream, build, upbuild,
                      check, passed, settled, rewrites>>
release_vars == <<disk, lock, korean, candidate, evidence, head, committed, relock, run,
                  gate, signing, signature, accepted, plan, edits, runs>>
authority_vars == <<now, mandate, revokedAt, registry, asked, receipts, decision, snapshots>>
profiles_vars == <<part, network_vars, validation_vars, requirement_vars, release_vars,
                   authority_vars>>

-----------------------------------------------------------------------------
(* The parts.                                                               *)

Network == INSTANCE NetworkReferences
    WITH MaxEdits <- NetworkEdits, verdict <- judged, edits <- revisions

Validation == INSTANCE ProfileValidation
    WITH Items <- Artifacts, Contents <- Bytes, Profiles <- Conformances,
         Policy <- Publication, MaxEdits <- ValidationEdits,
         files <- bytes, lock <- pinned, plan <- order, edits <- changes

Requirement == INSTANCE RequirementEvidence
    WITH Contents <- Fixtures, MaxEdits <- RequirementEdits, edits <- rewrites

Gate == INSTANCE ReleaseGate
    WITH Contents <- Revisions, Items <- AcceptanceOf, Policy <- Pins,
         Traceable <- PassingPairs, Covered <- Unblocked, MaxEdits <- ReleaseEdits

Authority == INSTANCE ProviderAuthority

-----------------------------------------------------------------------------
(* What the proofs assume of the constants.                                 *)

\* Subjects are listed once; dates can be compared; the statuses a successor may have
\* are fixed by the schema of the policy (network-reference-policy.v1.schema.json:134).
EditionFields ==
    {"authority", "identifier", "version", "checksum", "status", "from", "until", "replacement",
     "wellFormed"}
NetworkFaults ==
    {"NETWORK_RDF_PROJECTION_INVALID", "NETWORK_REPLACEMENT_NOT_FOUND",
     "NETWORK_LIFECYCLE_STATUS_INVALID", "NETWORK_VALIDITY_INTERVAL_INVALID",
     "NETWORK_TERMINAL_VALIDITY_INVALID", "NETWORK_TERMINAL_REPLACEMENT_INVALID",
     "NETWORK_ACTIVE_REPLACEMENT_INVALID", "NETWORK_IDENTITY_CHECKSUM_CONFLICT",
     "NETWORK_IDENTITY_DUPLICATE", "NETWORK_REPLACEMENT_IDENTITY_INVALID",
     "NETWORK_LIFECYCLE_TRANSITION_INVALID", "NETWORK_REPLACEMENT_VALIDITY_OVERLAP"}
ASSUME NetworkAssumption ==
    /\ NetworkEdits \in Nat
    /\ DOMAIN Subjects = 1..Len(Subjects) /\ Len(Subjects) \in Nat
    /\ \A i, j \in DOMAIN Subjects : Subjects[i] = Subjects[j] => i = j
    /\ {None, Outside} \cap Network!ToSet(Subjects) = {} /\ None # Outside
    /\ None \notin Nat /\ None \notin NetworkFaults
    /\ Targets = {"current", "superseded", "withdrawn"}
    /\ DOMAIN Domain = EditionFields
    /\ Domain["from"] \subseteq Nat /\ Domain["until"] \subseteq Nat \cup {None}
    /\ Domain["replacement"] \subseteq Network!ToSet(Subjects) \cup {None, Outside}
    /\ \A g \in FirstGraphs :
         /\ DOMAIN g = Network!ToSet(Subjects)
         /\ \A s \in Network!ToSet(Subjects) :
              DOMAIN g[s] = EditionFields /\ \A f \in EditionFields : g[s][f] \in Domain[f]

\* Findings are told apart by their text, results have one of three severities,
\* and the shapes of every profile are an artifact (rdf-loader.mjs, validator.mjs).
ASSUME ValidationAssumption ==
    /\ MaxResults \in Nat /\ ValidationEdits \in Nat /\ "manifest" \in Artifacts
    /\ \A n \in Conformances \cup {Publication} : ShapesOf[n] \in Artifacts
    /\ Raised \in [Documents -> Seq(STRING)] /\ Routed \in [Documents -> Seq(STRING)]
    /\ \A n \in Conformances \cup {Publication}, c \in Bytes, d \in Documents :
         Results[n][c][d] \in Seq({"Violation", "Warning", "Info"})
    /\ None \notin [Artifacts -> Bytes]

\* Instants and ages are numbers of ticks, and none of them is the absence of one
\* (provider-authority.mjs).
ASSUME AuthorityAssumption ==
    /\ None \notin Nat /\ None \notin Authorities
    /\ MaxAge \in Nat /\ MaxTime \in Nat /\ MaxSnapshots \in Nat /\ MaxDate \in Nat
    /\ \A a \in Authorities : Terms[a] \subseteq [from : Nat, until : Nat]

\* What the builder writes, as it can be parsed (build-requirement-evidence.mjs).
EvidenceFiles == {"positive", "curated"} \cup Ids
ShownFields == {Shown[r] : r \in Rules}
EvidenceRows ==
    [id : Ids, fields : ShownFields, clause : ShownFields,
     positive : {"positive", None}, negative : EvidenceFiles \cup {None}]
EvidenceCases ==
    [content : Fixtures, conforms : BOOLEAN, mode : {"profile", "constraint-unit"},
     target : Ids \cup {None},
     covers : SUBSET Ids, expected : SUBSET Ids, atomic : SUBSET Ids]
RowDocuments == [rows : [Keys -> EvidenceRows], included : Versions, approved : BOOLEAN]
CaseDocuments ==
    [cases : UNION {[S -> EvidenceCases] : S \in SUBSET EvidenceFiles}, approved : BOOLEAN]

\* The first release uses every ID, a requirement is no name of a reviewed
\* fixture, a mutation is a fixture, and no document is the absence of one.
ASSUME RequirementAssumption ==
    /\ FirstShapes \in [Keys -> [id : Ids, rule : Rules]]
    /\ {FirstShapes[k].id : k \in Keys} = Ids
    /\ FirstFixtures \in [{"positive", "curated"} -> Fixtures] /\ FirstSource \in Versions
    /\ Owner \in [Keys -> Keys] /\ Mutations \in [Keys \X Rules -> SUBSET Fixtures]
    /\ None \notin EvidenceFiles /\ Ids \cap {"positive", "curated"} = {}
    /\ {None, Torn} \cap (RowDocuments \cup CaseDocuments) = {}
    /\ RequirementEdits \in Nat

\* The register of the policy has the items that stand for checks, all of them of
\* the core; an acceptance item has one of four statuses (release-gate-v2.mjs).
ASSUME ReleaseAssumption ==
    /\ Pinned \in DOMAIN Blindspots
    /\ \A f \in Gate!Files : 1 \in Revisions[f] /\ Revisions[f] \subseteq Nat
    /\ \A id \in {"RA-REQUIREMENTS", "RA-MULTI-ENGINE-MATRIX", "RA-LOCK"} :
         id \in DOMAIN Pins /\ Pins[id].scope = "profile-core"
    /\ \A c \in Revisions["register"] : \A id \in DOMAIN AcceptanceOf[c] :
         AcceptanceOf[c][id].status \in
           {"open", "fixed", "deferred-nonblocking", "blocked-external-evidence"}
    /\ ReleaseEdits \in Nat /\ MaxCommits \in Nat /\ MaxRuns \in Nat

-----------------------------------------------------------------------------
Init ==
    /\ part \in Parts
    /\ IF part = "network" THEN Network!Init
       ELSE graph = None /\ judged = None /\ revisions = None
    /\ IF part = "validation" THEN Validation!Init
       ELSE /\ bytes = None /\ pinned = None /\ document = None /\ target = None
            /\ command = None /\ profile = None /\ pc = None /\ reader = None /\ order = None
            /\ fixed = None /\ round = None /\ mail = None /\ reports = None
            /\ verdict = None /\ changes = None
    /\ IF part = "requirement" THEN Requirement!Init
       ELSE /\ shapes = None /\ clauses = None /\ files = None /\ registers = None
            /\ source = None /\ upstream = None /\ build = None /\ upbuild = None
            /\ check = None /\ passed = None /\ settled = None /\ rewrites = None
    /\ IF part = "release" THEN Gate!Init
       ELSE /\ disk = None /\ lock = None /\ korean = None /\ candidate = None
            /\ evidence = None /\ head = None /\ committed = None /\ relock = None
            /\ run = None /\ gate = None /\ signing = None /\ signature = None
            /\ accepted = None /\ plan = None /\ edits = None /\ runs = None
    /\ IF part = "authority" THEN Authority!Init
       ELSE /\ now = None /\ mandate = None /\ revokedAt = None /\ registry = None /\ asked = None
            /\ receipts = None /\ decision = None /\ snapshots = None

\* The other parts rest.
Only(p) ==
    /\ part = p /\ UNCHANGED part
    /\ IF p = "network"     THEN TRUE ELSE UNCHANGED network_vars
    /\ IF p = "validation"  THEN TRUE ELSE UNCHANGED validation_vars
    /\ IF p = "requirement" THEN TRUE ELSE UNCHANGED requirement_vars
    /\ IF p = "release"     THEN TRUE ELSE UNCHANGED release_vars
    /\ IF p = "authority"   THEN TRUE ELSE UNCHANGED authority_vars

Next ==
    \/ Only("network")     /\ Network!Next
    \/ Only("validation")  /\ Validation!Next
    \/ Only("requirement") /\ Requirement!Next
    \/ Only("release")     /\ Gate!Next
    \/ Only("authority")   /\ Authority!Next

Spec == Init /\ [][Next]_profiles_vars

-----------------------------------------------------------------------------
\* An accepted set of network references is a history: its editions do not
\* overlap and its replacements lead forward (network-reference-integrity.mjs).
AcceptedIsAHistory == part = "network" => Network!TypeOK /\ Network!AcceptedIsAHistory

\* A pass that was printed is one judgement, of one document by one release
\* (profile/cli.mjs, validator.mjs).
PassIsOneJudgement == part = "validation" => Validation!TypeOK /\ Validation!PassIsOneJudgement

\* What the traceability verifier passes is evidenced by the files on disk, or by
\* the cases it replayed when they change meanwhile, and it passes what the builder
\* has built (verify-requirement-traceability.mjs, build-requirement-evidence.mjs).
EvidenceIsReal ==
    part = "requirement" =>
        /\ Requirement!TypeOK /\ Requirement!PassedIsEvidenced
        /\ Requirement!PassIsReplayed /\ Requirement!BuiltVerifies

\* Evidence, verdict and signature of a release each are of one locked content
\* (run-rc-shacl-matrix.mjs, release-gate-v2.mjs, detached-signature.mjs).
ReleaseIsOneLock ==
    part = "release" =>
        Gate!TypeOK /\ Gate!MatrixIsLocked /\ Gate!EligibleIsOneLock /\ Gate!SignedIsVerified

\* An authority that was allowed had been approved, and was valid and not long
\* revoked, at the instant of the request, and the verifier itself has signed for
\* that request (provider-authority.mjs).
AllowedWasInForce == part = "authority" => Authority!TypeOK /\ Authority!AllowedWasInForce
=============================================================================

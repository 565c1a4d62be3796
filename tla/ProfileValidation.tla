-------------------------- MODULE ProfileValidation --------------------------
(***************************************************************************)
(* The profile CLI judging one document: cli.mjs (validate, publish-check),*)
(* isolated-validator.mjs, validation-worker.mjs, validator.mjs and the    *)
(* parts of registry.mjs and rdf-loader.mjs they stand on.                 *)
(* publish-check fixes the digests of two bundles from one verified        *)
(* snapshot of the release, then judges the document twice, each time in a *)
(* worker thread that reads the release and the document again; an editor  *)
(* changes the release, its lock and the document in between.  A content   *)
(* stands for bytes, so equal contents are equal digests.  The timer of a  *)
(* worker and its death may come at any moment; the worker may also hang.  *)
(* What a document raises under a shape graph is data (Raised, Results):   *)
(* a document is judged by the loops, budgets and gates applied to it.     *)
(***************************************************************************)
EXTENDS Naturals, Sequences, SequencesExt, FiniteSets

CONSTANTS
    Items,        \* release artifacts; "manifest" is the first to be read
    Contents,     \* of one artifact
    Documents,    \* contents of the input file
    Raised,       \* document -> the safety findings its quads raise, in order
    Routed,       \* document -> the subjects with a term of the geo profile
    Results,      \* profile, content of its shapes, document -> SHACL results by severity
    NetworkHolds, \* content of the reference policy, document -> integrity holds
    Profiles,     \* conformance profiles a caller names
    Policy,       \* the publication policy profile
    ShapesOf,     \* profile -> the artifact with its shapes
    MaxResults,   \* manifest.limits.maxValidationResults
    MaxEdits,
    None

VARIABLES
    files, lock,       \* the release: artifact -> content, and what the lock names
    document,          \* content of the input file
    target,            \* the report path: "absent", "file", "directory" or "input"
    command, profile,  \* what the caller asked for
    pc,                \* where the command is
    reader,            \* what the reader of the release holds
    plan,              \* profile -> digest, fixed by publish-check
    fixed,             \* history: the snapshot those digests were taken of
    round,             \* the profile being judged
    mail,              \* the report the worker has posted
    reports,           \* profile -> its report
    verdict,           \* how the command ended, with the input and gate of what it printed
    edits

vars == <<files, lock, document, target, command, profile, pc, reader, plan, fixed, round, mail,
          reports, verdict, edits>>
World == <<files, lock, document, target, edits>>
Job == <<command, profile>>

Nothing == [manifest |-> None, lock |-> None, bytes |-> <<>>]
Without(outcome) == [outcome |-> outcome, input |-> None, passed |-> FALSE]
AllProfiles == Profiles \cup {Policy}

Init ==
    /\ \E c \in Contents : files = [i \in Items |-> c]
    /\ lock = files
    /\ document \in Documents /\ target = "absent"
    /\ command \in {"validate", "legacy", "composite"}
    /\ profile \in IF command = "legacy" THEN {Policy} ELSE Profiles
    /\ pc = "start" /\ reader = Nothing /\ plan = <<>> /\ fixed = None /\ round = None /\ mail = None
    /\ reports = <<>> /\ verdict = Without(None) /\ edits = 0

-----------------------------------------------------------------------------
(* The judgement of one document: validateProfileDocument                  *)

(* add: a finding is counted once; the one past the limit only sets the    *)
(* mark.                                                                   *)
Scan(raised) ==
    LET n == Cardinality(ToSet(raised))
    IN  [found |-> IF n > MaxResults THEN MaxResults ELSE n, full |-> n > MaxResults]

Empty == [found |-> 0, full |-> FALSE]

SafetyScan(d) == Scan(Raised[d])

(* scanCoreProfileRouting: one finding a subject, of the core profiles.    *)
RoutingScan(name, d) ==
    IF name \in {"core", "core-publication"} THEN Scan(Routed[d]) ELSE Empty

Gate(name) == IF name = Policy THEN "warning" ELSE "violation"

\* Mutant: a report cut off at the limit is judged by what it still lists.
Passes_Truncated(name, kept, full) ==
    /\ "Violation" \notin ToSet(kept)
    /\ Gate(name) = "warning" => "Warning" \notin ToSet(kept)

Passes(name, kept, full) ==
    /\ ~full
    /\ "Violation" \notin ToSet(kept)
    /\ Gate(name) = "warning" => "Warning" \notin ToSet(kept)

(* SHACL runs on a clean preflight only and stops one past its budget; the *)
(* network references are checked when it raised nothing.                  *)
GatePassed(name, release, d) ==
    LET safety == SafetyScan(d)
        clean == safety = Empty
        routing == IF clean THEN RoutingScan(name, d) ELSE Empty
        runs == clean /\ routing = Empty
        budget == MaxResults
        raised == Results[name][release[ShapesOf[name]]][d]
        shacl == IF runs THEN SubSeq(raised, 1, IF Len(raised) > budget THEN budget + 1 ELSE Len(raised))
                 ELSE <<>>
        network == IF runs /\ name = "network" /\ shacl = <<>> /\ ~NetworkHolds[release["network"]][d]
                   THEN <<"Violation">> ELSE <<>>
        preflight == [i \in 1..(safety.found + routing.found) |-> "Violation"]
        judged == shacl \o network
        kept == SubSeq(judged, 1, IF Len(judged) > budget THEN budget ELSE Len(judged))
    IN  Passes(name, preflight \o kept, safety.full \/ routing.full \/ Len(judged) > budget)

(* computeBundleDigest: the manifest and the shapes of the profile; the    *)
(* network reference policy is not among its paths.                        *)
Digest(name, release) == <<release["manifest"], release[ShapesOf[name]]>>

Report(name, release, d) ==
    [name |-> name, digest |-> Digest(name, release), input |-> d, passed |-> GatePassed(name, release, d)]

-----------------------------------------------------------------------------
(* loadProfileRelease and verifyArtifactLock, one read at a time; the plan *)
(* and the worker of each round read for themselves.                       *)

Reading == pc \in {"plan", "work"}

ReadManifest ==
    /\ Reading /\ reader.manifest = None
    /\ reader' = [reader EXCEPT !.manifest = files["manifest"]]
    /\ UNCHANGED <<World, Job, pc, plan, fixed, round, mail, reports, verdict>>

ReadLock ==
    /\ Reading /\ reader.manifest # None /\ reader.lock = None
    /\ reader' = [reader EXCEPT !.lock = lock]
    /\ UNCHANGED <<World, Job, pc, plan, fixed, round, mail, reports, verdict>>

ReadArtifact ==
    /\ Reading /\ reader.lock # None
    /\ \E i \in Items \ DOMAIN reader.bytes :
        reader' = [reader EXCEPT !.bytes = [j \in DOMAIN @ \cup {i} |-> IF j = i THEN files[i] ELSE @[j]]]
    /\ UNCHANGED <<World, Job, pc, plan, fixed, round, mail, reports, verdict>>

Complete == reader.lock # None /\ DOMAIN reader.bytes = Items

Verified == Complete /\ reader.bytes = reader.lock /\ reader.bytes["manifest"] = reader.manifest

Ends(reason) ==
    /\ pc' = "ended" /\ verdict' = Without(reason) /\ reader' = Nothing /\ mail' = None
    /\ UNCHANGED <<World, Job, plan, fixed, round, reports>>

(* One or more locked artifacts have changed, or the manifest has.         *)
Refuse == Reading /\ Complete /\ ~Verified /\ Ends("refused")

-----------------------------------------------------------------------------
(* The command: main of cli.mjs                                            *)

(* selectPublicationCheckPlan                                              *)
Planned == CASE command = "composite" -> <<profile, Policy>>
             [] OTHER -> <<profile>>

(* assertDistinctInputAndReport                                            *)
Distinct == target \notin {"directory", "input"}

Start ==
    /\ pc = "start" /\ Distinct
    /\ IF command = "validate" THEN pc' = "isolate" /\ round' = profile
       ELSE pc' = "plan" /\ round' = None
    /\ UNCHANGED <<World, Job, reader, plan, fixed, mail, reports, verdict>>

Start_Refused == pc = "start" /\ ~Distinct /\ Ends("refused")

Plan ==
    /\ pc = "plan" /\ Verified
    /\ plan' = [n \in ToSet(Planned) |-> Digest(n, reader.bytes)]
    /\ fixed' = reader.bytes /\ reader' = Nothing /\ round' = profile /\ pc' = "isolate"
    /\ UNCHANGED <<World, Job, mail, reports, verdict>>

(* validateProfileDocumentIsolated: the limits are those of the manifest   *)
(* as it is now; runValidationWorker starts the thread and its timer.      *)
Isolate ==
    /\ pc = "isolate" /\ pc' = "work"
    /\ UNCHANGED <<World, Job, reader, plan, fixed, round, mail, reports, verdict>>

(* The worker posts its report; loadRdfFile read the document once, after  *)
(* the release was verified.                                               *)
Worker_Post ==
    /\ pc = "work" /\ mail = None /\ Verified
    /\ mail' = Report(round, reader.bytes, document)
    /\ UNCHANGED <<World, Job, pc, reader, plan, fixed, round, reports, verdict>>

(* An error of the validation, the heap limit, an exit without a result.   *)
Worker_Fails == pc = "work" /\ mail = None /\ Ends("worker failed")

(* The timer may still beat a message that was posted.                     *)
Timer == pc = "work" /\ Ends("timeout")

SamePlan(all) == plan = <<>> \/ \A n \in DOMAIN plan : all[n].digest = plan[n]

(* composePublicationCheckReport                                           *)
SameInput(all) == \A m, n \in DOMAIN all : all[m].input = all[n].input

(* The message: the second profile follows the first, or the reports are   *)
(* put together.                                                           *)
Receive ==
    /\ pc = "work" /\ mail # None
    /\ reports' = [n \in DOMAIN reports \cup {round} |-> IF n = round THEN mail ELSE reports[n]]
    /\ mail' = None /\ reader' = Nothing
    /\ IF round = Planned[Len(Planned)] THEN pc' = "compose" /\ UNCHANGED round
       ELSE pc' = "isolate" /\ round' = Policy
    /\ UNCHANGED <<World, Job, plan, fixed, verdict>>

Composed == [outcome |-> "answered", input |-> reports[profile].input,
             passed |-> \A n \in DOMAIN reports : reports[n].passed]

Compose ==
    /\ pc = "compose"
    /\ IF SamePlan(reports) /\ SameInput(reports) THEN pc' = "write" /\ UNCHANGED verdict
       ELSE pc' = "ended" /\ verdict' = Without("changed")
    /\ UNCHANGED <<World, Job, reader, plan, fixed, round, mail, reports>>

(* assertDistinctInputAndReport again and the link of writeAtomicJson,     *)
(* which never replaces a file; without --report only stdout is written.   *)
Free == target = "absent"

Write(wanted) ==
    /\ pc = "write" /\ pc' = "ended"
    /\ IF ~wanted \/ Free
       THEN verdict' = Composed /\ target' = (IF wanted THEN "file" ELSE target)
       ELSE verdict' = Without("refused") /\ UNCHANGED target
    /\ UNCHANGED <<files, lock, document, edits, Job, reader, plan, fixed, round, mail, reports>>

-----------------------------------------------------------------------------
(* Others edit the release, its lock, the document and the report path.    *)

Edited == edits < MaxEdits /\ edits' = edits + 1
          /\ UNCHANGED <<Job, pc, reader, plan, fixed, round, mail, reports, verdict>>

EditArtifact ==
    /\ Edited /\ \E i \in Items, c \in Contents : c # files[i] /\ files' = [files EXCEPT ![i] = c]
    /\ UNCHANGED <<lock, document, target>>
Relock == Edited /\ lock # files /\ lock' = files /\ UNCHANGED <<files, document, target>>
EditDocument ==
    /\ Edited /\ \E d \in Documents \ {document} : document' = d
    /\ UNCHANGED <<files, lock, target>>
TakeTarget ==
    /\ Edited /\ target = "absent" /\ target' \in {"file", "directory", "input"}
    /\ UNCHANGED <<files, lock, document>>

Next ==
    \/ Start \/ Start_Refused \/ ReadManifest \/ ReadLock \/ ReadArtifact \/ Refuse
    \/ Plan \/ Isolate \/ Worker_Post \/ Worker_Fails \/ Timer \/ Receive \/ Compose
    \/ \E wanted \in BOOLEAN : Write(wanted)
    \/ EditArtifact \/ Relock \/ EditDocument \/ TakeTarget

Spec == Init /\ [][Next]_vars

-----------------------------------------------------------------------------
(* What the profiles say of a document, without limits or order.           *)
Acceptable(name, shapes, d) ==
    /\ Raised[d] = <<>>
    /\ name = "core" => Routed[d] = <<>>
    /\ "Violation" \notin ToSet(Results[name][shapes][d])
    /\ name = Policy => "Warning" \notin ToSet(Results[name][shapes][d])

TypeOK ==
    /\ pc \in {"start", "plan", "isolate", "work", "compose", "write", "ended"}
    /\ files \in [Items -> Contents] /\ lock \in [Items -> Contents] /\ document \in Documents
    /\ target \in {"absent", "file", "directory", "input"}
    /\ round \in AllProfiles \cup {None} /\ DOMAIN reports \subseteq AllProfiles
    /\ edits \in 0..MaxEdits

(* A document is read twice, a release three times, each read at its own   *)
(* moment, yet a publication check that passes is one judgement: the one   *)
(* document it names is acceptable, by every result it raises and not only *)
(* those within the limit, to both profiles with the shapes the plan fixed *)
(* (publish-check of cli.mjs, composePublicationCheckReport).              *)
PassIsOneJudgement ==
    verdict.passed =>
        \A n \in ToSet(Planned) :
            Acceptable(n, IF plan = <<>> THEN reports[n].digest[2] ELSE plan[n][2], verdict.input)

(* The integrity of the network references, too, is judged by the release  *)
(* the plan fixed.  The bundle digest does not cover the reference policy, *)
(* so a release that was replaced and locked again between the plan and    *)
(* the worker judges by its own policy under the digest of the plan.       *)
NetworkIsJudgedByThePlan ==
    verdict.passed /\ plan # <<>> /\ profile = "network" =>
        NetworkHolds[fixed["network"]][verdict.input]
=============================================================================

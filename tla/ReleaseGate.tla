----------------------------- MODULE ReleaseGate -----------------------------
(***************************************************************************)
(* The release gate, the artifact lock, the engine evidence and the        *)
(* detached signature (tools/release, tools/profile).                      *)
(*                                                                         *)
(* A release is a directory of files and a lock that names the digest of   *)
(* each.  Several programs read it while people edit, relock and commit    *)
(* it: the gate (release-gate-v2.mjs), which samples the lock, Git and the *)
(* traceability at its start, judges every evidence item, and samples lock *)
(* and Git again at its end; the two engine runners, which write candidate *)
(* evidence, capture a reviewed candidate and verify the captured one; and *)
(* the signer.  None of them locks the directory: each step reads what is  *)
(* there then.                                                             *)
(*                                                                         *)
(* A file is its content and its digest is the content.  "registry" stands *)
(* for the requirement and case registers and the fixtures, "bundle" for   *)
(* the shapes and the published bundles other than core's, "coverage" for  *)
(* the evidence files under the release root.  One gate and one runner     *)
(* work at a time; the scripts of the runners do not change.               *)
(***************************************************************************)
EXTENDS Naturals, Sequences, FiniteSets

CONSTANTS
    Contents,     \* [Files -> contents a person may write]
    Items,        \* [contents of the acceptance register -> [IDs -> item]]
    Policy,       \* requiredRcAcceptancePolicy: [IDs -> item]
    Blindspots,   \* [contents of the Korean register -> its entries]
    Pinned,       \* reviewedKoreanInteroperabilitySha256
    Traceable,    \* registry \X bundle for which the traceability gate passes
    Decided,      \* [Kinds -> registry \X bundle that decides as expected]
    Covered,      \* contents of the coverage evidence that have no blocker
    Plans,        \* which programs a behaviour runs: sets of "gate", "run", "sign"
    MaxEdits, MaxCommits, MaxRuns,     \* bounds
    None

Files == {"manifest", "register", "registry", "bundle", "coverage"}
Kinds == {"matrix", "parity"}

VARIABLES
    disk,        \* [Files -> content]
    lock,        \* artifact-lock.json: [Files -> content]
    korean,      \* the Korean interoperability register, outside the release
    candidate,   \* [Kinds -> report or None], ignored by Git
    evidence,    \* [Kinds -> report or None], outside the release root
    head,        \* the number of commits
    committed,   \* what HEAD holds
    relock,      \* the lock that update-artifact-lock is about to rename, or None
    run,         \* an engine runner, or None
    gate,
    signing,     \* the signer or the verifier between its two reads, or None
    signature,   \* the signature document, or None
    accepted,    \* the release bytes over which it was last verified, or None
    plan,        \* the programs of this behaviour
    edits, runs

people == <<plan, edits, head, committed, relock>>
vars == <<disk, lock, korean, candidate, evidence, head, committed, relock,
          run, gate, signing, signature, accepted, plan, edits, runs>>

Tree == [disk |-> disk, lock |-> lock, korean |-> korean, evidence |-> evidence]

-----------------------------------------------------------------------------
(* People: edit, restore, relock, commit.                                  *)

Edit(f) ==
    /\ edits < MaxEdits
    /\ \E c \in Contents[f] \ {disk[f]} : disk' = [disk EXCEPT ![f] = c]
    /\ edits' = edits + 1
    /\ UNCHANGED <<lock, korean, candidate, evidence, head, committed, relock,
                   run, gate, signing, signature, accepted, plan, runs>>

EditKorean ==
    /\ edits < MaxEdits
    /\ \E c \in DOMAIN Blindspots \ {korean} : korean' = c
    /\ edits' = edits + 1
    /\ UNCHANGED <<disk, lock, candidate, evidence, head, committed, relock,
                   run, gate, signing, signature, accepted, plan, runs>>

\* git checkout of everything.
Restore ==
    /\ edits < MaxEdits /\ Tree # committed
    /\ disk' = committed.disk /\ lock' = committed.lock
    /\ korean' = committed.korean /\ evidence' = committed.evidence
    /\ edits' = edits + 1
    /\ UNCHANGED <<candidate, head, committed, relock, run, gate, signing,
                   signature, accepted, plan, runs>>

Commit ==
    /\ head < MaxCommits /\ Tree # committed
    /\ head' = head + 1 /\ committed' = Tree
    /\ UNCHANGED <<disk, lock, korean, candidate, evidence, relock, run, gate,
                   signing, signature, accepted, plan, edits, runs>>

\* updateArtifactLock up to its rename.  The reviewed paths must be exactly
\* the ones that changed, so the person decides on what is there at this read.
Relock_Read ==
    /\ relock = None /\ disk # lock
    /\ relock' = disk
    /\ UNCHANGED <<disk, lock, korean, candidate, evidence, head, committed,
                   run, gate, signing, signature, accepted, plan, edits, runs>>

Relock_Write ==
    /\ relock # None
    /\ lock' = relock /\ relock' = None
    /\ UNCHANGED <<disk, korean, candidate, evidence, head, committed, run,
                   gate, signing, signature, accepted, plan, edits, runs>>

-----------------------------------------------------------------------------
(* The artifact lock.                                                      *)

\* verifyArtifactLock, once it holds the lock's bytes: every file has the
\* locked digest, and the manifest is the one the caller loaded.
LockHolds(digests, manifest) ==
    disk = digests /\ disk["manifest"] = manifest

-----------------------------------------------------------------------------
(* The engine runners.                                                     *)

\* Mutant: the matrix reads the release while it executes.
MatrixBytes_Live(f) == disk[f]

\* snapshotCases: the bytes the lock check took, when it passed.
MatrixBytes(f) == IF run.status = "verified" THEN run.lock[f] ELSE disk[f]

\* materializeProfileBundle and the other reads of the parity runner.
ParityBytes(f) == disk[f]

Started(kind, command) ==
    [kind |-> kind, command |-> command, todo |-> {"lock", "inputs"},
     manifest |-> disk["manifest"], lock |-> lock, status |-> "pending",
     registry |-> None, traced |-> None, bundle |-> None]

\* parseArguments, then loadProfileRelease.
Run_Start(kind, command) ==
    /\ "run" \in plan /\ run = None /\ runs < MaxRuns
    /\ run' = Started(kind, command) /\ runs' = runs + 1
    /\ UNCHANGED <<disk, lock, korean, candidate, evidence, people, gate,
                   signing, signature, accepted>>

\* The runner ends.  A verification was called by the gate, which goes on.
Judged(ok) ==
    IF run.command = "verify"
    THEN gate' = [gate EXCEPT !.at = "evidence", !.next = @ + 1,
                              !.invalid = IF ok THEN @ ELSE @ \cup {gate.item}]
    ELSE UNCHANGED gate

Goes(r) == run' = r /\ UNCHANGED <<gate, candidate, evidence>>
Fails == run' = None /\ Judged(FALSE) /\ UNCHANGED <<candidate, evidence>>

\* What a runner writes is its reports; the rest is as it was.
RunOnly == UNCHANGED <<disk, lock, korean, people, signing, signature, accepted, runs>>

\* artifactLockState and artifactLockReport: without a stable lock a report
\* is "pending", and the matrix captures and verifies nothing.
Run_Lock ==
    /\ run # None /\ "lock" \in run.todo
    /\ IF LockHolds(run.lock, run.manifest)
       THEN Goes([run EXCEPT !.todo = @ \ {"lock"}, !.status = "verified"])
       ELSE IF run.kind = "matrix" /\ run.command # "candidate"
       THEN Fails
       ELSE Goes([run EXCEPT !.todo = @ \ {"lock"}])
    /\ RunOnly

\* fullDefinitions: the registers of the snapshot, the traceability of what
\* is on disk, which must pass.
Matrix_Inputs ==
    /\ run # None /\ run.kind = "matrix" /\ run.todo = {"inputs"}
    /\ LET traced == <<disk["registry"], disk["bundle"]>>
       IN IF MatrixBytes("manifest") # run.manifest \/ traced \notin Traceable
          THEN Fails
          ELSE Goes([run EXCEPT !.todo = {}, !.traced = traced,
                                !.registry = MatrixBytes("registry")])
    /\ RunOnly

\* The parity runner reads its registers while the lock is being checked.
Parity_Inputs ==
    /\ run # None /\ run.kind = "parity" /\ "inputs" \in run.todo
    /\ IF ParityBytes("manifest") # run.manifest
       THEN Fails
       ELSE Goes([run EXCEPT !.todo = @ \ {"inputs"}, !.registry = ParityBytes("registry"),
                             !.traced = <<disk["registry"], disk["bundle"]>>])
    /\ RunOnly

\* executeMatrix: the three engines decide every case as its register says.
Matrix_Execute ==
    /\ run # None /\ run.kind = "matrix" /\ run.todo = {} /\ run.bundle = None
    /\ IF <<run.registry, MatrixBytes("bundle")>> \notin Decided["matrix"]
       THEN Fails
       ELSE Goes([run EXCEPT !.bundle = MatrixBytes("bundle")])
    /\ RunOnly

\* buildFullRequirementLinkedParity: every serialization keeps the graph and
\* its decision.
Parity_Execute ==
    /\ run # None /\ run.kind = "parity" /\ run.todo = {} /\ run.bundle = None
    /\ IF <<run.registry, ParityBytes("bundle")>> \notin Decided["parity"]
       THEN Fails
       ELSE Goes([run EXCEPT !.bundle = ParityBytes("bundle")])
    /\ RunOnly

\* The report; encode() makes it comparable byte for byte.
Report ==
    [lock |-> run.lock, registry |-> run.registry, bundle |-> run.bundle,
     traced |-> run.traced,
     eligible |-> run.status = "verified" /\ run.traced \in Traceable]

\* main: candidate; capture, with the digest of the reviewed candidate; verify.
Published(report) ==
    /\ run' = None
    /\ CASE run.command = "candidate" ->
              /\ candidate' = [candidate EXCEPT ![run.kind] = report]
              /\ UNCHANGED <<evidence, gate>>
         [] run.command = "capture" ->
              /\ evidence' = IF report.eligible /\ candidate[run.kind] = report
                             THEN [evidence EXCEPT ![run.kind] = report]
                             ELSE evidence
              /\ UNCHANGED <<candidate, gate>>
         [] run.command = "verify" ->
              /\ Judged(evidence[run.kind] = report)
              /\ UNCHANGED <<candidate, evidence>>

\* The matrix reads all its sources and the lock again.
Matrix_Finish ==
    /\ run # None /\ run.kind = "matrix" /\ run.bundle # None
    /\ IF /\ lock = run.lock /\ disk["manifest"] = run.manifest
          /\ disk["registry"] = run.registry /\ disk["bundle"] = run.bundle
       THEN Published(Report) ELSE Fails
    /\ RunOnly

\* The parity runner reads its registers and the lock again; of the bundles
\* only core's.
Parity_Finish ==
    /\ run # None /\ run.kind = "parity" /\ run.bundle # None
    /\ IF /\ lock = run.lock /\ disk["manifest"] = run.manifest
          /\ disk["registry"] = run.registry
       THEN Published(Report) ELSE Fails
    /\ RunOnly

-----------------------------------------------------------------------------
(* The gate.                                                               *)

Idle == [at |-> "idle"]

\* loadProfileRelease.
Gate_Load ==
    /\ "gate" \in plan /\ gate.at = "idle"
    /\ gate' = [at |-> "register", manifest |-> disk["manifest"], register |-> None,
                todo |-> {"lock", "artifacts", "git", "trace"},
                lock1 |-> None, held |-> FALSE, git1 |-> None, traced |-> FALSE,
                next |-> 1, item |-> None, invalid |-> {}, coverage |-> None,
                matrix |-> None, lock2 |-> None, decision |-> None]
    /\ UNCHANGED <<disk, lock, korean, candidate, evidence, people, run,
                   signing, signature, accepted, runs>>

\* assertReleaseAcceptanceRegister: the policy's items as the policy has them,
\* and no item whose scope, status and flags disagree.
RegisterStands(items) ==
    /\ DOMAIN Policy \subseteq DOMAIN items
    /\ \A id \in DOMAIN Policy : items[id] = Policy[id]
    /\ \A id \in DOMAIN items :
        LET i == items[id]
            unresolved == i.status \in {"open", "blocked-external-evidence"}
        IN /\ i.candidate => i.recommendation
           /\ i.status = "deferred-nonblocking" => i.scope = "interoperability-pack"
           /\ ~unresolved => ~i.candidate /\ ~i.recommendation
           /\ i.scope = "interoperability-pack" => ~i.candidate /\ ~i.recommendation
           /\ i.scope = "institutional" =>
                ~i.candidate /\ (unresolved => i.recommendation)
           /\ i.scope = "profile-core" /\ unresolved => i.candidate /\ i.recommendation

Indeterminate == [candidate |-> FALSE, recommendation |-> FALSE]

\* The gate's own step: nothing but the gate changes.
GateOnly == UNCHANGED <<disk, lock, korean, candidate, evidence, people, run,
                        signing, signature, accepted, runs>>

Gate_Register ==
    /\ gate.at = "register"
    /\ gate' = IF RegisterStands(Items[disk["register"]])
               THEN [gate EXCEPT !.at = "korean", !.register = disk["register"]]
               ELSE [gate EXCEPT !.at = "done", !.decision = Indeterminate]
    /\ GateOnly

\* assertKoreanInteroperabilityRegister: its digest is pinned in the source.
Gate_Korean ==
    /\ gate.at = "korean"
    /\ gate' = IF korean = Pinned
               THEN [gate EXCEPT !.at = "checks"]
               ELSE [gate EXCEPT !.at = "done", !.decision = Indeterminate]
    /\ GateOnly

\* The three initial checks run at the same time; the lock check reads the
\* lock, then the files.
Checked(task) ==
    LET todo == gate.todo \ {task}
    IN [gate EXCEPT !.todo = todo, !.at = IF todo = {} THEN "evidence" ELSE "checks"]

Gate_Lock ==
    /\ gate.at = "checks" /\ "lock" \in gate.todo
    /\ gate' = [Checked("lock") EXCEPT !.lock1 = lock]
    /\ GateOnly

Gate_Artifacts ==
    /\ gate.at = "checks" /\ "artifacts" \in gate.todo /\ "lock" \notin gate.todo
    /\ gate' = [Checked("artifacts") EXCEPT !.held = LockHolds(gate.lock1, gate.manifest)]
    /\ GateOnly

\* gitCheck: the whole project is clean, and HEAD.
GitState == [clean |-> Tree = committed, head |-> head]

Gate_Git ==
    /\ gate.at = "checks" /\ "git" \in gate.todo
    /\ gate' = [Checked("git") EXCEPT !.git1 = GitState]
    /\ GateOnly

Gate_Trace ==
    /\ gate.at = "checks" /\ "trace" \in gate.todo
    /\ gate' = [Checked("trace") EXCEPT
                   !.traced = <<disk["registry"], disk["bundle"]>> \in Traceable]
    /\ GateOnly

\* releaseEvidenceMatchesSnapshot: a file under the release root is the one
\* the initial lock check held.
MatchesSnapshot(f) == gate.held /\ disk[f] = gate.lock1[f]

\* validateRcMatrixEvidence: the digests of the inputs and of the bundles are
\* compared with the files on disk now.
MatrixStands(report) ==
    /\ report # None /\ report.eligible
    /\ gate.held /\ report.lock = gate.lock1
    /\ report.registry = disk["registry"] /\ report.bundle = disk["bundle"]

\* requiredRcEvidenceCommands and the files of the register, in its order.
\* RA-RUNTIME stands for the items whose commands are not modelled.
EvidenceOf ==
    << [item |-> "RA-REQUIREMENTS",         kind |-> "traceability"],
       [item |-> "RA-REQUIREMENTS",         kind |-> "coverage"],
       [item |-> "RA-RUNTIME",              kind |-> "command"],
       [item |-> "RA-MULTI-ENGINE-MATRIX",  kind |-> "file"],
       [item |-> "RA-MULTI-ENGINE-MATRIX",  kind |-> "matrix"],
       [item |-> "RA-SERIALIZATION-PARITY", kind |-> "parity"] >>

\* fixedEvidenceCheck, one piece of evidence.
Gate_Evidence ==
    /\ gate.at = "evidence" /\ gate.next <= Len(EvidenceOf)
    /\ EvidenceOf[gate.next].kind \notin Kinds
    /\ \E ok \in BOOLEAN :
        LET e == EvidenceOf[gate.next]
            read == CASE e.kind = "coverage" -> [gate EXCEPT !.coverage = disk["coverage"]]
                      [] e.kind = "file"     -> [gate EXCEPT !.matrix = evidence["matrix"]]
                      [] OTHER               -> gate
        IN /\ CASE e.kind = "traceability" ->
                     ok = (gate.traced /\ <<disk["registry"], disk["bundle"]>> \in Traceable)
                [] e.kind = "coverage" ->
                     ok = (MatchesSnapshot("coverage") /\ disk["coverage"] \in Covered)
                [] e.kind = "file" -> ok = MatrixStands(evidence["matrix"])
                [] OTHER -> TRUE
           /\ gate' = [read EXCEPT !.next = @ + 1,
                                   !.invalid = IF ok THEN @ ELSE @ \cup {e.item}]
    /\ GateOnly

\* runEvidenceCommand: the runner verifies, the gate waits.
Gate_Command ==
    /\ gate.at = "evidence" /\ gate.next <= Len(EvidenceOf) /\ run = None
    /\ LET e == EvidenceOf[gate.next]
       IN /\ e.kind \in Kinds
          /\ gate' = [gate EXCEPT !.at = "waiting", !.item = e.item]
          /\ run' = Started(e.kind, "verify")
    /\ UNCHANGED <<disk, lock, korean, candidate, evidence, people, signing,
                   signature, accepted, runs>>

Gate_TerminalLock ==
    /\ gate.at = "evidence" /\ gate.next > Len(EvidenceOf)
    /\ gate' = [gate EXCEPT !.at = "terminal", !.lock2 = lock]
    /\ GateOnly

\* reconcileTerminalRuntimeChecks for the lock, and the register it judged.
LockPassed(second) ==
    /\ second /\ gate.held /\ gate.lock1 = gate.lock2
    /\ gate.register = gate.lock1["register"]

GitPassed(terminal) ==
    terminal.clean /\ gate.git1.clean /\ gate.git1.head = terminal.head

Gate_TerminalArtifacts ==
    /\ gate.at = "terminal"
    /\ LET passed == LockPassed(LockHolds(gate.lock2, gate.manifest))
       IN gate' = [gate EXCEPT !.at = "git",
                               !.invalid = IF passed /\ gate.held THEN @ ELSE @ \cup {"RA-LOCK"}]
    /\ GateOnly

ScopeDefault(scope) ==
    [candidate |-> scope = "profile-core",
     recommendation |-> scope # "interoperability-pack"]

\* calculateReleaseEligibility: what an item blocks.  The overrides only
\* reopen an item that its check did not pass, which is invalid as well.
Blocking(id, item, invalid) ==
    IF id \in invalid THEN ScopeDefault(item.scope)
    ELSE IF item.status \in {"fixed", "deferred-nonblocking"}
    THEN [candidate |-> FALSE, recommendation |-> FALSE]
    ELSE [candidate |-> item.candidate, recommendation |-> item.recommendation]

\* interoperabilityReleaseBlockers.
KoreanBlocking ==
    { [candidate |-> b.status # "blocked-external-evidence", recommendation |-> TRUE] :
        b \in { x \in Blindspots[Pinned] :
                  /\ x.required /\ x.status \notin {"fixed", "not-applicable"}
                  /\ x.scope # "bridge-runtime" } }

Decision(invalid) ==
    LET items == Items[gate.register]
        blockers == { Blocking(id, items[id], invalid) : id \in DOMAIN items }
                        \cup KoreanBlocking
    IN [candidate |-> \A b \in blockers : ~b.candidate,
        recommendation |-> \A b \in blockers : ~b.recommendation]

\* The terminal Git check and the decision.
Gate_Decide ==
    /\ gate.at = "git"
    /\ LET failed == (IF GitPassed(GitState) THEN {} ELSE {"RA-GIT"})
                       \cup (IF gate.traced THEN {} ELSE {"RA-REQUIREMENTS"})
       IN gate' = [gate EXCEPT !.at = "done", !.decision = Decision(gate.invalid \cup failed)]
    /\ GateOnly

-----------------------------------------------------------------------------
(* The detached signature.                                                 *)

SignOnly == UNCHANGED <<disk, lock, korean, candidate, evidence, people, run, gate, runs>>

\* createReleasePayloadFromVersion up to the lock's bytes.
Payload_Start(command) ==
    /\ "sign" \in plan /\ signing = None
    /\ (command = "sign") = (signature = None)
    /\ signing' = [command |-> command, manifest |-> disk["manifest"], lock |-> lock]
    /\ SignOnly /\ UNCHANGED <<signature, accepted>>

\* The payload names the lock and the manifest.  "files" is no part of the
\* document: it is what the signer held.
Sign_Finish ==
    /\ signing # None /\ signing.command = "sign"
    /\ signing' = None
    /\ signature' = IF LockHolds(signing.lock, signing.manifest)
                    THEN [lock |-> signing.lock, manifest |-> signing.manifest,
                          files |-> disk]
                    ELSE None
    /\ SignOnly /\ UNCHANGED accepted

\* verifyReleaseSignature against the payload of the release on disk.
Verify_Finish ==
    /\ signing # None /\ signing.command = "verify"
    /\ signing' = None
    /\ accepted' = IF /\ LockHolds(signing.lock, signing.manifest)
                      /\ signature.lock = signing.lock
                      /\ signature.manifest = signing.manifest
                   THEN disk ELSE accepted
    /\ SignOnly /\ UNCHANGED signature

-----------------------------------------------------------------------------
FirstReport(d) ==
    [lock |-> d, registry |-> d["registry"], bundle |-> d["bundle"],
     traced |-> <<d["registry"], d["bundle"]>>, eligible |-> TRUE]

\* A release that was locked, captured and committed.
Init ==
    /\ disk = [f \in Files |-> 1] /\ lock = disk /\ korean = Pinned
    /\ candidate = [k \in Kinds |-> None]
    /\ evidence = [k \in Kinds |-> FirstReport(disk)]
    /\ head = 0 /\ committed = Tree
    /\ relock = None /\ run = None /\ gate = Idle
    /\ signing = None /\ signature = None /\ accepted = None
    /\ plan \in Plans /\ edits = 0 /\ runs = 0

Next ==
    \/ \E f \in Files : Edit(f)
    \/ EditKorean \/ Restore \/ Commit \/ Relock_Read \/ Relock_Write
    \/ \E k \in Kinds, c \in {"candidate", "capture"} : Run_Start(k, c)
    \/ Run_Lock \/ Matrix_Inputs \/ Parity_Inputs
    \/ Matrix_Execute \/ Parity_Execute \/ Matrix_Finish \/ Parity_Finish
    \/ Gate_Load \/ Gate_Register \/ Gate_Korean
    \/ Gate_Lock \/ Gate_Artifacts \/ Gate_Git \/ Gate_Trace
    \/ Gate_Evidence \/ Gate_Command
    \/ Gate_TerminalLock \/ Gate_TerminalArtifacts \/ Gate_Decide
    \/ \E c \in {"sign", "verify"} : Payload_Start(c)
    \/ Sign_Finish \/ Verify_Finish

Spec == Init /\ [][Next]_vars

-----------------------------------------------------------------------------
IsRelease(d) == DOMAIN d = Files /\ \A f \in Files : d[f] \in Contents[f]

\* The files, the lock and the reports have their types.
TypeOK ==
    /\ IsRelease(disk) /\ IsRelease(lock) /\ korean \in DOMAIN Blindspots
    /\ relock # None => IsRelease(relock)
    /\ \A k \in Kinds : \A r \in {candidate[k], evidence[k]} \ {None} :
          IsRelease(r.lock) /\ r.traced \in Nat \X Nat /\ r.eligible \in BOOLEAN
    /\ run # None => run.kind \in Kinds /\ run.todo \subseteq {"lock", "inputs"}
    /\ gate.at \in {"idle", "register", "korean", "checks", "evidence", "waiting",
                    "terminal", "git", "done"}
    /\ accepted # None => IsRelease(accepted)
    /\ edits \in 0..MaxEdits /\ runs \in 0..MaxRuns /\ head \in 0..MaxCommits

\* A matrix report that claims to be release evidence was executed on the
\* bytes of the lock it names (run-rc-shacl-matrix.mjs:541-636, 803), whoever
\* edits the release meanwhile.
MatrixIsLocked ==
    \A r \in {candidate["matrix"], evidence["matrix"]} \ {None} :
        r.eligible => r.registry = r.lock["registry"] /\ r.bundle = r.lock["bundle"]

\* The same of a serialization parity report, which does not hold.
ParityIsLocked ==
    \A r \in {candidate["parity"], evidence["parity"]} \ {None} :
        r.eligible => r.registry = r.lock["registry"] /\ r.bundle = r.lock["bundle"]

\* A gate that finds the release eligible as a candidate judged one release:
\* the lock it read first and last is the same, the register it judged, the
\* manifest and the coverage evidence are that lock's, the matrix it accepted
\* was executed on that lock's bytes, and in that register nothing of the core
\* is open (release-gate-v2.mjs:541-592, 941-948, 1110-1154).
EligibleIsOneLock ==
    gate.at = "done" /\ gate.decision.candidate =>
        LET l == gate.lock2
            items == Items[l["register"]]
        IN /\ gate.lock1 = l
           /\ gate.register = l["register"] /\ gate.manifest = l["manifest"]
           /\ gate.coverage = l["coverage"] /\ l["coverage"] \in Covered
           /\ gate.matrix.lock = l
           /\ gate.matrix.registry = l["registry"] /\ gate.matrix.bundle = l["bundle"]
           /\ \A id \in DOMAIN items :
                items[id].scope = "profile-core" => items[id].status = "fixed"
           /\ RegisterStands(items)

\* When the signature verifies, the release is byte for byte the one that was
\* signed (detached-signature.mjs:199-255), though it names only the lock and
\* the manifest.
SignedIsVerified == accepted # None => accepted = signature.files
=============================================================================

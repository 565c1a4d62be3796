------------------------- MODULE RequirementEvidence -------------------------
(***************************************************************************)
(* The requirement register of the profile and its evidence                *)
(* (tools/profile).                                                        *)
(*                                                                         *)
(* Every SHACL constraint of a release carries a requirement ID.  The      *)
(* builder (build-requirement-evidence.mjs) finds, for each of them, a     *)
(* positive fixture that activates it and a negative one that breaks it    *)
(* alone, mutating the positive ones when no reviewed fixture does, and    *)
(* rewrites the mutation files, the register, its CSV and the case list.   *)
(* The verifier (verify-requirement-traceability.mjs) is a separate        *)
(* program: it scans the shapes, reads the register and what it names file *)
(* by file, loads the shapes once more and replays every case on them.  A  *)
(* second pair does the same for the inventory of the upstream             *)
(* requirements, which the register includes by digest.                    *)
(*                                                                         *)
(* At any time, between two reads of the verifier too, something may       *)
(* change: a shape, its ID, a reviewed fixture, a clause, the upstream     *)
(* source; and a builder may be interrupted between two of its writes, or  *)
(* inside some of them.                                                    *)
(*                                                                         *)
(* A shape is its ID and its rule.  A rule is what the constraint means:   *)
(* Shown is the part of it that the scan infers into the row's fields,     *)
(* and two rules may show the same row (targetSubjectsOf and pattern, for  *)
(* one, are in no field); Flaws is what the verifier alone objects to in   *)
(* it.  A fixture is a name; Breaks and Activates say                      *)
(* which rules of which constraints it breaks and activates; its digest is *)
(* itself.  There is one profile and one positive fixture; the two builders are     *)
(* run one after the other.                                                *)
(***************************************************************************)
EXTENDS Naturals, Sequences, FiniteSets

CONSTANTS
    Keys,        \* the local constraints of the release, by constraintKey
    Ids,         \* the requirement IDs in use
    Rules,       \* what a constraint may mean
    Shown,       \* [Rules -> row fields], the clause statement among them
    Flaws,       \* [Rules -> SUBSET Refusals], those a constraint has
    Owner,       \* [Keys -> Keys], the node shape that owns a constraint
    Contents,    \* fixture contents
    Breaks,      \* [Contents -> SUBSET (Keys \X Rules)]
    Activates,   \* [Contents -> SUBSET (Keys \X Rules)]
    Mutations,   \* [Keys \X Rules -> SUBSET Contents], from the positive one
    FirstShapes,    \* [Keys -> [id, rule]], a release before its first build
    FirstFixtures,  \* [reviewed files -> Contents]
    FirstSource,    \* its upstream source
    Versions,    \* versions of the upstream source
    Drifted, Entangled,   \* versions the upstream builder refuses
    MaxEdits,    \* bound: edits and interrupted builds
    None, Torn   \* no file or no value; a file cut short

Reviewed == {"positive", "curated"}        \* the fixtures a person writes
Files == Reviewed \cup Ids                 \* a mutation is named by its ID
Registers == {"rows", "csv", "cases"}      \* coverage-blockers.json restates the rows
Upstream == <<"shards", "csv", "inventory">>

\* What only the verifier refuses of a constraint: a severity that is not
\* supported or repeated, a second ID that is no literal, a blank node of several
\* shapes, a helper property with no or another ID, a row against the JSON Schema.
Refusals == {"severity", "terms", "owners", "helper", "schema"}

VARIABLES
    shapes,      \* [Keys -> [id, rule]]
    clauses,     \* [Ids -> the approved normative statement]
    files,       \* [Files -> Contents or None or Torn]
    registers,   \* [Registers -> the document, None or Torn]
    source,      \* the upstream source
    upstream,    \* [upstream files -> Versions or None or Torn]
    build,       \* the local builder: its phase, writes to do, what it built
    upbuild,     \* the upstream builder: files written, version; or None
    check,       \* the local verifier: its next read and what it has read; or None
    passed,      \* the verifiers that passed what is on disk now
    settled,     \* nothing changed since the last build took in its inputs
    edits

inputs == <<shapes, clauses, source>>
vars == <<shapes, clauses, files, registers, source, upstream, build, upbuild,
          check, passed, settled, edits>>

-----------------------------------------------------------------------------
(* Scan and attribution, shared by the two programs; s is the shapes they  *)
(* have read.                                                              *)

RuleOf(s, k) == <<k, s[k].rule>>

\* scanFile, inferSeverity, inferRange and the others: the row fields a constraint
\* shows.
Fields(s, k) == Shown[s[k].rule]

\* walkRequirementIds: the IDs of a constraint and of its owners, and the
\* nearest of them alone.
WalkAll(s, k, approved) == {s[j].id : j \in {k, Owner[k]}} \cap approved

WalkNearest(s, k, approved) ==
    IF s[k].id \in approved THEN {s[k].id} ELSE WalkAll(s, k, approved)

\* requirementResultEvidence: a validation over the whole profile.
ProfileEvidence(s, x, approved) ==
    LET broken == {k \in Keys : RuleOf(s, k) \in Breaks[x]}
    IN  [conforms     |-> broken = {},
         ids          |-> UNION {WalkAll(s, k, approved) : k \in broken},
         atomic       |-> UNION {WalkNearest(s, k, approved) : k \in broken},
         unattributed |-> {k \in broken : WalkNearest(s, k, approved) = {}}]

\* buildConstraintUnitShapeStore: the constraint with this ID alone, under its
\* owner's targets.  The ID has to resolve to one constraint.
UnitKeys(s, id) == {k \in Keys : s[k].id = id}

UnitEvidence(s, x, id) ==
    LET broken == {k \in UnitKeys(s, id) : RuleOf(s, k) \in Breaks[x]}
        seen == IF broken = {} THEN {} ELSE {id}
    IN  [conforms |-> broken = {}, ids |-> seen, atomic |-> seen, unattributed |-> {}]

\* The acceptance rule of a generated negative.
Alone(e, id) == e.atomic = {id} /\ id \in e.ids /\ e.unattributed = {}

\* includedRequirementRegistrySummaries: the inventory has to name its CSV.
Included ==
    IF upstream["inventory"] \in Versions /\ upstream["csv"] = upstream["inventory"]
    THEN upstream["inventory"] ELSE None

-----------------------------------------------------------------------------
(* buildRequirementEvidence: everything is computed before anything is     *)
(* written.  It throws, and writes nothing, unless Buildable.              *)

Approved == {shapes[k].id : k \in Keys}

\* One ID per constraint (a repeated one becomes a draft ID, which has no
\* clause), every ID in use has a clause and every clause an ID, the clause
\* says what the shape's messages say, and the positive fixture conforms.
Buildable ==
    /\ \A k, j \in Keys : shapes[k].id = shapes[j].id => k = j
    /\ Approved = Ids
    /\ \A k \in Keys : clauses[shapes[k].id] = Fields(shapes, k)
    /\ files["positive"] \in Contents
    /\ ProfileEvidence(shapes, files["positive"], Ids).conforms
    /\ files["curated"] \in Contents
    /\ Included # None

KeyOf(id) == CHOOSE k \in Keys : shapes[k].id = id

\* focusNodes and isAbsenceRuleSatisfied: the positive fixture has a node the
\* constraint is about, or the absence it asks for.
Activated(k) == RuleOf(shapes, k) \in Activates[files["positive"]]

Covered == {id \in Ids : Activated(KeyOf(id))}

\* mutationCandidates and directNodeMutationCandidates.
Candidates(id) == Mutations[RuleOf(shapes, KeyOf(id))]

\* A reviewed negative is a case when it breaks one family and nothing else.
CuratedCases ==
    LET e == ProfileEvidence(shapes, files["curated"], Ids)
    IN  IF e.ids # {} /\ Cardinality(e.atomic) = 1 /\ e.unattributed = {}
        THEN {"curated"} ELSE {}

\* Everything the unit lane may try: every mutation made, and the reviewed case.
Pool == (UNION {Candidates(id) : id \in Covered})
        \cup {files[f] : f \in CuratedCases}

ProfileLane(id) ==
    {x \in Candidates(id) : Alone(ProfileEvidence(shapes, x, Ids), id)}
UnitLane(id) == {x \in Pool : Alone(UnitEvidence(shapes, x, id), id)}

Generated ==
    {id \in Covered : ProfileLane(id) \cup UnitLane(id) # {}}

MutationOf(id) ==
    IF ProfileLane(id) # {} THEN CHOOSE x \in ProfileLane(id) : TRUE
                            ELSE CHOOSE x \in UnitLane(id) : TRUE

\* caseRecord.
Case(x, mode, target, e) ==
    [content |-> x, conforms |-> e.conforms, mode |-> mode, target |-> target,
     covers |-> e.ids, expected |-> e.ids, atomic |-> e.atomic]

\* recordGenerated.
GeneratedCase(id) ==
    LET x == MutationOf(id)
    IN  IF ProfileLane(id) # {} THEN Case(x, "profile", None, ProfileEvidence(shapes, x, Ids))
        ELSE Case(x, "constraint-unit", id, UnitEvidence(shapes, x, id))

BuiltCases ==
    [f \in (IF Covered = {} THEN {} ELSE {"positive"}) \cup CuratedCases \cup Generated |->
        IF f = "positive"
        THEN [Case(files[f], "profile", None, ProfileEvidence(shapes, files[f], Ids))
                EXCEPT !.covers = Covered]
        ELSE IF f = "curated"
        THEN Case(files[f], "profile", None, ProfileEvidence(shapes, files[f], Ids))
        ELSE GeneratedCase(f)]

\* The negative a row points at: its own mutation before any other case.
NegativeOf(id, cs) ==
    LET eligible == {f \in DOMAIN cs : /\ ~cs[f].conforms
                                       /\ id \in cs[f].expected
                                       /\ Cardinality(cs[f].atomic) = 1}
    IN  IF id \in eligible THEN id
        ELSE IF eligible \cap Ids # {} THEN CHOOSE f \in eligible \cap Ids : TRUE
        ELSE IF eligible # {} THEN CHOOSE f \in eligible : TRUE ELSE None

BuiltRows ==
    LET cs == BuiltCases
    IN  [k \in Keys |->
            [id |-> shapes[k].id, fields |-> Fields(shapes, k),
             clause |-> clauses[shapes[k].id],
             positive |-> IF shapes[k].id \in Covered THEN "positive" ELSE None,
             negative |-> NegativeOf(shapes[k].id, cs)]]

BuiltRegister ==
    LET rows == BuiltRows
    IN  [rows |-> rows, included |-> Included,
         approved |-> \A k \in Keys : None \notin {rows[k].positive, rows[k].negative}]

Idle == [phase |-> "idle", todo |-> {}, out |-> None]

Begin ==
    /\ build = Idle /\ upbuild = None
    /\ Buildable
    /\ build' = [phase |-> "unlink",
                 todo  |-> {id \in Ids : files[id] # None},
                 out   |-> [register |-> BuiltRegister, cases |-> BuiltCases,
                            mutations |-> [id \in Generated |-> MutationOf(id)]]]
    /\ settled' = BuiltRegister.approved
    /\ UNCHANGED <<inputs, files, registers, upstream, upbuild, check, passed, edits>>

\* A file has changed: no pass is of what is on disk now, and a verification
\* that has begun goes on with what it has read.
Touched == passed' = {} /\ check' = IF check = None THEN None ELSE [check EXCEPT !.clean = FALSE]

\* The old mutations are unlinked one by one, the new ones written in any
\* order, and the documents after them in any order.
Unlink(id) ==
    /\ build.phase = "unlink" /\ id \in build.todo
    /\ files' = [files EXCEPT ![id] = None]
    /\ build' = [build EXCEPT !.todo = @ \ {id}]
    /\ Touched
    /\ UNCHANGED <<inputs, registers, upstream, upbuild, settled, edits>>

WriteMutation(id) ==
    /\ build.phase = "mutations" /\ id \in build.todo
    /\ files' = [files EXCEPT ![id] = build.out.mutations[id]]
    /\ build' = [build EXCEPT !.todo = @ \ {id}]
    /\ Touched
    /\ UNCHANGED <<inputs, registers, upstream, upbuild, settled, edits>>

Document(d, out) ==
    CASE d = "rows"     -> out.register
      [] d = "csv"      -> out.register
      [] d = "cases"    -> [cases |-> out.cases, approved |-> out.register.approved]

WriteRegister(d) ==
    /\ build.phase = "registers" /\ d \in build.todo
    /\ registers' = [registers EXCEPT ![d] = Document(d, build.out)]
    /\ build' = [build EXCEPT !.todo = @ \ {d}]
    /\ Touched
    /\ UNCHANGED <<inputs, files, upstream, upbuild, settled, edits>>

NextPhase ==
    /\ build.phase # "idle" /\ build.todo = {}
    /\ build' = CASE build.phase = "unlink"    -> [build EXCEPT !.phase = "mutations",
                                                    !.todo = DOMAIN build.out.mutations]
                  [] build.phase = "mutations" -> [build EXCEPT !.phase = "registers",
                                                    !.todo = Registers]
                  [] build.phase = "registers" -> Idle
    /\ UNCHANGED <<inputs, files, registers, upstream, upbuild, check, passed, settled, edits>>

\* The builder dies; of the files it was writing at once any may be cut short.
Interrupted ==
    /\ build.phase # "idle"
    /\ edits < MaxEdits /\ edits' = edits + 1
    /\ build' = Idle
    /\ Touched /\ settled' = FALSE
    /\ \E cut \in SUBSET build.todo :
        /\ files' = [f \in Files |-> IF build.phase = "mutations" /\ f \in cut THEN Torn ELSE files[f]]
        /\ registers' = [d \in Registers |->
                            IF build.phase = "registers" /\ d \in cut THEN Torn ELSE registers[d]]
    /\ UNCHANGED <<inputs, upstream, upbuild>>

-----------------------------------------------------------------------------
(* The verifier.  A finding does not stop the program, but it does not pass *)
(* then: a step here is one that finds nothing.                            *)

\* Mutant: a case whose digest still matches is not replayed.
CaseHolds_DigestOnly(s, x, c, approved) == x = c.content

\* A case of verifyFixtures, the bytes of its file being x: the bytes registered,
\* and the same decision, IDs and families when they are validated again.
CaseHolds(s, x, c, approved) ==
    LET e == IF c.mode = "profile" THEN ProfileEvidence(s, c.content, approved)
                                   ELSE UnitEvidence(s, c.content, c.target)
    IN  /\ x = c.content
        /\ c.covers \cup c.expected \cup c.atomic \subseteq approved
        /\ c.expected \cup c.atomic \subseteq c.covers
        /\ c.mode = "constraint-unit" =>
              /\ c.atomic = {c.target} /\ c.target \in c.covers
              /\ Cardinality(UnitKeys(s, c.target)) = 1
        /\ e.conforms = c.conforms
        /\ e.ids = c.expected /\ e.atomic = c.atomic
        /\ e.unattributed = {}

\* The fixture links of a row.
RowLinked(row, cs) ==
    /\ {row.positive, row.negative} \subseteq DOMAIN cs
    /\ cs[row.positive].conforms /\ row.id \in cs[row.positive].covers
    /\ ~cs[row.negative].conforms
    /\ row.id \in cs[row.negative].covers \cap cs[row.negative].expected
    /\ Cardinality(cs[row.negative].atomic) = 1

\* verifyConstraintRows: every constraint has one ID of its own and no flaw, ...
ShapesStand(s) ==
    /\ \A k, j \in Keys : s[k].id = s[j].id => k = j
    /\ \A k \in Keys : s[k].id # None /\ Flaws[s[k].rule] = {}

\* ... and a row that shows what it shows.
RowsAgree(s, rows) ==
    \A k \in Keys : rows[k].id = s[k].id /\ rows[k].fields = Fields(s, k)

\* loadLocalNormativeClauses and the statement of each row.
ClausesAgree(rows) ==
    /\ {rows[k].id : k \in Keys} = Ids
    /\ \A k \in Keys : /\ rows[k].clause = clauses[rows[k].id]
                       /\ clauses[rows[k].id] = rows[k].fields

ApprovedIds(rows) == {rows[k].id : k \in Keys}

Checking == UNCHANGED <<inputs, files, registers, upstream, build, upbuild, settled, edits>>

\* scanRequirementConstraints.
ScanShapes ==
    /\ check = None /\ "local" \notin passed
    /\ ShapesStand(shapes)
    /\ check' = [at |-> "register", shapes |-> shapes, register |-> None, cases |-> None,
                 todo |-> {}, clean |-> TRUE]
    /\ UNCHANGED passed /\ Checking

\* The register is compared with the shapes as they were scanned.
ReadRegister ==
    /\ check # None /\ check.at = "register"
    /\ registers["rows"] \notin {None, Torn} /\ registers["rows"].approved
    /\ RowsAgree(check.shapes, registers["rows"].rows)
    /\ check' = [check EXCEPT !.at = "included", !.shapes = None, !.register = registers["rows"]]
    /\ UNCHANGED passed /\ Checking

\* The inventory and its CSV, then the clauses, then the projection.
ReadDocument(at, next, agrees) ==
    /\ check # None /\ check.at = at /\ agrees
    /\ check' = [check EXCEPT !.at = next]
    /\ UNCHANGED passed /\ Checking

ReadIncluded ==
    ReadDocument("included", "clauses", Included # None /\ check.register.included = Included)
ReadClauses == ReadDocument("clauses", "csv", ClausesAgree(check.register.rows))
ReadProjection == ReadDocument("csv", "cases", registers["csv"] = check.register)

ReadCases ==
    /\ check # None /\ check.at = "cases"
    /\ registers["cases"] \notin {None, Torn} /\ registers["cases"].approved
    /\ check' = [check EXCEPT !.at = "runtime", !.cases = registers["cases"].cases]
    /\ UNCHANGED passed /\ Checking

\* loadFixtureValidationRuntime reads the shapes again.
LoadRuntime ==
    /\ check # None /\ check.at = "runtime"
    /\ check' = [check EXCEPT !.at = "replay", !.shapes = shapes, !.todo = DOMAIN check.cases]
    /\ UNCHANGED passed /\ Checking

\* The fixtures are read and validated one by one, in the order of the register.
Replay ==
    /\ check # None /\ check.at = "replay" /\ check.todo # {}
    /\ LET f == CHOOSE f \in check.todo : TRUE
       IN  /\ CaseHolds(check.shapes, files[f], check.cases[f], ApprovedIds(check.register.rows))
           /\ check' = [check EXCEPT !.todo = @ \ {f}]
    /\ UNCHANGED passed /\ Checking

\* No finding.
Pass ==
    /\ check # None /\ check.at = "replay" /\ check.todo = {}
    /\ \A k \in Keys : RowLinked(check.register.rows[k], check.cases)
    /\ check' = [check EXCEPT !.at = "passed"]
    /\ passed' = IF check.clean THEN passed \cup {"local"} ELSE passed
    /\ Checking

\* The report is read; or there is a finding, or the program ends before.
Leave ==
    /\ check # None /\ check' = None
    /\ UNCHANGED passed /\ Checking

\* The verification of a release that does not change in the meantime.
Traceable ==
    /\ \A d \in Registers : registers[d] \notin {None, Torn}
    /\ LET reg == registers["rows"]
           cs == registers["cases"].cases
       IN  /\ reg.approved /\ ShapesStand(shapes) /\ RowsAgree(shapes, reg.rows)
           /\ Included # None /\ reg.included = Included
           /\ ClausesAgree(reg.rows)
           /\ registers["csv"] = reg
           /\ registers["cases"].approved
           /\ \A f \in DOMAIN cs : CaseHolds(shapes, files[f], cs[f], ApprovedIds(reg.rows))
           /\ \A k \in Keys : RowLinked(reg.rows[k], cs)

\* The builder's assertions on an upstream source: the constraints and IDs it
\* pins, and shards whose positives conform and whose negatives fail one by one.
ScansAsPinned(v) == v \notin Drifted
ShardsIsolate(v) == v \notin Entangled
SourceBuilds == ScansAsPinned(source) /\ ShardsIsolate(source)

\* verifyUpstreamRequirementInventory: every file is what the source builds.
Rebuilt == SourceBuilds /\ \A u \in DOMAIN upstream : upstream[u] = source

VerifyUpstream ==
    /\ "upstream" \notin passed /\ Rebuilt
    /\ passed' = passed \cup {"upstream"}
    /\ UNCHANGED check /\ Checking

-----------------------------------------------------------------------------
(* The upstream builder: shards, then the CSV, then the inventory.         *)

BeginUpstream ==
    /\ upbuild = None /\ build = Idle
    /\ SourceBuilds
    /\ upbuild' = [next |-> 1, version |-> source]
    /\ UNCHANGED <<inputs, files, registers, upstream, build, check, passed, settled, edits>>

WriteUpstream ==
    /\ upbuild # None
    /\ upstream' = [upstream EXCEPT ![Upstream[upbuild.next]] = upbuild.version]
    /\ upbuild' = IF upbuild.next = Len(Upstream) THEN None ELSE [upbuild EXCEPT !.next = @ + 1]
    /\ Touched /\ settled' = FALSE
    /\ UNCHANGED <<inputs, files, registers, build, edits>>

InterruptedUpstream ==
    /\ upbuild # None
    /\ edits < MaxEdits /\ edits' = edits + 1
    /\ upbuild' = None
    /\ \/ UNCHANGED upstream
       \/ upstream' = [upstream EXCEPT ![Upstream[upbuild.next]] = Torn]
    /\ Touched /\ settled' = FALSE
    /\ UNCHANGED <<inputs, files, registers, build>>

-----------------------------------------------------------------------------
(* What people change between the runs.  A builder has read its inputs when *)
(* it writes and writes other files, so an edit during a build commutes    *)
(* with its writes: edits are made while none runs.                        *)

Edited == /\ build = Idle /\ upbuild = None
          /\ edits < MaxEdits /\ edits' = edits + 1
          /\ Touched /\ settled' = FALSE
          /\ UNCHANGED <<registers, upstream, build, upbuild>>

EditShape(k, s) == /\ s # shapes[k] /\ Edited
                   /\ shapes' = [shapes EXCEPT ![k] = s]
                   /\ UNCHANGED <<clauses, files, source>>

EditClause(id, fields) == /\ fields # clauses[id] /\ Edited
                          /\ clauses' = [clauses EXCEPT ![id] = fields]
                          /\ UNCHANGED <<shapes, files, source>>

EditFixture(f, x) == /\ x # files[f] /\ Edited
                     /\ files' = [files EXCEPT ![f] = x]
                     /\ UNCHANGED <<shapes, clauses, source>>

EditSource(v) == /\ v # source /\ Edited
                 /\ source' = v
                 /\ UNCHANGED <<shapes, clauses, files>>

-----------------------------------------------------------------------------
\* A release before its first build: shapes, clauses and reviewed fixtures that
\* agree, and no artifact of either builder.
Init ==
    /\ shapes = FirstShapes
    /\ clauses = [id \in Ids |-> Shown[shapes[KeyOf(id)].rule]]
    /\ files = [f \in Files |-> IF f \in Reviewed THEN FirstFixtures[f] ELSE None]
    /\ registers = [d \in Registers |-> None]
    /\ source = FirstSource
    /\ upstream = [u \in {Upstream[i] : i \in 1 .. Len(Upstream)} |-> None]
    /\ build = Idle /\ upbuild = None
    /\ check = None /\ passed = {} /\ settled = FALSE
    /\ edits = 0

Next ==
    \/ Begin \/ NextPhase \/ Interrupted \/ VerifyUpstream
    \/ ScanShapes \/ ReadRegister \/ ReadIncluded \/ ReadClauses \/ ReadProjection
    \/ ReadCases \/ LoadRuntime \/ Replay \/ Pass \/ Leave
    \/ \E id \in Ids : Unlink(id) \/ WriteMutation(id)
    \/ \E d \in Registers : WriteRegister(d)
    \/ BeginUpstream \/ WriteUpstream \/ InterruptedUpstream
    \/ \E k \in Keys, id \in Ids \cup {None}, r \in Rules :
            EditShape(k, [id |-> id, rule |-> r])
    \/ \E id \in Ids, r \in Rules : EditClause(id, Shown[r])
    \/ \E f \in Reviewed, x \in Contents : EditFixture(f, x)
    \/ \E v \in Versions : EditSource(v)

Spec == Init /\ [][Next]_vars

-----------------------------------------------------------------------------
(* Properties.                                                             *)

\* Every variable keeps to its type.
TypeOK ==
    /\ shapes \in [Keys -> [id : Ids \cup {None}, rule : Rules]]
    /\ files \in [Files -> Contents \cup {None, Torn}]
    /\ DOMAIN registers = Registers
    /\ source \in Versions
    /\ \A u \in DOMAIN upstream : upstream[u] \in Versions \cup {None, Torn}
    /\ build.phase \in {"idle", "unlink", "mutations", "registers"}
    /\ build.todo \subseteq Ids \cup Registers
    /\ check = None \/ check.todo \subseteq Files
    /\ passed \subseteq {"local", "upstream"}
    /\ edits \in 0 .. MaxEdits

\* What passed while nothing changed is evidenced by the files that are there:
\* the positive fixture conforms to the present shapes, every constraint has a
\* fixture that breaks it, or a constraint it owns, as the shape is now, and when
\* the upstream verifier passed too, the inventory the register includes is that
\* of the present upstream source.  No sequence of edits, interrupted builds and
\* half-written registers gets around it (requirements/README.md, section 4).
PassedIsEvidenced ==
    "local" \in passed =>
        /\ files["positive"] \in Contents
        /\ \A k \in Keys : RuleOf(shapes, k) \notin Breaks[files["positive"]]
        /\ \A k \in Keys : \E j \in {j \in Keys : k \in {j, Owner[j]}}, f \in Files :
              files[f] \in Contents /\ RuleOf(shapes, j) \in Breaks[files[f]]
        /\ "upstream" \in passed => registers["rows"].included = source

\* Whatever changed between its reads, what a verification passes was replayed:
\* every row has a case with bytes that conform to the shapes as they were loaded
\* for the replay, and one with bytes that break there a constraint that carries
\* the requirement's ID, or is owned by one that does.
PassIsReplayed ==
    check # None /\ check.at = "passed" =>
        \A k \in Keys :
            LET row == check.register.rows[k]
                s == check.shapes
            IN  /\ \A j \in Keys : RuleOf(s, j) \notin Breaks[check.cases[row.positive].content]
                /\ \E j \in Keys : /\ RuleOf(s, j) \in Breaks[check.cases[row.negative].content]
                                    /\ row.id \in {s[i].id : i \in {j, Owner[j]}}

\* The two programs agree: a build that found evidence for every requirement
\* and was not disturbed is accepted by the verifier, unless a constraint has a
\* flaw that only the verifier refuses.
BuiltVerifies ==
    build = Idle /\ settled /\ (\A k \in Keys : Flaws[shapes[k].rule] = {})
        => Traceable

\* "A requirement isolated in neither lane stays a blocker"
\* (requirements/README.md:112): what passed has, for each constraint, a
\* fixture that breaks that constraint.
PassedIsIsolated ==
    "local" \in passed =>
        \A k \in Keys : \E f \in Files :
            files[f] \in Contents /\ RuleOf(shapes, k) \in Breaks[files[f]]

=============================================================================

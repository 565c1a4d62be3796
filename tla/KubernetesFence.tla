-------------------------- MODULE KubernetesFence --------------------------
(***************************************************************************)
(* The Kubernetes adapter of CaaS (caas/kubernetes-provisioner.mjs) and    *)
(* the admission rules its writes pass, for one tenant.                    *)
(*                                                                         *)
(* A command claims the tenant's fencing record with the token of its      *)
(* lease, then writes the namespace and what is in it one object at a      *)
(* time.  Around every write it asserts that the record still carries its  *)
(* token; the API server admits a write only if the object carries the     *)
(* record's command (the webhook) and never a smaller token than it        *)
(* replaces (the admission policy), and persists it only on the revision   *)
(* it was computed from.  A lease may be lost unnoticed, so commands       *)
(* overlap; a request whose answer is lost stays on the wire and may land  *)
(* later.  On a failure the command undoes its writes in reverse order.    *)
(*                                                                         *)
(* One object stands for each group that is applied alike: ns, base (what  *)
(* the workload needs), run (its Deployments and routes), ready (the       *)
(* schema receipt), and one migration Job per intent.  Claim and receipt   *)
(* are compare-and-swap loops on one object, and one step each.            *)
(***************************************************************************)
EXTENDS Naturals, Sequences, FiniteSets

CONSTANTS
    Calls,       \* provisioner calls in flight
    Nobody,      \* no call: its request was left on the wire
    Intents,     \* what the control service commands
    NoIntent,
    Provisions,  \* the intents that run a workload
    Suspends,    \* the intents that keep it with no replicas
    Migrating,   \* the intents whose plan has a database schema
    MaxToken,    \* bound: fencing tokens issued
    MaxSecret,   \* bound: versions of the tenant's database Secret
    MaxLate      \* bound: requests left on the wire

Reclaim == "reclaim"
Deletes == (Intents \ (Provisions \cup Suspends)) \cup {Reclaim}
Orders  == Intents \cup {Reclaim}

ASSUME IntentsAssumption ==
    /\ Nobody \notin Calls /\ NoIntent \notin Orders /\ Reclaim \notin Intents
    /\ Provisions \subseteq Intents /\ Suspends \subseteq Intents
    /\ Provisions \cap Suspends = {} /\ Migrating \subseteq Provisions
ASSUME BoundsAssumption == MaxToken \in Nat \ {0} /\ MaxSecret \in Nat /\ MaxLate \in Nat

VARIABLES
    fence,      \* the tenant's record in the control namespace
    cell,       \* the objects, with their command annotations and content
    dying,      \* the namespace is being deleted
    pods,       \* workload pods are running
    secret,     \* version of the database Secret; 0: absent
    wire,       \* write requests the API server has not answered
    issued,     \* the newest fencing token
    registered, \* the tenant is in the control store
    call,       \* the adapter's calls
    undone      \* not in the code: the tokens whose commands began to roll back

cluster == <<fence, cell, dying, pods, secret, wire>>
vars    == <<cluster, issued, registered, call, undone>>

-----------------------------------------------------------------------------
(* Objects                                                                 *)

Ns     == <<"ns", NoIntent>>
Run    == <<"run", NoIntent>>
Ready  == <<"ready", NoIntent>>
Job(i) == <<"job", i>>
Names  == {Ns, Run, Ready} \cup {Job(i) : i \in Migrating}

Tokens == 0..MaxToken

\* token and op are the annotations; spec is the intent the content comes from.
\* up: replicas wanted, or a Job not finished.  ev: the Secret version it used.
Cells == [here : BOOLEAN, token : Tokens, op : Orders \cup {NoIntent},
          spec : Orders \cup {NoIntent}, up : BOOLEAN, ev : 0..MaxSecret]
Absent == [here |-> FALSE, token |-> 0, op |-> NoIntent, spec |-> NoIntent,
           up |-> FALSE, ev |-> 0]

Phases == {"NONE", "CLAIMED", "APPLIED", "FAILED"}
NoFence == [token |-> 0, op |-> NoIntent, phase |-> "NONE"]

\* The objects a command writes, in order; the steps between them wait.
Put(n)  == [do |-> "put", name |-> n]
Wait(w) == [do |-> w, name |-> Ns]
Plan(i) ==
    IF i \in Deletes THEN <<[do |-> "sync", name |-> Ns], [do |-> "erase", name |-> Ns]>>
    ELSE IF i \in Migrating
    THEN <<Put(Ns), [do |-> "quiesce", name |-> Run], Wait("drain"),
           Wait("secret"), Put(Job(i)), Wait("migrate"), Wait("verify"),
           Put(Ready), Put(Run)>>
    ELSE <<Put(Ns), Put(Run)>>

Written(i) == {Plan(i)[k].name : k \in DOMAIN Plan(i)}

-----------------------------------------------------------------------------
(* Calls and requests                                                      *)

\* before, undo: the snapshots rollback restores.  held: the namespace was not
\* written since it was synchronised.  proof: the Secret version seen.
Idle == [pc |-> "idle", order |-> NoIntent, token |-> 0, at |-> 1,
         before |-> Absent, held |-> FALSE, undo |-> <<>>, proof |-> 0]

Working == {"check", "wait", "confirm", "observe"}
Undoing == {"undo", "unwait", "record"}

Snapshots == Seq([name : Names, before : Cells])
Calling  == [pc : {"idle", "scanned", "claim"} \cup Working \cup Undoing,
             order : Orders \cup {NoIntent}, token : Tokens, at : Nat,
             before : Cells, held : BOOLEAN,
             undo : Snapshots, proof : 0..MaxSecret]
Requests == [by : Calls \cup {Nobody}, from : Tokens, verb : {"POST", "PUT", "DELETE"},
             name : Names, new : Cells, fresh : BOOLEAN, admitted : BOOLEAN]

Step(c)     == Plan(call[c].order)[call[c].at]
Finished(c) == call[c].at > Len(Plan(call[c].order))
At(c, do)   == call[c].pc = "check" /\ ~Finished(c) /\ Step(c).do = do
Mine(c)     == fence.token = call[c].token

Moved(c, l)  == [call EXCEPT ![c].pc = l]
Advanced(c)  == [call EXCEPT ![c].pc = "check", ![c].at = @ + 1, ![c].before = Absent]

\* A failed command undoes its writes; orphan recovery just stops.
Fallen(c) == [call EXCEPT ![c] =
                 IF @.order = Reclaim THEN Idle ELSE [@ EXCEPT !.pc = "undo", !.before = Absent]]

\* The request of a caller that went away is lost, or lands later.
Late(w) == {r \in w : r.by = Nobody}
Abandon(c) ==
    LET left == {IF r.by = c THEN [r EXCEPT !.by = Nobody] ELSE r : r \in wire}
    IN  \/ wire' = {r \in wire : r.by # c}
        \/ Cardinality(Late(left)) <= MaxLate /\ wire' = left

\* c asks for a write computed from the object as it is now.
Request(c, verb, n, new) ==
    [by |-> c, from |-> call[c].token, verb |-> verb, name |-> n,
     new |-> new, fresh |-> TRUE, admitted |-> FALSE]
Ask(c, verb, n, new) == wire' = wire \cup {Request(c, verb, n, new)}

\* A write to n takes the revision every other request on n was computed from.
Stale(w, n) == {IF r.name = n THEN [r EXCEPT !.fresh = FALSE] ELSE r : r \in w}
Unheld(k, n) == IF n = Ns THEN [c \in Calls |-> [k[c] EXCEPT !.held = FALSE]] ELSE k

-----------------------------------------------------------------------------
(* Orders: the control service issues a token with every lease             *)

Issue(c, i) ==
    /\ issued < MaxToken
    /\ issued' = issued + 1
    /\ call'   = [call EXCEPT ![c] = [Idle EXCEPT !.pc = "claim", !.order = i, !.token = issued + 1]]

Command(c, i) ==
    /\ call[c].pc = "idle" /\ registered
    /\ Issue(c, i)
    /\ UNCHANGED <<cluster, registered, undone>>

\* Registration takes the tenant's lease and commands nothing.
Register ==
    /\ ~registered /\ issued < MaxToken
    /\ registered' = TRUE /\ issued' = issued + 1
    /\ UNCHANGED <<cluster, call, undone>>

\* Orphan recovery lists namespaces and tenants first ...
Scan(c) ==
    /\ call[c].pc = "idle" /\ ~registered /\ cell[Ns].here
    /\ call' = Moved(c, "scanned")
    /\ UNCHANGED <<cluster, issued, registered, undone>>

\* ... and looks again under the tenant's lease.
Orphaned == ~registered
Recover(c) ==
    /\ call[c].pc = "scanned"
    /\ IF Orphaned
       THEN Issue(c, Reclaim)
       ELSE issued < MaxToken /\ issued' = issued + 1 /\ call' = [call EXCEPT ![c] = Idle]
    /\ UNCHANGED <<cluster, registered, undone>>

\* #claimFence: never over a newer token.
\* Mutant: the newest caller wins whatever the record holds.
ClaimAnyway(c) == TRUE
Newer(c) == fence.token < call[c].token
Claim(c) ==
    /\ call[c].pc = "claim"
    /\ IF Newer(c)
       THEN /\ fence' = [token |-> call[c].token, op |-> call[c].order, phase |-> "CLAIMED"]
            /\ call'  = Moved(c, "check")
       ELSE call' = [call EXCEPT ![c] = Idle] /\ UNCHANGED fence
    /\ UNCHANGED <<cell, dying, pods, secret, wire, issued, registered, undone>>

-----------------------------------------------------------------------------
(* The steps of a command                                                  *)

quiet == <<fence, cell, dying, pods, secret, issued, registered>>

\* Before a write the call asserts the fence and reads the object.  The two are
\* one step here: a claim between them is, to the server, one just after them.
Writing(c, do) == At(c, do) /\ Mine(c)

\* The content a command wants; what runs in a Job is not the adapter's to write.
Body(c, cur) ==
    LET k == call[c]  n == Step(c).name  job == n[1] = "job"
    IN  [here |-> TRUE, token |-> k.token, op |-> k.order, spec |-> k.order,
         up |-> CASE n = Run -> k.order \in Provisions /\ Step(c).do = "put"
                  [] job     -> IF cur.here THEN cur.up ELSE TRUE
                  [] OTHER   -> FALSE,
         ev |-> CASE n = Ready -> k.proof
                  [] job       -> cur.ev
                  [] OTHER     -> 0]

\* #apply reads the object, refuses a newer one, and creates or replaces it.
Apply(c) ==
    LET n == Step(c).name  cur == cell[n]
    IN  /\ Writing(c, "put") \/ Writing(c, "quiesce")
        /\ cur.token <= call[c].token
        /\ Ask(c, IF cur.here THEN "PUT" ELSE "POST", n, Body(c, cur))
        /\ call' = [call EXCEPT ![c].pc = "wait", ![c].before = cur]
        /\ UNCHANGED <<quiet, undone>>

\* #deleteNamespace first writes its command into the namespace ...
Synchronize(c) ==
    /\ Writing(c, "sync")
    /\ IF cell[Ns].here
       THEN /\ cell[Ns].token <= call[c].token
            /\ Ask(c, "PUT", Ns, [cell[Ns] EXCEPT !.token = call[c].token, !.op = call[c].order])
            /\ call' = Moved(c, "wait")
       ELSE call' = [Advanced(c) EXCEPT ![c].at = 3] /\ UNCHANGED wire
    /\ UNCHANGED <<quiet, undone>>

\* ... then deletes exactly the revision it wrote.
Erase(c) ==
    /\ Writing(c, "erase")
    /\ wire' = wire \cup {[Request(c, "DELETE", Ns, Absent) EXCEPT !.fresh = call[c].held]}
    /\ call' = Moved(c, "wait")
    /\ UNCHANGED <<quiet, undone>>

\* The write was answered: still this command's fence?  Only then is it undoable.
Snapshot(c) == [name |-> Step(c).name, before |-> call[c].before]
Confirm(c) ==
    /\ call[c].pc = "confirm" /\ Mine(c)
    /\ call' = [Advanced(c) EXCEPT ![c].undo =
                   IF Step(c).do \in {"put", "quiesce"} THEN Append(@, Snapshot(c)) ELSE @]
    /\ UNCHANGED <<quiet, wire, undone>>

\* #quiesceExistingDeployments: nothing to scale down, or scaled down and drained.
Quiesced(c) == \E k \in DOMAIN call[c].undo : call[c].undo[k].name = Run
Drained     == ~cell[Run].up /\ ~pods
Quiesce(c) ==
    /\ \/ At(c, "quiesce") /\ ~cell[Run].here
       \/ At(c, "drain") /\ (Quiesced(c) => Mine(c) /\ Drained)
    /\ call' = Advanced(c)
    /\ UNCHANGED <<quiet, wire, undone>>

\* #waitForDatabaseSecret keeps the version; the migration must end while it stands.
AwaitSecret(c) ==
    /\ At(c, "secret") /\ secret > 0
    /\ call' = [Advanced(c) EXCEPT ![c].proof = secret]
    /\ UNCHANGED <<quiet, wire, undone>>

\* #waitForMigrationJob
\* Mutant: the Job is looked at, not waited for.
MigrationStarted(c) == cell[Job(call[c].order)].token = call[c].token
Migrated(c) == LET job == cell[Job(call[c].order)]
               IN  job.here /\ job.token = call[c].token /\ ~job.up
AwaitMigration(c) ==
    /\ At(c, "migrate") /\ Mine(c) /\ Migrated(c)
    /\ call' = Advanced(c)
    /\ UNCHANGED <<quiet, wire, undone>>

\* #assertDatabaseSecretUnchanged
Verify(c) ==
    /\ At(c, "verify") /\ secret = call[c].proof
    /\ call' = Advanced(c)
    /\ UNCHANGED <<quiet, wire, undone>>

\* #recordReceipt, after the last step.
Receipt(c) ==
    /\ call[c].pc = "check" /\ Finished(c) /\ Mine(c)
    /\ fence' = [fence EXCEPT !.phase = "APPLIED"]
    /\ call'  = IF call[c].order = Reclaim THEN [call EXCEPT ![c] = Idle] ELSE Moved(c, "observe")
    /\ UNCHANGED <<cell, dying, pods, secret, wire, issued, registered, undone>>

\* What observe reports for a command.
Converged(i) ==
    /\ fence.phase = "APPLIED" /\ fence.op = i
    /\ i \in Provisions =>
          /\ cell[Ns].here /\ cell[Run].here /\ pods
          /\ cell[Run].op = i /\ cell[Run].token = fence.token
          /\ i \in Migrating => /\ cell[Ready].here /\ cell[Ready].ev = secret
                                /\ cell[Ready].op = i /\ cell[Ready].token = fence.token
    /\ i \in Suspends => cell[Run].here /\ ~cell[Run].up /\ ~pods
    /\ i \in Deletes  => ~cell[Ns].here

\* The call ends with its observation, converged or not.
Observe(c) ==
    /\ call[c].pc = "observe" /\ Mine(c)
    /\ call' = [call EXCEPT ![c] = Idle]
    /\ UNCHANGED <<quiet, wire, undone>>

\* Whatever goes wrong in a step: a lost fence, a refusal, a timeout, no answer.
Fail(c) ==
    /\ call[c].pc \in Working
    /\ call'   = Fallen(c)
    /\ undone' = IF call[c].order = Reclaim THEN undone ELSE undone \cup {call[c].token}
    /\ IF call[c].pc = "wait" THEN Abandon(c) ELSE UNCHANGED wire
    /\ UNCHANGED quiet

\* The call is aborted or its process dies; nothing more is sent.
Abort(c) ==
    /\ call[c].pc # "idle"
    /\ call' = [call EXCEPT ![c] = Idle]
    /\ Abandon(c)
    /\ UNCHANGED <<quiet, undone>>

-----------------------------------------------------------------------------
(* Rollback                                                                *)

Top(c)    == call[c].undo[Len(call[c].undo)]
Popped(c) == [call EXCEPT ![c].pc = "undo",
                          ![c].undo = SubSeq(@, 1, Len(@) - 1)]

\* The content of the snapshot under the annotations that are there now.
Former(n, before) ==
    [before EXCEPT !.op = cell[n].op,
                   !.up = IF n[1] = "job" THEN cell[n].up ELSE @,
                   !.ev = IF n[1] = "job" THEN cell[n].ev ELSE @]

\* In reverse order, each object under an asserted fence: what the command made
\* is deleted, what it replaced is put back.
Restore(c) ==
    LET n == Top(c).name  before == Top(c).before
    IN  /\ call[c].pc = "undo" /\ call[c].undo # <<>> /\ Mine(c)
        /\ cell[n].token <= call[c].token
        /\ CASE ~cell[n].here -> call' = Popped(c) /\ UNCHANGED wire
             [] cell[n].here /\ before.here ->
                   /\ Ask(c, "PUT", n, [Former(n, before) EXCEPT !.token = call[c].token])
                   /\ call' = Moved(c, "unwait")
             [] OTHER -> Ask(c, "DELETE", n, Absent) /\ call' = Moved(c, "unwait")
        /\ UNCHANGED <<quiet, undone>>

\* Done, or the fence or the object is a newer command's, or a read failed.
Stop(c) ==
    /\ call[c].pc = "undo"
    /\ call' = Moved(c, "record")
    /\ UNCHANGED <<quiet, wire, undone>>

\* A write of the rollback failed or was not answered.
GiveUp(c) ==
    /\ call[c].pc = "unwait"
    /\ call' = Moved(c, "record")
    /\ Abandon(c)
    /\ UNCHANGED <<quiet, undone>>

\* The failure is recorded if it can be; its own failure is ignored.
RecordFailure(c) ==
    /\ call[c].pc = "record"
    /\ \/ Mine(c) /\ fence' = [fence EXCEPT !.phase = "FAILED"]
       \/ UNCHANGED fence
    /\ call' = [call EXCEPT ![c] = Idle]
    /\ UNCHANGED <<cell, dying, pods, secret, wire, issued, registered, undone>>

-----------------------------------------------------------------------------
(* The API server                                                          *)

\* The webhook compares the object (the old one when it is deleted) with the
\* fencing record.  It sees no deletion but a namespace's or a Job's, and no
\* update of an object already being deleted.
Exempt(r) == \/ r.verb = "DELETE" /\ r.name[1] \notin {"ns", "job"}
             \/ r.verb = "PUT" /\ r.name = Ns /\ dying
CommandMatches(r) ==
    LET o == IF r.verb = "DELETE" THEN cell[r.name] ELSE r.new
    IN  o.token = fence.token /\ o.op = fence.op

\* The admission policy: a token never decreases, and keeps its command.
Monotonic(r) ==
    LET old == cell[r.name]
    IN  r.verb = "PUT" => \/ r.new.token > old.token
                          \/ r.new.token = old.token /\ r.new.op = old.op

Admissible(r) == (Exempt(r) \/ CommandMatches(r)) /\ Monotonic(r)

Admit(r) ==
    /\ ~r.admitted /\ Admissible(r)
    /\ wire' = (wire \ {r}) \cup {[r EXCEPT !.admitted = TRUE]}
    /\ UNCHANGED <<quiet, call, undone>>

\* The write fits what is stored.
Fits(r) ==
    IF r.verb = "POST" THEN ~cell[r.name].here /\ (r.name = Ns \/ (cell[Ns].here /\ ~dying))
    ELSE cell[r.name].here /\ r.fresh

\* Where the answer takes its caller.
Answered(r) ==
    LET c == r.by
    IN  IF c \notin Calls THEN call
        ELSE IF call[c].pc = "unwait" THEN Popped(c)
        ELSE [Moved(c, "confirm") EXCEPT ![c].held = Step(c).do = "sync"]

Persist(r) ==
    /\ r.admitted /\ Fits(r)
    /\ wire' = Stale(wire \ {r}, r.name)
    /\ IF r.verb = "DELETE" /\ r.name = Ns
       THEN dying' = TRUE /\ UNCHANGED cell
       ELSE dying' = dying /\ cell' = [cell EXCEPT ![r.name] = IF r.verb = "DELETE" THEN Absent ELSE r.new]
    /\ LET k == Unheld(call, r.name)
       IN  call' = IF r.by \in Calls THEN [k EXCEPT ![r.by] = Answered(r)[r.by]] ELSE k
    /\ UNCHANGED <<fence, pods, secret, issued, registered, undone>>

\* A conflict is retried by #apply; every other refusal fails the command.
Conflicting(r) == IF r.verb = "POST" THEN cell[r.name].here ELSE cell[r.name].here /\ ~r.fresh
Refuse(r) ==
    /\ ~Fits(r) \/ (~r.admitted /\ ~Admissible(r))
    /\ wire' = wire \ {r}
    /\ IF r.by \notin Calls THEN UNCHANGED <<call, undone>>
       ELSE LET c == r.by
            IN  IF call[c].pc = "unwait" THEN call' = Moved(c, "record") /\ UNCHANGED undone
                ELSE IF Conflicting(r) /\ Step(c).do \in {"put", "quiesce"}
                THEN call' = Moved(c, "check") /\ UNCHANGED undone
                ELSE /\ call' = Fallen(c)
                     /\ undone' = IF call[c].order = Reclaim THEN undone ELSE undone \cup {call[c].token}
    /\ UNCHANGED quiet

-----------------------------------------------------------------------------
(* The cluster                                                             *)

rest == <<fence, issued, registered, undone>>

\* Pods follow the Deployments.
PodsFollow ==
    /\ pods # cell[Run].up
    /\ pods' = cell[Run].up
    /\ UNCHANGED <<rest, cell, dying, secret, wire, call>>

\* A Job reads the Secret when it starts, and finishes.
JobRuns(n) ==
    /\ n[1] = "job" /\ cell[n].here /\ cell[n].up
    /\ IF cell[n].ev = 0 THEN secret > 0 /\ cell' = [cell EXCEPT ![n].ev = secret]
                         ELSE cell' = [cell EXCEPT ![n].up = FALSE]
    /\ wire' = Stale(wire, n)
    /\ UNCHANGED <<rest, dying, pods, secret, call>>

\* The Secret is synchronised, or deleted and made again: it is immutable.
SecretMade ==
    /\ secret < MaxSecret
    /\ secret' = secret + 1
    /\ UNCHANGED <<rest, cell, dying, pods, wire, call>>

\* Foreground deletion ends: the namespace and everything in it are gone.  It
\* takes longer than the API server needs to persist what it admitted.
NamespaceGone ==
    /\ dying /\ \A r \in wire : ~r.admitted
    /\ dying' = FALSE /\ pods' = FALSE
    /\ cell'  = [n \in Names |-> Absent]
    /\ wire'  = {[r EXCEPT !.fresh = FALSE] : r \in wire}
    /\ call'  = Unheld(call, Ns)
    /\ UNCHANGED <<rest, secret>>

-----------------------------------------------------------------------------

\* Token 1 was the registration's, or deployed an intent; its tenant may have been
\* lost from the control store.
Init ==
    /\ issued = 1
    /\ \/ /\ registered = TRUE /\ fence = NoFence
          /\ cell = [n \in Names |-> Absent] /\ pods = FALSE
       \/ \E i \in Provisions \ Migrating :
          /\ registered \in BOOLEAN /\ fence = [token |-> 1, op |-> i, phase |-> "APPLIED"]
          /\ cell = [n \in Names |-> IF n \in Written(i)
                        THEN [here |-> TRUE, token |-> 1, op |-> i, spec |-> i, up |-> n = Run, ev |-> 0]
                        ELSE Absent]
          /\ pods = TRUE
    /\ dying = FALSE /\ secret = 0 /\ wire = {} /\ undone = {}
    /\ call = [c \in Calls |-> Idle]

Next ==
    \/ \E c \in Calls :
         \/ \E i \in Intents : Command(c, i)
         \/ Scan(c) \/ Recover(c) \/ Claim(c) \/ Apply(c) \/ Synchronize(c)
         \/ Erase(c) \/ Confirm(c) \/ Quiesce(c) \/ AwaitSecret(c) \/ AwaitMigration(c)
         \/ Verify(c) \/ Receipt(c) \/ Observe(c) \/ Fail(c) \/ Abort(c)
         \/ Restore(c) \/ Stop(c) \/ GiveUp(c) \/ RecordFailure(c)
    \/ \E r \in wire : Admit(r) \/ Persist(r) \/ Refuse(r)
    \/ \E n \in Names : JobRuns(n)
    \/ Register \/ PodsFollow \/ SecretMade \/ NamespaceGone

Spec == Init /\ [][Next]_vars

-----------------------------------------------------------------------------
(* Properties                                                              *)

TypeOK ==
    /\ fence \in [token : Tokens, op : Orders \cup {NoIntent}, phase : Phases]
    /\ cell \in [Names -> Cells] /\ dying \in BOOLEAN /\ pods \in BOOLEAN
    /\ secret \in 0..MaxSecret /\ wire \subseteq Requests
    /\ issued \in Tokens /\ registered \in BOOLEAN /\ undone \subseteq Tokens
    /\ call \in [Calls -> Calling]

\* A provisioning or suspending command that holds an APPLIED receipt and did
\* not begin to roll back owns every object it writes: nothing of an older
\* command, of a late request or of another call's rollback is in between
\* (#apply and #recordReceipt under the webhook, the policy and the revisions).
AppliedIsExclusive ==
    /\ fence.phase = "APPLIED" /\ fence.op \in Intents \ Deletes
    /\ fence.token \notin undone /\ cell[Ns].here
    => \A n \in Written(fence.op) :
         cell[n].here /\ cell[n].token = fence.token /\ cell[n].spec = fence.op

\* The workload of a schema-bound plan is applied only after its migration Job
\* ended and the receipt of the Secret it waited for was written.
RolloutFollowsMigration ==
    /\ fence.op \in Migrating /\ fence.token \notin undone
    /\ cell[Run].token = fence.token /\ cell[Run].up
    => ~cell[Job(fence.op)].up /\ cell[Ready].token = fence.token /\ cell[Ready].ev > 0

\* A namespace is deleted only by the newest command that wrote it: what a newer
\* command provisioned is never removed by an older deletion, rollback or orphan
\* recovery (#deleteNamespace, #rollback, reclaimOrphan).
DeletedByItsOwn ==
    \E r \in wire : r.verb = "DELETE" /\ r.name = Ns /\ r.from = cell[Ns].token
DeletesItsOwn == [][~dying /\ dying' => DeletedByItsOwn]_vars

Runtime == INSTANCE FencedRuntime WITH
    Orders  <- Orders,
    Running <- Intents \ Deletes,
    NoOrder <- NoIntent,
    token   <- fence.token,
    order   <- fence.op,
    outcome <- IF fence.token \in undone THEN "BROKEN" ELSE fence.phase,
    content <- cell[Run].spec

\* The adapter implements the runtime CaasTenant commands: what it reports as
\* applied stays so until a newer token, its own failure, or the end of a
\* namespace that was already being deleted.
ImplementsRuntime == Runtime!Spec

\* What the adapter promises its caller: a command with an APPLIED receipt owns
\* what it wrote, and a workload runs only after the migration of its schema
\* (#apply, #recordReceipt).
FenceIsSafe == TypeOK /\ AppliedIsExclusive /\ RolloutFollowsMigration

\* ... and how it moves: as the runtime that CaasTenant commands, and no deletion
\* of an older command removes a newer namespace.
RuntimeIsKept == ImplementsRuntime /\ DeletesItsOwn

\* deploy/kubernetes/README.md says that the receipt records the completed Job for
\* the database Secret that stayed in place.  It does not hold: the Job is named
\* after the intent, so a retry takes the Job that an interrupted attempt ran
\* against an earlier Secret for its own.
SchemaEvidenceIsReal ==
    LET job == cell[Job(fence.op)]
    IN  fence.op \in Migrating /\ Converged(fence.op) /\ job.here => job.ev = cell[Ready].ev

\* The unit test of a failed upgrade and docs/04-implementation say that a failure
\* restores the previous runtime and leaves a FAILED receipt.  A failure after
\* the receipt restores it too, and the FAILED receipt may be lost: a later
\* observation then reports the command converged over the previous content.
ConvergedIsTrue ==
    /\ fence.op \in Intents \ Deletes /\ Converged(fence.op)
    /\ \A c \in Calls : call[c].token # fence.token
    => cell[Run].spec = fence.op
=============================================================================

---------------------- MODULE DsaasReconcileProofs -----------------------
(***************************************************************************)
(* What DsaasReconcile guarantees for any number of calls, participants    *)
(* and administrators, and any bounds.  The argument: the snapshot of a    *)
(* call that is not stale is the record, so its generation is the current  *)
(* one; an answer such a call got from CaaS is the command of the current  *)
(* generation, in place, and nothing can displace it before the record is  *)
(* written again, because what is still on its way was sent under no later *)
(* generation.  A commit therefore reports what CaaS holds.  A suspended   *)
(* revocation needs more, since it outlives its generation: whatever is    *)
(* newer than it, in a call or on its way, is a suspension as well.        *)
(***************************************************************************)
EXTENDS DsaasReconcile, TLAPS

-----------------------------------------------------------------------------
(* The inductive invariant                                                 *)

Commanded  == {"ACTIVE", "SUSPENDED"}
Commanding == [Participants -> Commanded \cup {"NONE"}]
Answers    == [Participants -> States]

DsRecords ==
    [desired : Commanded, gen : Nat \ {0}, applied : Nat,
     pending : BOOLEAN, svc : Registry \cup {"NONE"},
     observed : {"PENDING", "RECONCILING", "BLOCKED", "ACTIVE", "SUSPENDED"},
     retry : {"none", "waiting", "over"}, check : {"due", "retry", "deadline", "never"}]

PartRecords ==
    [approval : {"ABSENT", "PENDING_APPROVAL", "APPROVED", "REAPPROVAL_REQUIRED"},
     seen : Nat, connector : States \ {"ERROR"},
     observed : States \cup {"PENDING_APPROVAL", "REVOKING"}, revoke : BOOLEAN]

Tenants   == [gen : Nat, desired : States, runs : States]
Views     == [gen : Nat, svc : Registry \cup {"NONE"}, ver : Nat, fail : SUBSET Participants,
              command : Commanding]
Messages  == [p : Participants, gen : Nat, command : Commanded]
Registers == [ver : Nat, valid : SUBSET Participants, up : BOOLEAN]
Places    == {"idle", "read", "revoke", "gate", "command"}

Typed ==
    /\ ds \in DsRecords /\ part \in [Participants -> PartRecords]
    /\ caas \in [Participants -> Tenants] /\ late \subseteq Messages
    /\ svc \in Registry /\ reg \in Registers
    /\ owner \in Calls \cup {Nobody} /\ stale \subseteq Calls
    /\ pc \in [Calls -> Places] /\ got \in [Calls -> Answers] /\ view \in [Calls -> Views]

\* Nothing that is on its way to CaaS is of a generation to come.
NothingFromTheFuture ==
    /\ \A m \in late : m.gen <= ds.gen
    /\ \A c \in Calls : view[c].gen <= ds.gen

\* A call that is not stale has the record, and the commands made of it.
SnapshotOf(c) ==
    /\ pc[c] \in {"revoke", "gate", "command"}
    /\ view[c].gen = ds.gen
    /\ Revoked \subseteq view[c].fail /\ view[c].fail \subseteq Checked
    /\ pc[c] # "revoke" => view[c].fail = Revoked
    /\ \A p \in Participants : view[c].command[p] =
          IF p \notin Checked THEN "NONE"
          ELSE IF p \in view[c].fail THEN "SUSPENDED" ELSE WantedState(p, view[c].svc)

SnapshotIsTheRecord == \A c \in Calls \ stale : SnapshotOf(c)

\* What CaaS answered to a call that is not stale is in place.
AnswersOf(c) ==
    /\ pc[c] # "command" => got[c] = Blank
    /\ \A p \in Participants : got[c][p] \in Commanded =>
          got[c][p] = view[c].command[p] /\ Holds(p, got[c][p])

AnswersAreInPlace == \A c \in Calls \ stale : AnswersOf(c)

\* What is newer than a suspended revocation suspends too.
SuspensionsStay ==
    \A p \in Revoked : ~part[p].revoke =>
        /\ \A m \in late : m.p = p /\ m.gen > caas[p].gen => m.command = "SUSPENDED"
        /\ \A c \in Calls : pc[c] = "command" /\ view[c].gen > caas[p].gen =>
              view[c].command[p] \in {"NONE", "SUSPENDED"}

IInv == /\ Typed /\ NothingFromTheFuture
        /\ SnapshotIsTheRecord /\ AnswersAreInPlace /\ SuspensionsStay
        /\ RestIsConverged /\ RevokedIsSuspended /\ AppliedIsTrue

-----------------------------------------------------------------------------
(* The values                                                              *)

\* A wanted state is one of the two that CaaS is commanded.
LEMMA WantedIsCommanded ==
    ASSUME NEW p \in Participants, NEW s
    PROVE  WantedState(p, s) \in Commanded
  BY WantsAssumption DEF WantedState, Commanded

\* The commands of a snapshot have their type.
LEMMA CommandsType ==
    ASSUME NEW fail, NEW s
    PROVE  Commands(fail, s) \in Commanding
<1>1. \A p \in Participants : WantedState(p, s) \in Commanded
  BY WantedIsCommanded
<1>q. QED BY <1>1 DEF Commands, Commanding, Commanded

\* The empty snapshot and the empty answers have their types.
LEMMA BlankTypes == NoView \in Views /\ Blank \in Answers /\ NoView.gen = 0
<1>1. Blank \in Answers /\ Blank \in Commanding
  BY DEF Blank, Answers, Commanding, States
<1>2. NoView = [gen |-> 0, svc |-> "NONE", ver |-> 0, fail |-> {}, command |-> Blank]
  BY DEF NoView
<1> HIDE DEF Blank
<1>q. QED BY <1>1, <1>2 DEF Views

\* A new generation is one later, due and pending.
LEMMA NextGenerationIs ==
    ASSUME NEW d \in DsRecords
    PROVE  LET n == NextGeneration(d) IN
           /\ n \in DsRecords
           /\ n.gen = d.gen + 1 /\ n.pending = TRUE /\ n.check = "due" /\ n.retry = "none"
           /\ n.desired = d.desired /\ n.svc = d.svc /\ n.applied = d.applied
<1>1. PICK n : n = [d EXCEPT !.gen = d.gen + 1, !.pending = TRUE, !.retry = "none", !.check = "due"]
  OBVIOUS
<1>2. NextGeneration(d) = n
  BY <1>1 DEF NextGeneration
<1>3. d.gen + 1 \in Nat \ {0}
  BY DEF DsRecords
<1>4. n \in DsRecords
  BY <1>1, <1>3 DEF DsRecords
<1>5. /\ n.gen = d.gen + 1 /\ n.check = "due" /\ n.retry = "none"
      /\ n.desired = d.desired /\ n.svc = d.svc /\ n.applied = d.applied
  BY <1>1 DEF DsRecords
<1>6. n.pending = TRUE
  BY <1>1, Zenon DEF DsRecords
<1>q. QED BY <1>2, <1>4, <1>5, <1>6

-----------------------------------------------------------------------------
(* The kinds of steps                                                      *)

\* Only deadlines pass: the record, CaaS and the calls stay.
Waits ==
    /\ UNCHANGED <<part, caas, late, pc, view, got, stale>>
    /\ ds' \in DsRecords
    /\ ds'.gen = ds.gen /\ ds'.desired = ds.desired /\ ds'.svc = ds.svc
    /\ ds'.applied = ds.applied /\ ds'.pending = ds.pending /\ ds'.observed = ds.observed
    /\ ds'.check \in {ds.check, "due"}

\* A writer outside the lock: a new generation, or an application.
Asks ==
    /\ UNCHANGED <<caas, late, pc, view, got>> /\ stale' = Calls
    /\ ds' \in DsRecords /\ part' \in [Participants -> PartRecords]
    /\ \/ ds'.gen = ds.gen + 1 /\ ds'.pending /\ ds'.check = "due"
       \/ ds' = ds /\ Approved' = Approved /\ Revoked' = Revoked
    /\ Revoked' \subseteq Revoked
    /\ \A p \in Revoked' : part'[p] = part[p]

\* A call gets or loses its place; it has no snapshot to rely on.
Moves(c) ==
    /\ UNCHANGED <<ds, part, caas, late>> /\ stale' = stale \cup {c}
    /\ \E l \in {"idle", "read"} : pc' = [pc EXCEPT ![c] = l]
    /\ view' = view \/ view' = [view EXCEPT ![c] = NoView]
    /\ got' = got \/ got' = [got EXCEPT ![c] = Blank]

\* What becomes of a tenant that gets no newer command, and of one that does.
Settles(p, t) ==
    /\ t.gen = caas[p].gen /\ t.desired = caas[p].desired
    /\ t.runs \in {caas[p].runs, caas[p].desired}

Takes(p, gen, command, t) ==
    /\ gen > caas[p].gen /\ t.gen = gen /\ t.desired = command
    /\ t.runs \in {caas[p].runs, command}

\* CaaS puts a tenant in place, or a late command arrives.
Arrives(p) ==
    /\ UNCHANGED <<ds, part, pc, view, got, stale>> /\ late' \subseteq late
    /\ \E t \in Tenants :
          /\ caas' = [caas EXCEPT ![p] = t]
          /\ \/ Settles(p, t)
             \/ \E m \in late : m.p = p /\ Takes(p, m.gen, m.command, t)

\* A call commands a participant and gets an answer, or gives up on it.
Tells(c, p) ==
    /\ pc[c] = "command" /\ view[c].command[p] \in Commanded
    /\ UNCHANGED <<ds, part, pc, view, stale>>
    /\ late' \subseteq late \cup
          {[p |-> p, gen |-> view[c].gen, command |-> view[c].command[p]]}
    /\ \E t \in Tenants, a \in States :
          /\ caas' = [caas EXCEPT ![p] = t]
          /\ Settles(p, t) \/ Takes(p, view[c].gen, view[c].command[p], t)
          /\ got' = [got EXCEPT ![c] = [got[c] EXCEPT ![p] = a]]
          /\ a \in Commanded => /\ a = view[c].command[p]
                                /\ t.gen = view[c].gen /\ t.desired = a /\ t.runs = a

\* A call takes the record for its snapshot.
Reads(c) ==
    /\ UNCHANGED <<ds, part, caas, late>> /\ stale' = stale \ {c}
    /\ pc[c] = "read"
    /\ \E l \in {"revoke", "gate", "command"}, v \in Views :
          /\ pc' = [pc EXCEPT ![c] = l] /\ view' = [view EXCEPT ![c] = v]
          /\ v.gen = ds.gen /\ Revoked \subseteq v.fail /\ v.fail \subseteq Checked
          /\ l # "revoke" => v.fail = Revoked
          /\ v.command = Commands(v.fail, v.svc)
    /\ got' = [got EXCEPT ![c] = Blank]

\* A call writes its transition down, which revokes what its snapshot found.
Prepares(c) ==
    /\ UNCHANGED <<caas, late, got>> /\ stale' = Calls \ {c}
    /\ c \notin stale /\ pc[c] \in {"revoke", "gate"}
    /\ ds' \in DsRecords /\ part' \in [Participants -> PartRecords]
    /\ ds'.gen = ds.gen + 1 /\ ds'.desired = ds.desired /\ ds'.pending /\ ds'.check = "due"
    /\ Checked' = Checked /\ Revoked' = view[c].fail
    /\ \A p \in Revoked' : part'[p] = part[p] \/ part'[p].revoke
    /\ pc' = [pc EXCEPT ![c] = "command"]
    /\ view' = [view EXCEPT ![c] = [view[c] EXCEPT !.gen = ds'.gen]]

\* A call is over and leaves the record to others.
Leaves(c) ==
    /\ UNCHANGED <<caas, late>> /\ stale' = Calls
    /\ ds' \in DsRecords /\ part' \in [Participants -> PartRecords]
    /\ ds'.gen = ds.gen /\ ds'.desired = ds.desired
    /\ Approved' = Approved /\ Revoked' = Revoked
    /\ pc' = [pc EXCEPT ![c] = "idle"] /\ view' = [view EXCEPT ![c] = NoView]
    /\ got' = [got EXCEPT ![c] = Blank]

GivesUp(c) == Leaves(c) /\ part' = part /\ ds'.pending /\ ds'.check = "due"

\* A commit reports what its answers say.
Reports(c) ==
    /\ Leaves(c) /\ c \notin stale /\ pc[c] = "command"
    /\ ds'.svc = view[c].svc
    /\ ~ds'.pending \/ (ds'.check \in {"deadline", "never"} /\ Revoked = {})
         => \A p \in Approved : got[c][p] = WantedState(p, view[c].svc)
    /\ \A p \in Revoked : ~part'[p].revoke => got[c][p] = "SUSPENDED"

\* Every step is of one of these kinds.
Kinds ==
    \/ Waits \/ Asks \/ \E p \in Participants : Arrives(p)
    \/ \E c \in Calls : \/ Moves(c) \/ Reads(c) \/ Prepares(c) \/ GivesUp(c) \/ Reports(c)
                        \/ \E p \in Participants : Tells(c, p)

-----------------------------------------------------------------------------
(* The actions are of these kinds                                          *)

\* The desired state, an application and an approval are asked for.
LEMMA SetDesiredStateAsks ==
    ASSUME Typed, NEW d \in Commanded, SetDesiredState(d)
    PROVE  Asks
<1>1. PICK n : n = NextGeneration(ds) OBVIOUS
<1>2. /\ n \in DsRecords /\ n.gen = ds.gen + 1 /\ n.pending = TRUE /\ n.check = "due"
  BY <1>1, NextGenerationIs DEF Typed
<1>3. ds' = [n EXCEPT !.desired = d, !.observed = "RECONCILING"] /\ part' = part /\ stale' = Calls
  BY <1>1 DEF SetDesiredState
<1>4. /\ ds' \in DsRecords /\ ds'.gen = n.gen /\ ds'.pending = n.pending /\ ds'.check = n.check
  BY <1>2, <1>3 DEF DsRecords
<1>5. Revoked' = Revoked
  BY <1>3 DEF Revoked
<1>q. QED BY <1>2, <1>3, <1>4, <1>5 DEF Asks, Typed, SetDesiredState, world, call

LEMMA SubmitParticipantAsks ==
    ASSUME Typed, NEW p \in Participants, SubmitParticipant(p)
    PROVE  Asks
<1>1. part \in [Participants -> PartRecords] /\ part[p] \in PartRecords
  BY DEF Typed
<1>2. PICK r : r = [part[p] EXCEPT !.approval = "PENDING_APPROVAL", !.observed = "PENDING_APPROVAL"]
  OBVIOUS
<1>3. r \in PartRecords /\ r.approval = "PENDING_APPROVAL"
  BY <1>1, <1>2 DEF PartRecords
<1>4. part' = [part EXCEPT ![p] = r]
  BY <1>2 DEF SubmitParticipant
<1>5. part[p].approval = "ABSENT" /\ UNCHANGED ds /\ stale' = Calls
  BY DEF SubmitParticipant
<1>6. part' \in [Participants -> PartRecords]
  BY <1>1, <1>3, <1>4
<1>7. \A o \in Participants : part'[o] = IF o = p THEN r ELSE part[o]
  BY <1>1, <1>4
<1>8. Approved' = Approved /\ Revoked' = Revoked /\ \A o \in Revoked : part'[o] = part[o]
  BY <1>3, <1>5, <1>7 DEF Approved, Revoked
<1>q. QED BY <1>5, <1>6, <1>8 DEF Asks, Typed, SubmitParticipant, world, call

LEMMA ApproveParticipantAsks ==
    ASSUME Typed, NEW p \in Participants, NEW a \in Admins, ApproveParticipant(p, a)
    PROVE  Asks
<1>1. part \in [Participants -> PartRecords] /\ part[p] \in PartRecords /\ reg.ver \in Nat
  BY DEF Typed, Registers
<1>2. PICK r : r = [part[p] EXCEPT !.approval = "APPROVED", !.seen = reg.ver,
                                   !.observed = "PROVISIONING", !.revoke = FALSE]
  OBVIOUS
<1>3. r \in PartRecords /\ r.approval = "APPROVED"
  BY <1>1, <1>2 DEF PartRecords, States
<1>4. part' = [part EXCEPT ![p] = r]
  BY <1>2 DEF ApproveParticipant
<1>5. part' \in [Participants -> PartRecords]
  BY <1>1, <1>3, <1>4
<1>6. \A o \in Participants : part'[o] = IF o = p THEN r ELSE part[o]
  BY <1>1, <1>4
<1>7. Revoked' \subseteq Revoked /\ \A o \in Revoked' : part'[o] = part[o]
  BY <1>3, <1>6 DEF Revoked
<1>8. PICK n : n = NextGeneration(ds) OBVIOUS
<1>9. n \in DsRecords /\ n.gen = ds.gen + 1 /\ n.pending = TRUE /\ n.check = "due"
  BY <1>8, NextGenerationIs DEF Typed
<1>10. ds' = [n EXCEPT !.observed = "RECONCILING"] /\ stale' = Calls
  BY <1>8 DEF ApproveParticipant
<1>11. ds' \in DsRecords /\ ds'.gen = n.gen /\ ds'.pending = n.pending /\ ds'.check = n.check
  BY <1>9, <1>10 DEF DsRecords
<1>q. QED BY <1>5, <1>7, <1>9, <1>10, <1>11 DEF Asks, Typed, ApproveParticipant, world, call

\* Time, the registries and the lease leave everything but a deadline alone.
LEMMA RestWaits ==
    ASSUME Typed
    PROVE  /\ \A s \in Registry : ServiceRegistryChanges(s) => Waits
           /\ \A valid \in SUBSET Participants, up \in BOOLEAN :
                 ApprovalRegistryChanges(valid, up) => Waits
           /\ \A p \in Participants : DecisionExpires(p) => Waits
           /\ RetryTimePasses \/ DeadlinePasses \/ LeaseLost => Waits
           /\ UNCHANGED vars => Waits
<1>1. ds \in DsRecords BY DEF Typed
<1> USE DEF Waits, record, world, call, lease
<1>2. ASSUME NEW s \in Registry, ServiceRegistryChanges(s) PROVE Waits
  BY <1>1, <1>2 DEF ServiceRegistryChanges
<1>3. ASSUME NEW valid \in SUBSET Participants, NEW up \in BOOLEAN, ApprovalRegistryChanges(valid, up)
      PROVE Waits
  BY <1>1, <1>3 DEF ApprovalRegistryChanges
<1>4. ASSUME NEW p \in Participants, DecisionExpires(p) PROVE Waits
  <2>1. ds' = ds \/ ds' = [ds EXCEPT !.check = "due"]
    BY <1>4 DEF DecisionExpires
  <2>2. UNCHANGED <<part, caas, late, pc, view, got, stale>>
    BY <1>4 DEF DecisionExpires
  <2>q. QED BY <1>1, <2>1, <2>2 DEF DsRecords
<1>5. ASSUME RetryTimePasses PROVE Waits
  <2>1. PICK r : r = IF ds.retry = "waiting" THEN "over" ELSE ds.retry OBVIOUS
  <2>2. PICK k : k = IF ds.check = "retry" THEN "due" ELSE ds.check OBVIOUS
  <2>3. ds' = [ds EXCEPT !.retry = r, !.check = k]
    BY <1>5, <2>1, <2>2 DEF RetryTimePasses
  <2>4. UNCHANGED <<part, caas, late, pc, view, got, stale>>
    BY <1>5 DEF RetryTimePasses
  <2>5. r \in {"none", "waiting", "over"} /\ k \in {ds.check, "due"}
    BY <1>1, <2>1, <2>2 DEF DsRecords
  <2>q. QED BY <1>1, <2>3, <2>4, <2>5 DEF DsRecords
<1>6. ASSUME DeadlinePasses PROVE Waits
  <2>1. ds' = [ds EXCEPT !.check = "due"] /\ UNCHANGED <<part, caas, late, pc, view, got, stale>>
    BY <1>6 DEF DeadlinePasses
  <2>q. QED BY <1>1, <2>1 DEF DsRecords
<1>7. ASSUME LeaseLost PROVE Waits
  BY <1>1, <1>7 DEF LeaseLost
<1>8. ASSUME UNCHANGED vars PROVE Waits
  BY <1>1, <1>8 DEF vars
<1>q. QED BY <1>2, <1>3, <1>4, <1>5, <1>6, <1>7, <1>8

\* A tenant of the right type stays one when it accepts a command.
LEMMA AcceptIs ==
    ASSUME Typed, NEW p \in Participants, NEW gen \in Nat, NEW command \in Commanded
    PROVE  \E t \in Tenants :
              /\ Accept(p, gen, command) = [caas EXCEPT ![p] = t]
              /\ t.runs = caas[p].runs
              /\ IF gen > caas[p].gen THEN t.gen = gen /\ t.desired = command
                 ELSE t.gen = caas[p].gen /\ t.desired = caas[p].desired
<1>1. caas \in [Participants -> Tenants] /\ caas[p] \in Tenants /\ command \in States
  BY DEF Typed, Commanded, States
<1>2. CASE gen > caas[p].gen
  <2>1. PICK t : t = [caas[p] EXCEPT !.gen = gen, !.desired = command] OBVIOUS
  <2>2. t \in Tenants /\ t.runs = caas[p].runs /\ t.gen = gen /\ t.desired = command
    BY <1>1, <2>1 DEF Tenants
  <2>3. Accept(p, gen, command) = [caas EXCEPT ![p] = t]
    BY <1>1, <1>2, <2>1 DEF Accept, Newer
  <2>q. QED BY <1>2, <2>2, <2>3
<1>3. CASE ~(gen > caas[p].gen)
  <2>1. Accept(p, gen, command) = [caas EXCEPT ![p] = caas[p]]
    BY <1>1, <1>3 DEF Accept, Newer
  <2>q. QED BY <1>1, <1>3, <2>1
<1>q. QED BY <1>2, <1>3

LEMMA CaasWorksArrives ==
    ASSUME Typed, NEW p \in Participants, CaasWorks(p)
    PROVE  Arrives(p)
<1>1. caas \in [Participants -> Tenants] /\ caas[p] \in Tenants
  BY DEF Typed
<1>2. PICK t : t = [caas[p] EXCEPT !.runs = caas[p].desired] OBVIOUS
<1>3. t \in Tenants /\ t.gen = caas[p].gen /\ t.desired = caas[p].desired /\ t.runs = caas[p].desired
  BY <1>1, <1>2 DEF Tenants
<1>4. caas' = [caas EXCEPT ![p] = t]
  BY <1>1, <1>2 DEF CaasWorks
<1>5. UNCHANGED <<ds, part, pc, view, got, stale, late>>
  BY DEF CaasWorks, record, call
<1>q. QED BY <1>3, <1>4, <1>5 DEF Arrives, Settles

LEMMA LateArrivesArrives ==
    ASSUME Typed, NEW m \in late, LateArrives(m)
    PROVE  \E p \in Participants : Arrives(p)
<1>1. m \in Messages /\ m.p \in Participants /\ m.gen \in Nat /\ m.command \in Commanded
  BY DEF Typed, Messages
<1>a. PICK p : p = m.p OBVIOUS
<1>b. PICK gen : gen = m.gen OBVIOUS
<1>c. PICK command : command = m.command OBVIOUS
<1>d. p \in Participants /\ gen \in Nat /\ command \in Commanded
  BY <1>1, <1>a, <1>b, <1>c
<1>2. PICK t \in Tenants :
         /\ Accept(p, gen, command) = [caas EXCEPT ![p] = t] /\ t.runs = caas[p].runs
         /\ IF gen > caas[p].gen THEN t.gen = gen /\ t.desired = command
            ELSE t.gen = caas[p].gen /\ t.desired = caas[p].desired
  BY <1>d, AcceptIs
<1>3. caas' = [caas EXCEPT ![p] = t] /\ late' \subseteq late
  BY <1>a, <1>b, <1>c, <1>2 DEF LateArrives
<1>4. UNCHANGED <<ds, part, pc, view, got, stale>>
  BY DEF LateArrives, record, call
<1>5. Settles(p, t) \/ Takes(p, gen, command, t)
  BY <1>2 DEF Settles, Takes
<1>q. QED BY <1>a, <1>b, <1>c, <1>d, <1>3, <1>4, <1>5 DEF Arrives

\* A command that is still to be sent is one of the two.
LEMMA TodoIs ==
    ASSUME Typed, NEW c \in Calls, NEW p \in Todo(c)
    PROVE  /\ p \in Participants /\ view[c].command[p] \in Commanded /\ view[c].gen \in Nat
           /\ got[c] \in Answers
<1>1. view[c] \in Views /\ got[c] \in Answers BY DEF Typed
<1>2. view[c].command \in Commanding /\ view[c].gen \in Nat BY <1>1 DEF Views
<1>q. QED BY <1>1, <1>2 DEF Todo, Commanding, Commanded

LEMMA CommandTells ==
    ASSUME Typed, NEW c \in Calls, NEW p \in Participants, Command(c, p)
    PROVE  Tells(c, p)
<1>1. PICK gen : gen = view[c].gen OBVIOUS
<1>2. PICK command : command = view[c].command[p] OBVIOUS
<1>3. pc[c] = "command" /\ p \in Todo(c)
  BY DEF Command
<1>4. gen \in Nat /\ command \in Commanded /\ got[c] \in Answers
  BY <1>1, <1>2, <1>3, TodoIs
<1>5. caas \in [Participants -> Tenants] /\ caas[p] \in Tenants /\ got \in [Calls -> Answers]
  BY DEF Typed
<1>6. PICK a \in IF Newer(p, gen) THEN {"PROVISIONING", command}
                 ELSE IF ~Same(p, gen, command) THEN {"ERROR"}
                 ELSE IF InPlace(p) THEN {command} ELSE {"PROVISIONING"} :
         /\ got' = [got EXCEPT ![c][p] = a]
         /\ caas' = [Accept(p, gen, command) EXCEPT ![p].runs = IF a = command THEN a ELSE @]
  BY <1>1, <1>2 DEF Command
<1>7. PICK u \in Tenants :
         /\ Accept(p, gen, command) = [caas EXCEPT ![p] = u] /\ u.runs = caas[p].runs
         /\ IF gen > caas[p].gen THEN u.gen = gen /\ u.desired = command
            ELSE u.gen = caas[p].gen /\ u.desired = caas[p].desired
  BY <1>4, AcceptIs
<1>8. PICK t : t = [u EXCEPT !.runs = IF a = command THEN a ELSE u.runs] OBVIOUS
<1>9. /\ t \in Tenants /\ t.gen = u.gen /\ t.desired = u.desired
      /\ t.runs = IF a = command THEN a ELSE u.runs
  BY <1>4, <1>8 DEF Tenants, Commanded, States
<1>10. caas' = [caas EXCEPT ![p] = t]
  BY <1>5, <1>6, <1>7, <1>8
<1>11. a \in States
  BY <1>4, <1>6 DEF States, Commanded
<1>12. a \in Commanded => a = command
  BY <1>4, <1>6 DEF Commanded
<1>13. a = command => /\ t.gen = gen /\ t.desired = a /\ t.runs = a
                      /\ gen > caas[p].gen \/ caas[p].runs = command
  BY <1>4, <1>6, <1>7, <1>9 DEF Newer, Same, InPlace, Commanded
<1>14. Settles(p, t) \/ Takes(p, gen, command, t)
  BY <1>7, <1>9, <1>13 DEF Settles, Takes
<1>15. got' = [got EXCEPT ![c] = [got[c] EXCEPT ![p] = a]]
  BY <1>5, <1>6
<1>16. UNCHANGED <<ds, part, pc, view, stale, late>>
  BY DEF Command, record
<1>q. QED
  BY <1>1, <1>2, <1>3, <1>4, <1>9, <1>10, <1>11, <1>12, <1>13, <1>14, <1>15, <1>16 DEF Tells

LEMMA CommandFailsTells ==
    ASSUME Typed, NEW c \in Calls, NEW p \in Participants, CommandFails(c, p)
    PROVE  Tells(c, p)
<1>1. PICK gen : gen = view[c].gen OBVIOUS
<1>2. PICK command : command = view[c].command[p] OBVIOUS
<1>3. pc[c] = "command" /\ p \in Todo(c)
  BY DEF CommandFails
<1>4. gen \in Nat /\ command \in Commanded /\ got[c] \in Answers
  BY <1>1, <1>2, <1>3, TodoIs
<1>5. caas \in [Participants -> Tenants] /\ caas[p] \in Tenants /\ got \in [Calls -> Answers]
  BY DEF Typed
<1>6. \/ caas' = Accept(p, gen, command) /\ late' = late
      \/ late' = late \cup {[p |-> p, gen |-> gen, command |-> command]} /\ caas' = caas
  BY <1>1, <1>2 DEF CommandFails
<1>7. PICK t \in Tenants : caas' = [caas EXCEPT ![p] = t] /\ (Settles(p, t) \/ Takes(p, gen, command, t))
  <2>1. CASE caas' = Accept(p, gen, command)
    BY <1>4, <2>1, AcceptIs DEF Settles, Takes
  <2>2. CASE caas' = caas
    <3>1. caas' = [caas EXCEPT ![p] = caas[p]] BY <1>5, <2>2
    <3>q. QED BY <1>5, <3>1 DEF Settles
  <2>q. QED BY <1>6, <2>1, <2>2
<1>8. "ERROR" \in States /\ "ERROR" \notin Commanded
  BY DEF States, Commanded
<1>9. got' = [got EXCEPT ![c] = [got[c] EXCEPT ![p] = "ERROR"]]
  BY <1>5 DEF CommandFails
<1>10. UNCHANGED <<ds, part, pc, view, stale>>
  BY DEF CommandFails, record
<1>q. QED BY <1>1, <1>2, <1>3, <1>4, <1>6, <1>7, <1>8, <1>9, <1>10 DEF Tells

\* A call takes a free place, which is stale like every place without a snapshot.
LEMMA BeginMoves ==
    ASSUME Typed, SnapshotIsTheRecord, NEW m \in Modes, Begin(m)
    PROVE  \E c \in Calls : Moves(c)
<1>1. \E d \in Calls : pc[d] = "idle"
  BY DEF Begin
<1>2. FreeSlot \in Calls /\ pc[FreeSlot] = "idle"
  BY <1>1, Zenon DEF FreeSlot
<1>3. PICK c \in Calls : c = FreeSlot /\ pc[c] = "idle"
  BY <1>2
<1>4. pc' = [pc EXCEPT ![c] = "read"] /\ UNCHANGED <<record, world, view, got, stale>>
  BY <1>3 DEF Begin
<1>5. c \in stale
  BY <1>3 DEF SnapshotIsTheRecord, SnapshotOf
<1>q. QED BY <1>4, <1>5 DEF Moves, record, world

\* A call over forgets what it had.
LEMMA LeaveIs ==
    ASSUME NEW c \in Calls, Leave(c)
    PROVE  /\ pc' = [pc EXCEPT ![c] = "idle"] /\ view' = [view EXCEPT ![c] = NoView]
           /\ got' = [got EXCEPT ![c] = Blank]
  BY DEF Leave

LEMMA StopMoves ==
    ASSUME NEW c \in Calls, Stop(c) \/ Fenced(c) \/ Supersede(c)
    PROVE  Moves(c)
<1>1. CASE Stop(c)
  BY <1>1, LeaveIs DEF Stop, Moves, record, world
<1>2. CASE Fenced(c)
  BY <1>2, LeaveIs DEF Fenced, Moves, record, world
<1>3. CASE Supersede(c)
  <2>1. stale' = stale \cup {c}
    BY <1>3 DEF Supersede
  <2>q. QED BY <1>3, <2>1 DEF Supersede, Moves, record, world
<1>q. QED BY <1>1, <1>2, <1>3

\* What fails the approval checks has been checked, and a revocation fails them.
LEMMA FailuresAre ==
    Revoked \subseteq Failures /\ Failures \subseteq Checked /\ Failures \subseteq Participants
  BY DEF Failures, Checked, Revoked, Approved

LEMMA ReadReads ==
    ASSUME Typed, NEW c \in Calls, Read(c)
    PROVE  Moves(c) \/ Reads(c)
<1>1. UNCHANGED <<ds, part, caas, late>> /\ pc[c] = "read"
  BY DEF Read, record, world
<1>2. CASE mode[c] = "scheduled" /\ NothingToDo
  <2>1. Leave(c) /\ stale' = stale \cup {c}
    BY <1>2 DEF Read
  <2>q. QED BY <1>1, <2>1, LeaveIs DEF Moves
<1>3. CASE ~(mode[c] = "scheduled" /\ NothingToDo)
  <2>1. PICK fail : fail = Failures OBVIOUS
  <2>2. PICK l : l = IF Failures \subseteq Revoked
                     THEN IF ServiceTransition THEN "gate" ELSE "command" ELSE "revoke"
    OBVIOUS
  <2>3. PICK command : command = Commands(fail, svc) OBVIOUS
  <2>4. PICK v : v = [gen |-> ds.gen, svc |-> svc, ver |-> reg.ver, fail |-> fail,
                      command |-> command]
    OBVIOUS
  <2>5. /\ view' = [view EXCEPT ![c] = v] /\ pc' = [pc EXCEPT ![c] = l]
        /\ got' = [got EXCEPT ![c] = Blank] /\ stale' = stale \ {c}
    BY <1>3, <2>1, <2>2, <2>3, <2>4 DEF Read
  <2>6. ds.gen \in Nat /\ svc \in Registry /\ reg.ver \in Nat /\ fail \subseteq Participants
    BY <2>1, FailuresAre DEF Typed, DsRecords, Registers
  <2>7. command \in Commanding
    BY <2>3, CommandsType
  <2>8. v \in Views
    BY <2>4, <2>6, <2>7 DEF Views
  <2>9. v.gen = ds.gen /\ v.fail = fail /\ v.command = Commands(v.fail, v.svc)
    BY <2>3, <2>4
  <2>10. Revoked \subseteq v.fail /\ v.fail \subseteq Checked
    BY <2>1, <2>9, FailuresAre
  <2>11. l \in {"revoke", "gate", "command"} /\ (l # "revoke" => v.fail = Revoked)
    BY <2>1, <2>2, <2>9, FailuresAre
  <2>q. QED BY <1>1, <2>5, <2>8, <2>9, <2>10, <2>11 DEF Reads
<1>q. QED BY <1>2, <1>3

\* A call that writes has the snapshot of the record.
LEMMA WritesIs ==
    ASSUME Typed, SnapshotIsTheRecord, NEW c \in Calls, NEW l, Writes(c, l)
    PROVE  /\ c \in Calls \ stale /\ pc[c] = l /\ (l = "command" => Todo(c) = {})
           /\ view[c] \in Views /\ got[c] \in Answers /\ view[c].gen = ds.gen
           /\ Revoked \subseteq view[c].fail /\ view[c].fail \subseteq Checked
           /\ l # "revoke" => view[c].fail = Revoked
           /\ view[c].fail \subseteq Participants /\ view[c].svc \in Registry \cup {"NONE"}
           /\ view[c].ver \in Nat /\ view[c].command \in Commanding
<1>1. c \in Calls \ stale /\ pc[c] = l /\ (l = "command" => Todo(c) = {})
  BY DEF Writes, Transacts
<1>2. view[c] \in Views /\ got[c] \in Answers
  BY DEF Typed
<1>3. /\ view[c].fail \subseteq Participants /\ view[c].svc \in Registry \cup {"NONE"}
      /\ view[c].ver \in Nat /\ view[c].command \in Commanding
  BY <1>2 DEF Views
<1>q. QED BY <1>1, <1>2, <1>3 DEF SnapshotIsTheRecord, SnapshotOf

\* The snapshot of a prepared transition.
LEMMA PreparedIs ==
    ASSUME Typed, NEW c \in Calls, Prepared(c)
    PROVE  /\ UNCHANGED <<caas, late, got>> /\ stale' = Calls \ {c}
           /\ pc' = [pc EXCEPT ![c] = "command"]
           /\ view' = [view EXCEPT ![c] = [view[c] EXCEPT !.gen = ds'.gen]]
<1>1. PICK g : g = ds'.gen OBVIOUS
<1>2. view' = [view EXCEPT ![c].gen = g]
  BY <1>1 DEF Prepared
<1>3. view' = [view EXCEPT ![c] = [view[c] EXCEPT !.gen = g]]
  BY <1>2 DEF Typed
<1>q. QED BY <1>1, <1>3 DEF Prepared, world

LEMMA PrepareRevocationPrepares ==
    ASSUME Typed, SnapshotIsTheRecord, NEW c \in Calls, PrepareRevocation(c)
    PROVE  Prepares(c)
<1>1. Writes(c, "revoke") /\ Prepared(c)
  BY DEF PrepareRevocation
<1>2. PICK fail : fail = view[c].fail OBVIOUS
<1>3. PICK s : s = view[c].svc OBVIOUS
<1>4. /\ c \in Calls \ stale /\ pc[c] = "revoke" /\ fail \subseteq Participants
      /\ s \in Registry \cup {"NONE"} /\ Revoked \subseteq fail /\ fail \subseteq Checked
  BY <1>1, <1>2, <1>3, WritesIs
<1>5. part \in [Participants -> PartRecords] BY DEF Typed
<1>6. part' = [p \in Participants |-> IF p \in fail
                  THEN [part[p] EXCEPT !.approval = "REAPPROVAL_REQUIRED", !.connector = "NONE",
                                       !.observed = "REVOKING", !.revoke = TRUE]
                  ELSE part[p]]
  BY <1>2 DEF PrepareRevocation
<1>7. ASSUME NEW p \in fail
      PROVE  /\ part'[p] \in PartRecords /\ part'[p].approval = "REAPPROVAL_REQUIRED"
             /\ part'[p].revoke
  <2>1. part[p] \in PartRecords /\ p \in Participants BY <1>4, <1>5
  <2>2. PICK r : r = [part[p] EXCEPT !.approval = "REAPPROVAL_REQUIRED", !.connector = "NONE",
                                     !.observed = "REVOKING", !.revoke = TRUE]
    OBVIOUS
  <2>3. part'[p] = r
    BY <1>6, <2>1, <2>2
  <2>4. r \in PartRecords /\ r.approval = "REAPPROVAL_REQUIRED"
    BY <2>1, <2>2 DEF PartRecords, States
  <2>5. r.revoke = TRUE
    BY <2>1, <2>2, Zenon DEF PartRecords
  <2>q. QED BY <2>3, <2>4, <2>5
<1>8. \A p \in Participants \ fail : part'[p] = part[p]
  BY <1>6
<1>9. part' \in [Participants -> PartRecords]
  <2>1. \A p \in Participants : part'[p] \in PartRecords
    BY <1>5, <1>7, <1>8
  <2>2. part' = [p \in Participants |-> part'[p]]
    BY <1>6
  <2>q. QED BY <2>1, <2>2
<1>10. Revoked' = fail
  BY <1>4, <1>7, <1>8 DEF Revoked
<1>11. Checked' = Checked
  <2>1. Approved' = Approved \ fail
    BY <1>4, <1>7, <1>8 DEF Approved
  <2>q. QED BY <1>4, <1>10, <2>1 DEF Checked, Approved, Revoked
<1>12. \A p \in Revoked' : part'[p] = part[p] \/ part'[p].revoke
  BY <1>7, <1>10
<1>13. PICK n : n = NextGeneration(ds) OBVIOUS
<1>14. /\ n \in DsRecords /\ n.gen = ds.gen + 1 /\ n.pending = TRUE /\ n.check = "due"
       /\ n.desired = ds.desired
  BY <1>13, NextGenerationIs DEF Typed
<1>15. ds' = [n EXCEPT !.observed = "BLOCKED", !.svc = s]
  BY <1>3, <1>13 DEF PrepareRevocation
<1>16. /\ ds' \in DsRecords /\ ds'.gen = n.gen /\ ds'.pending = n.pending /\ ds'.check = n.check
       /\ ds'.desired = n.desired
  BY <1>4, <1>14, <1>15 DEF DsRecords
<1>q. QED
  BY <1>1, <1>2, <1>4, <1>9, <1>10, <1>11, <1>12, <1>14, <1>16, PreparedIs DEF Prepares

LEMMA PrepareServicesPrepares ==
    ASSUME Typed, SnapshotIsTheRecord, NEW c \in Calls, PrepareServices(c)
    PROVE  Prepares(c)
<1>1. Writes(c, "gate") /\ Prepared(c) /\ part' = part
  BY DEF PrepareServices
<1>2. PICK s : s = view[c].svc OBVIOUS
<1>3. /\ c \in Calls \ stale /\ pc[c] = "gate" /\ s \in Registry \cup {"NONE"}
      /\ view[c].fail = Revoked
  BY <1>1, <1>2, WritesIs
<1>4. Checked' = Checked /\ Revoked' = Revoked
  BY <1>1 DEF Checked, Approved, Revoked
<1>5. PICK n : n = NextGeneration(ds) OBVIOUS
<1>6. /\ n \in DsRecords /\ n.gen = ds.gen + 1 /\ n.pending = TRUE /\ n.check = "due"
      /\ n.desired = ds.desired
  BY <1>5, NextGenerationIs DEF Typed
<1>7. PICK o : o = IF Ready(s) THEN "RECONCILING" ELSE "BLOCKED" OBVIOUS
<1>8. ds' = [n EXCEPT !.svc = s, !.observed = o]
  BY <1>2, <1>5, <1>7 DEF PrepareServices
<1>9. /\ ds' \in DsRecords /\ ds'.gen = n.gen /\ ds'.pending = n.pending /\ ds'.check = n.check
      /\ ds'.desired = n.desired
  BY <1>3, <1>6, <1>7, <1>8 DEF DsRecords
<1>q. QED BY <1>1, <1>3, <1>4, <1>6, <1>9, PreparedIs DEF Prepares, Typed

\* A call that gives up leaves the record pending and due.
LEMMA GiveUpGivesUp ==
    ASSUME Typed, NEW c \in Calls, GiveUp(c)
    PROVE  GivesUp(c)
<1>1. Leave(c) /\ part' = part /\ stale' = Calls /\ UNCHANGED <<caas, late>>
  BY DEF GiveUp, world
<1>2. ds' = [ds EXCEPT !.pending = TRUE, !.observed = "RECONCILING", !.check = "due"]
  BY DEF GiveUp
<1>3. ds \in DsRecords /\ part \in [Participants -> PartRecords] BY DEF Typed
<1>4. ds' \in DsRecords /\ ds'.gen = ds.gen /\ ds'.desired = ds.desired /\ ds'.check = "due"
  BY <1>2, <1>3 DEF DsRecords
<1>5. ds'.pending = TRUE
  BY <1>2, <1>3, Zenon DEF DsRecords
<1>6. Approved' = Approved /\ Revoked' = Revoked
  BY <1>1 DEF Approved, Revoked
<1>q. QED BY <1>1, <1>3, <1>4, <1>5, <1>6, LeaveIs DEF GivesUp, Leaves

\* The participant after its observation.
LEMMA ObservedIs ==
    ASSUME Typed, NEW c \in Calls, NEW p \in Participants,
           view[c] \in Views, got[c] \in Answers, got[c][p] # "NONE"
    PROVE  /\ Observed(c, p) \in PartRecords
           /\ Observed(c, p).approval = IF p \in view[c].fail THEN "REAPPROVAL_REQUIRED"
                                        ELSE part[p].approval
           /\ Observed(c, p).revoke <=> (p \in view[c].fail /\ got[c][p] # "SUSPENDED")
           /\ p \notin view[c].fail => Observed(c, p).observed = got[c][p]
<1>1. PICK a : a = got[c][p] OBVIOUS
<1>2. a \in States \ {"NONE"} /\ part[p] \in PartRecords /\ view[c].ver \in Nat
  BY <1>1 DEF Answers, Typed, Views
<1>3. PICK base : base = IF p \in view[c].fail
                         THEN [part[p] EXCEPT !.approval = "REAPPROVAL_REQUIRED"]
                         ELSE [part[p] EXCEPT !.seen = view[c].ver]
  OBVIOUS
<1>4. /\ base \in PartRecords
      /\ base.approval = IF p \in view[c].fail THEN "REAPPROVAL_REQUIRED" ELSE part[p].approval
  BY <1>2, <1>3 DEF PartRecords
<1>5. PICK state : state = IF p \in view[c].fail /\ a = "PROVISIONING" THEN "REVOKING" ELSE a
  OBVIOUS
<1>6. PICK k : k = IF a = "ERROR" THEN "NONE" ELSE a OBVIOUS
<1>7. PICK r \in BOOLEAN : r <=> (p \in view[c].fail /\ a # "SUSPENDED") OBVIOUS
<1>8. r = (p \in view[c].fail /\ a # "SUSPENDED") BY <1>7
<1>9. Observed(c, p) = [base EXCEPT !.connector = k, !.observed = state, !.revoke = r]
  BY <1>1, <1>2, <1>3, <1>5, <1>6, <1>8, Zenon DEF Observed
<1>10. k \in States \ {"ERROR"} /\ state \in States \cup {"REVOKING"}
  BY <1>2, <1>5, <1>6 DEF States
<1>11. /\ Observed(c, p) \in PartRecords /\ Observed(c, p).approval = base.approval
       /\ Observed(c, p).observed = state
  BY <1>4, <1>7, <1>9, <1>10 DEF PartRecords
<1>12. Observed(c, p).revoke = r
  BY <1>4, <1>9, Zenon DEF PartRecords
<1>q. QED BY <1>1, <1>4, <1>5, <1>7, <1>11, <1>12

LEMMA CommitReports ==
    ASSUME Typed, SnapshotIsTheRecord, NEW c \in Calls, Commit(c)
    PROVE  Reports(c)
<1>1. Writes(c, "command") /\ Leave(c) /\ stale' = Calls /\ UNCHANGED <<caas, late>>
  BY DEF Commit, world
<1>2. PICK fail : fail = view[c].fail OBVIOUS
<1>3. PICK s : s = view[c].svc OBVIOUS
<1>4. PICK after : after = [p \in Participants |-> Observed(c, p)] OBVIOUS
<1>5. /\ c \in Calls \ stale /\ pc[c] = "command" /\ Todo(c) = {} /\ fail = Revoked
      /\ view[c] \in Views /\ got[c] \in Answers /\ s \in Registry \cup {"NONE"}
      /\ view[c].gen = ds.gen
  BY <1>1, <1>2, <1>3, WritesIs
<1>6. part' = after
  BY <1>4 DEF Commit
<1>7. part \in [Participants -> PartRecords] /\ ds \in DsRecords BY DEF Typed
<1>8. ASSUME NEW p \in Participants
      PROVE  /\ after[p] \in PartRecords /\ after[p].approval = part[p].approval
             /\ p \in Checked => got[c][p] # "NONE"
  <2>1. CASE got[c][p] = "NONE"
    <3>1. after[p] = part[p]
      BY <1>4, <2>1 DEF Observed
    <3>2. view[c].command[p] = "NONE"
      BY <1>5, <2>1 DEF Todo
    <3>3. p \notin Checked
      <4>1. view[c].command[p] = IF p \notin Checked THEN "NONE"
                  ELSE IF p \in view[c].fail THEN "SUSPENDED" ELSE WantedState(p, view[c].svc)
        BY <1>5 DEF SnapshotIsTheRecord, SnapshotOf
      <4>2. WantedState(p, view[c].svc) # "NONE"
        BY WantedIsCommanded DEF Commanded
      <4>q. QED BY <3>2, <4>1, <4>2
    <3>q. QED BY <1>7, <3>1, <3>3
  <2>2. CASE got[c][p] # "NONE"
    <3>1. after[p] = Observed(c, p) BY <1>4
    <3>2. p \in fail => part[p].approval = "REAPPROVAL_REQUIRED"
      BY <1>5 DEF Revoked
    <3>3. /\ Observed(c, p) \in PartRecords
          /\ Observed(c, p).approval = IF p \in fail THEN "REAPPROVAL_REQUIRED"
                                       ELSE part[p].approval
      BY <1>2, <1>5, <2>2, ObservedIs
    <3>q. QED BY <2>2, <3>1, <3>2, <3>3
  <2>q. QED BY <2>1, <2>2
<1>9. part' \in [Participants -> PartRecords]
  BY <1>4, <1>6, <1>8
<1>10. Approved' = Approved /\ Revoked' = Revoked
  BY <1>6, <1>8 DEF Approved, Revoked
<1>11. ASSUME NEW p \in Revoked, ~part'[p].revoke PROVE got[c][p] = "SUSPENDED"
  <2>1. p \in Participants /\ p \in Checked /\ p \in view[c].fail
    BY <1>2, <1>5 DEF Checked, Revoked
  <2>2. got[c][p] # "NONE" /\ part'[p] = Observed(c, p)
    BY <1>4, <1>6, <1>8, <2>1
  <2>q. QED BY <1>5, <1>11, <2>1, <2>2, ObservedIs
<1>12. PICK converged \in BOOLEAN :
          converged <=> \A p \in Approved \ fail : after[p].observed = WantedState(p, s)
  OBVIOUS
<1>13. converged = \A p \in Approved \ fail : after[p].observed = WantedState(p, s)
  BY <1>12
<1>14. converged => \A p \in Approved : got[c][p] = WantedState(p, s)
  <2> SUFFICES ASSUME converged, NEW p \in Approved PROVE got[c][p] = WantedState(p, s)
    OBVIOUS
  <2>1. p \in Participants /\ p \in Checked /\ p \notin fail
    BY <1>5 DEF Checked, Approved, Revoked
  <2>2. got[c][p] # "NONE" /\ after[p] = Observed(c, p)
    BY <1>4, <1>8, <2>1
  <2>3. after[p].observed = got[c][p]
    BY <1>2, <1>5, <2>1, <2>2, ObservedIs
  <2>4. after[p].observed = WantedState(p, s)
    BY <1>12, <2>1
  <2>q. QED BY <2>3, <2>4
<1>15. PICK reached \in BOOLEAN :
          reached = (fail = {} /\ converged /\ (ds.desired = "SUSPENDED" \/ Ready(s)))
  OBVIOUS
<1>16. PICK retry : retry = IF \E p \in Participants : got[c][p] = "ERROR" THEN "waiting" ELSE "none"
  OBVIOUS
<1>17. PICK revoking \in BOOLEAN : revoking = \E p \in Participants : after[p].revoke
  OBVIOUS
<1>18. PICK k : k = NextCheck(converged, reached, fail # {}, s, retry, revoking)
  OBVIOUS
<1>19. PICK o : o = IF fail # {} \/ (ds.desired # "SUSPENDED" /\ ~Ready(s)) THEN "BLOCKED"
                    ELSE IF ~converged THEN "RECONCILING" ELSE ds.desired
  OBVIOUS
<1>20. PICK applied : applied = IF reached THEN view[c].gen ELSE ds.applied
  OBVIOUS
<1>21. ds' = [ds EXCEPT !.observed = o, !.applied = applied, !.pending = ~reached,
                        !.retry = retry, !.check = k, !.svc = s]
  <2>1. ~(fail # {}) = (fail = {})
    OBVIOUS
  <2>q. QED
    BY <1>2, <1>3, <1>4, <1>13, <1>15, <1>16, <1>17, <1>18, <1>19, <1>20, <2>1 DEF Commit
<1>22. k \in {"due", "retry", "deadline", "never"}
  BY <1>18 DEF NextCheck, Governance
<1>23. k \in {"deadline", "never"} /\ fail = {} => converged
  BY <1>15, <1>18 DEF NextCheck, Governance
<1>24. reached => converged
  BY <1>15
<1>25. /\ retry \in {"none", "waiting"} /\ applied \in Nat
       /\ o \in {"BLOCKED", "RECONCILING", "ACTIVE", "SUSPENDED"}
  BY <1>5, <1>7, <1>16, <1>19, <1>20 DEF DsRecords, Commanded
<1>26. PICK pending \in BOOLEAN : pending = ~reached
  OBVIOUS
<1>27. ds' = [ds EXCEPT !.observed = o, !.applied = applied, !.pending = pending,
                        !.retry = retry, !.check = k, !.svc = s]
  BY <1>21, <1>26
<1>28. /\ ds' \in DsRecords /\ ds'.gen = ds.gen /\ ds'.desired = ds.desired
       /\ ds'.svc = s /\ ds'.check = k
  BY <1>5, <1>7, <1>22, <1>25, <1>27 DEF DsRecords
<1>29. ds'.pending = pending
  BY <1>7, <1>27, Zenon DEF DsRecords
<1>30. Leaves(c)
  BY <1>1, <1>9, <1>10, <1>28, LeaveIs DEF Leaves
<1>31. ~ds'.pending \/ (ds'.check \in {"deadline", "never"} /\ Revoked = {})
         => \A p \in Approved : got[c][p] = WantedState(p, view[c].svc)
  BY <1>3, <1>5, <1>14, <1>23, <1>24, <1>26, <1>28, <1>29
<1>q. QED BY <1>3, <1>5, <1>11, <1>28, <1>30, <1>31 DEF Reports

-----------------------------------------------------------------------------
(* Every step is of one of the kinds                                       *)

LEMMA StepsAreOfAKind ==
    ASSUME Typed, SnapshotIsTheRecord, [Next]_vars
    PROVE  Kinds
<1>1. ASSUME NEW d \in {"ACTIVE", "SUSPENDED"}, SetDesiredState(d) PROVE Kinds
  BY <1>1, SetDesiredStateAsks DEF Kinds, Commanded
<1>2. ASSUME NEW p \in Participants, SubmitParticipant(p) PROVE Kinds
  BY <1>2, SubmitParticipantAsks DEF Kinds
<1>3. ASSUME NEW p \in Participants, NEW a \in Admins, ApproveParticipant(p, a) PROVE Kinds
  BY <1>3, ApproveParticipantAsks DEF Kinds
<1>4. ASSUME NEW s \in Registry, ServiceRegistryChanges(s) PROVE Kinds
  BY <1>4, RestWaits DEF Kinds
<1>5. ASSUME NEW valid \in SUBSET Participants, NEW up \in BOOLEAN,
             ApprovalRegistryChanges(valid, up)
      PROVE  Kinds
  BY <1>5, RestWaits DEF Kinds
<1>6. ASSUME NEW p \in Participants, DecisionExpires(p) PROVE Kinds
  BY <1>6, RestWaits DEF Kinds
<1>7. ASSUME RetryTimePasses \/ DeadlinePasses \/ LeaseLost \/ UNCHANGED vars PROVE Kinds
  BY <1>7, RestWaits DEF Kinds
<1>8. ASSUME NEW p \in Participants, CaasWorks(p) PROVE Kinds
  BY <1>8, CaasWorksArrives DEF Kinds
<1>9. ASSUME NEW m \in late, LateArrives(m) PROVE Kinds
  BY <1>9, LateArrivesArrives DEF Kinds
<1>10. ASSUME NEW m \in Modes, Begin(m) PROVE Kinds
  BY <1>10, BeginMoves DEF Kinds
<1>11. ASSUME NEW c \in Calls, Stop(c) \/ Fenced(c) \/ Supersede(c) PROVE Kinds
  BY <1>11, StopMoves DEF Kinds
<1>12. ASSUME NEW c \in Calls, Read(c) PROVE Kinds
  BY <1>12, ReadReads DEF Kinds
<1>13. ASSUME NEW c \in Calls, PrepareRevocation(c) PROVE Kinds
  BY <1>13, PrepareRevocationPrepares DEF Kinds
<1>14. ASSUME NEW c \in Calls, PrepareServices(c) PROVE Kinds
  BY <1>14, PrepareServicesPrepares DEF Kinds
<1>15. ASSUME NEW c \in Calls, GiveUp(c) PROVE Kinds
  BY <1>15, GiveUpGivesUp DEF Kinds
<1>16. ASSUME NEW c \in Calls, Commit(c) PROVE Kinds
  BY <1>16, CommitReports DEF Kinds
<1>17. ASSUME NEW c \in Calls, NEW p \in Participants, Command(c, p) \/ CommandFails(c, p)
       PROVE  Kinds
  BY <1>17, CommandTells, CommandFailsTells DEF Kinds
<1>18. ASSUME NEW c \in Calls, Reconcile(c) PROVE Kinds
  BY <1>11, <1>12, <1>13, <1>14, <1>15, <1>16, <1>17, <1>18 DEF Reconcile
<1>q. QED
  BY <1>1, <1>2, <1>3, <1>4, <1>5, <1>6, <1>7, <1>8, <1>9, <1>10, <1>11, <1>17, <1>18 DEF Next

-----------------------------------------------------------------------------
(* The types                                                               *)

\* A call over leaves its lease to nobody.
LEMMA LeaveFreesLease ==
    ASSUME Typed, NEW c \in Calls, Leave(c)
    PROVE  owner' \in Calls \cup {Nobody}
<1>1. owner \in Calls \cup {Nobody} BY DEF Typed
<1>q. QED BY <1>1 DEF Leave

\* The registries and the lease keep their types.
LEMMA SurroundingsTyped ==
    ASSUME Typed, [Next]_vars
    PROVE  svc' \in Registry /\ reg' \in Registers /\ owner' \in Calls \cup {Nobody}
<1>1. svc \in Registry /\ reg \in Registers /\ owner \in Calls \cup {Nobody}
  BY DEF Typed
<1> DEFINE Goal == svc' \in Registry /\ reg' \in Registers /\ owner' \in Calls \cup {Nobody}
<1> SUFFICES Goal OBVIOUS
<1>2. UNCHANGED <<svc, reg, owner>> => Goal BY <1>1
<1>3. UNCHANGED <<svc, reg>> /\ owner' \in Calls \cup {Nobody} => Goal BY <1>1
<1>4. UNCHANGED <<world, lease>> => Goal
  BY <1>2 DEF world, lease
<1>5. ASSUME NEW s \in Registry, ServiceRegistryChanges(s) PROVE Goal
  BY <1>1, <1>5 DEF ServiceRegistryChanges, lease
<1>6. ASSUME NEW valid \in SUBSET Participants, NEW up \in BOOLEAN,
             ApprovalRegistryChanges(valid, up)
      PROVE  Goal
  <2>1. reg' = [ver |-> reg.ver + 1, valid |-> valid, up |-> TRUE] \/ reg' = [reg EXCEPT !.up = up]
    BY <1>6 DEF ApprovalRegistryChanges
  <2>2. reg' \in Registers
    <3>1. [reg EXCEPT !.up = up] \in Registers
      BY <1>1 DEF Registers
    <3>2. [ver |-> reg.ver + 1, valid |-> valid, up |-> TRUE] \in Registers
      BY <1>1 DEF Registers
    <3>q. QED BY <2>1, <3>1, <3>2
  <2>q. QED BY <1>1, <1>6, <2>2 DEF ApprovalRegistryChanges, lease
<1>7. ASSUME NEW p \in Participants, DecisionExpires(p) PROVE Goal
  <2>1. reg' = [reg EXCEPT !.valid = reg.valid \ {p}]
    BY <1>7 DEF DecisionExpires
  <2>2. reg.valid \ {p} \in SUBSET Participants
    BY <1>1 DEF Registers
  <2>3. reg' \in Registers
    BY <1>1, <2>1, <2>2 DEF Registers
  <2>q. QED BY <1>1, <1>7, <2>3 DEF DecisionExpires, lease
<1>8. ASSUME NEW m \in Modes, Begin(m) PROVE Goal
  <2>1. FreeSlot \in Calls
    BY <1>8, Zenon DEF Begin, FreeSlot
  <2>2. owner' = FreeSlot /\ UNCHANGED world
    BY <1>8 DEF Begin
  <2>q. QED BY <1>3, <2>1, <2>2 DEF world
<1>9. ASSUME NEW c \in Calls, Leave(c), UNCHANGED world PROVE Goal
  BY <1>3, <1>9, LeaveFreesLease DEF world
<1>10. ASSUME NEW c \in Calls, Stop(c) \/ Fenced(c) \/ Commit(c) \/ GiveUp(c) PROVE Goal
  BY <1>9, <1>10 DEF Stop, Fenced, Commit, GiveUp
<1>11. ASSUME NEW c \in Calls, Read(c) PROVE Goal
  BY <1>4, <1>9, <1>11 DEF Read
<1>12. ASSUME NEW c \in Calls,
              Supersede(c) \/ PrepareRevocation(c) \/ PrepareServices(c)
       PROVE  Goal
  BY <1>4, <1>12 DEF Supersede, PrepareRevocation, PrepareServices, Prepared
<1>13. ASSUME NEW c \in Calls, NEW p \in Participants, Command(c, p) \/ CommandFails(c, p)
       PROVE  Goal
  BY <1>2, <1>13 DEF Command, CommandFails, lease
<1>14. ASSUME NEW c \in Calls, Reconcile(c) PROVE Goal
  BY <1>10, <1>11, <1>12, <1>13, <1>14 DEF Reconcile
<1>15. ASSUME NEW c \in Calls, Stop(c) PROVE Goal
  BY <1>10, <1>15
<1>16. ASSUME \/ \E d \in {"ACTIVE", "SUSPENDED"} : SetDesiredState(d)
              \/ \E p \in Participants : SubmitParticipant(p) \/ \E a \in Admins : ApproveParticipant(p, a)
              \/ RetryTimePasses \/ DeadlinePasses
       PROVE  Goal
  BY <1>4, <1>16 DEF SetDesiredState, SubmitParticipant, ApproveParticipant, RetryTimePasses,
     DeadlinePasses
<1>17. ASSUME (\E p \in Participants : CaasWorks(p)) \/ (\E m \in late : LateArrives(m))
       PROVE  Goal
  BY <1>2, <1>17 DEF CaasWorks, LateArrives, lease
<1>18. ASSUME LeaseLost PROVE Goal
  BY <1>2, <1>18 DEF LeaseLost, world
<1>19. ASSUME UNCHANGED vars PROVE Goal
  BY <1>2, <1>19 DEF vars, world, lease
<1>q. QED
  BY <1>5, <1>6, <1>7, <1>8, <1>13, <1>14, <1>15, <1>16, <1>17, <1>18, <1>19 DEF Next

\* A tenant, an answer and a snapshot keep their types.
LEMMA PartsTyped ==
    ASSUME Typed, Kinds
    PROVE  /\ ds' \in DsRecords /\ part' \in [Participants -> PartRecords]
           /\ caas' \in [Participants -> Tenants] /\ late' \subseteq Messages
           /\ stale' \subseteq Calls /\ pc' \in [Calls -> Places]
           /\ got' \in [Calls -> Answers] /\ view' \in [Calls -> Views]
<1>1. /\ ds \in DsRecords /\ part \in [Participants -> PartRecords]
      /\ caas \in [Participants -> Tenants] /\ late \subseteq Messages
      /\ stale \subseteq Calls /\ pc \in [Calls -> Places]
      /\ got \in [Calls -> Answers] /\ view \in [Calls -> Views]
  BY DEF Typed
<1> DEFINE Goal == /\ ds' \in DsRecords /\ part' \in [Participants -> PartRecords]
                   /\ caas' \in [Participants -> Tenants] /\ late' \subseteq Messages
                   /\ stale' \subseteq Calls /\ pc' \in [Calls -> Places]
                   /\ got' \in [Calls -> Answers] /\ view' \in [Calls -> Views]
<1>2. {"idle", "read", "revoke", "gate", "command"} \subseteq Places
  BY DEF Places
<1>3. CASE Waits
  BY <1>1, <1>3 DEF Waits
<1>4. CASE Asks
  BY <1>1, <1>4 DEF Asks
<1>5. ASSUME NEW p \in Participants, Arrives(p) PROVE Goal
  BY <1>1, <1>5 DEF Arrives
<1>6. ASSUME NEW c \in Calls, Moves(c) PROVE Goal
  <2>1. NoView \in Views /\ Blank \in Answers BY BlankTypes
  <2>2. pc' \in [Calls -> Places]
    BY <1>1, <1>2, <1>6 DEF Moves
  <2>3. view' \in [Calls -> Views] /\ got' \in [Calls -> Answers]
    BY <1>1, <1>6, <2>1 DEF Moves
  <2>q. QED BY <1>1, <1>6, <2>2, <2>3 DEF Moves
<1>7. ASSUME NEW c \in Calls, Reads(c) PROVE Goal
  <2>1. Blank \in Answers BY BlankTypes
  <2>2. pc' \in [Calls -> Places] /\ view' \in [Calls -> Views]
    BY <1>1, <1>2, <1>7 DEF Reads
  <2>3. got' \in [Calls -> Answers]
    BY <1>1, <1>7, <2>1 DEF Reads
  <2>q. QED BY <1>1, <1>7, <2>2, <2>3 DEF Reads
<1>8. ASSUME NEW c \in Calls, Prepares(c) PROVE Goal
  <2>1. PICK g : g = ds'.gen OBVIOUS
  <2>2. PICK v : v = [view[c] EXCEPT !.gen = g] OBVIOUS
  <2>3. g \in Nat
    BY <1>8, <2>1 DEF Prepares, DsRecords
  <2>4. v \in Views
    BY <1>1, <2>2, <2>3 DEF Views
  <2>5. view' = [view EXCEPT ![c] = v]
    BY <1>8, <2>1, <2>2 DEF Prepares
  <2>6. view' \in [Calls -> Views] /\ pc' \in [Calls -> Places]
    BY <1>1, <1>2, <1>8, <2>4, <2>5 DEF Prepares
  <2>q. QED BY <1>1, <1>8, <2>6 DEF Prepares
<1>9. ASSUME NEW c \in Calls, Leaves(c) PROVE Goal
  <2>1. NoView \in Views /\ Blank \in Answers BY BlankTypes
  <2>2. pc' \in [Calls -> Places] /\ view' \in [Calls -> Views] /\ got' \in [Calls -> Answers]
    BY <1>1, <1>2, <1>9, <2>1 DEF Leaves
  <2>q. QED BY <1>1, <1>9, <2>2 DEF Leaves
<1>10. ASSUME NEW c \in Calls, NEW p \in Participants, Tells(c, p) PROVE Goal
  <2>1. PICK t \in Tenants, a \in States :
           /\ caas' = [caas EXCEPT ![p] = t]
           /\ got' = [got EXCEPT ![c] = [got[c] EXCEPT ![p] = a]]
    BY <1>10 DEF Tells
  <2>2. [got[c] EXCEPT ![p] = a] \in Answers
    BY <1>1 DEF Answers
  <2>3. caas' \in [Participants -> Tenants] /\ got' \in [Calls -> Answers]
    BY <1>1, <2>1, <2>2
  <2>4. [p |-> p, gen |-> view[c].gen, command |-> view[c].command[p]] \in Messages
    <3>1. view[c].gen \in Nat BY <1>1 DEF Views
    <3>2. view[c].command[p] \in Commanded BY <1>10 DEF Tells
    <3>q. QED BY <3>1, <3>2 DEF Messages
  <2>q. QED BY <1>1, <1>10, <2>3, <2>4 DEF Tells
<1>11. ASSUME NEW c \in Calls, GivesUp(c) \/ Reports(c) PROVE Goal
  BY <1>9, <1>11 DEF GivesUp, Reports
<1>q. QED
  BY <1>3, <1>4, <1>5, <1>6, <1>7, <1>8, <1>10, <1>11 DEF Kinds

LEMMA TypedStays ==
    ASSUME Typed, SnapshotIsTheRecord, [Next]_vars
    PROVE  Typed'
  BY StepsAreOfAKind, SurroundingsTyped, PartsTyped DEF Typed

-----------------------------------------------------------------------------
(* The invariants over the kinds of steps                                  *)

\* What a step makes of one tenant: it stays, settles, or takes a newer command
\* that was late or that a call sent.
LEMMA TenantBecomes ==
    ASSUME Typed, Kinds, NEW q \in Participants
    PROVE  \/ caas'[q] = caas[q] \/ Settles(q, caas'[q])
           \/ \E m \in late : m.p = q /\ Takes(q, m.gen, m.command, caas'[q])
           \/ \E c \in Calls : /\ pc[c] = "command" /\ view[c].command[q] \in Commanded
                               /\ Takes(q, view[c].gen, view[c].command[q], caas'[q])
<1>1. caas \in [Participants -> Tenants] BY DEF Typed
<1>2. CASE caas' = caas
  BY <1>2
<1>3. ASSUME NEW p \in Participants, NEW t \in Tenants, caas' = [caas EXCEPT ![p] = t]
      PROVE  caas'[q] = IF q = p THEN t ELSE caas[q]
  BY <1>1, <1>3
<1>4. CASE \E p \in Participants : Arrives(p)
  BY <1>3, <1>4 DEF Arrives
<1>5. CASE \E c \in Calls, p \in Participants : Tells(c, p)
  <2>1. PICK c \in Calls, p \in Participants : Tells(c, p) BY <1>5
  <2>2. PICK t \in Tenants : /\ caas' = [caas EXCEPT ![p] = t]
                             /\ Settles(p, t) \/ Takes(p, view[c].gen, view[c].command[p], t)
    BY <2>1 DEF Tells
  <2>3. pc[c] = "command" /\ view[c].command[p] \in Commanded
    BY <2>1 DEF Tells
  <2>q. QED BY <1>3, <2>2, <2>3
<1>6. (\E p \in Participants : Arrives(p)) \/ (\E c \in Calls, p \in Participants : Tells(c, p))
      \/ caas' = caas
  BY DEF Kinds, Waits, Asks, Moves, Reads, Prepares, Leaves, GivesUp, Reports
<1>q. QED BY <1>2, <1>4, <1>5, <1>6

\* A command of the current generation that is in place stays in place.
LEMMA InPlaceStays ==
    ASSUME Typed, NothingFromTheFuture, Kinds, NEW q \in Participants,
           caas[q].gen = ds.gen, caas[q].runs = caas[q].desired
    PROVE  caas'[q] = caas[q]
<1>1. caas[q] \in Tenants /\ caas'[q] \in Tenants /\ ds.gen \in Nat
  BY PartsTyped DEF Typed, DsRecords
<1>2. CASE Settles(q, caas'[q])
  <2>1. /\ caas'[q].gen = caas[q].gen /\ caas'[q].desired = caas[q].desired
        /\ caas'[q].runs = caas[q].runs
    BY <1>2 DEF Settles
  <2>q. QED BY <1>1, <2>1 DEF Tenants
<1>3. ASSUME NEW m \in late, Takes(q, m.gen, m.command, caas'[q]) PROVE FALSE
  <2>1. m.gen \in Nat /\ m.gen <= ds.gen /\ m.gen > ds.gen
    BY <1>3 DEF NothingFromTheFuture, Takes, Typed, Messages
  <2>q. QED BY <1>1, <2>1
<1>4. ASSUME NEW c \in Calls, Takes(q, view[c].gen, view[c].command[q], caas'[q]) PROVE FALSE
  <2>1. view[c].gen \in Nat /\ view[c].gen <= ds.gen /\ view[c].gen > ds.gen
    BY <1>4 DEF NothingFromTheFuture, Takes, Typed, Views
  <2>q. QED BY <1>1, <2>1
<1>q. QED BY <1>2, <1>3, <1>4, TenantBecomes

\* Holds, by its parts.
LEMMA HoldsIs ==
    ASSUME Typed, NEW p \in Participants, NEW x
    PROVE  Holds(p, x) <=> caas[p].gen = ds.gen /\ caas[p].desired = x /\ caas[p].runs = x
<1>1. caas[p] \in Tenants BY DEF Typed
<1>q. QED BY <1>1 DEF Holds, Tenants

\* While the generation is the same, CaaS holds what it held.
LEMMA HoldsStays ==
    ASSUME Typed, NothingFromTheFuture, Kinds, ds'.gen = ds.gen,
           NEW p \in Participants, NEW x, Holds(p, x)
    PROVE  caas'[p] = [gen |-> ds'.gen, desired |-> x, runs |-> x]
<1>1. caas[p].gen = ds.gen /\ caas[p].runs = caas[p].desired
  BY HoldsIs
<1>2. caas'[p] = caas[p]
  BY <1>1, InPlaceStays
<1>q. QED BY <1>2 DEF Holds

\* The generation never goes back.
LEMMA GenerationGrows ==
    ASSUME Typed, Kinds
    PROVE  ds.gen \in Nat /\ ds'.gen \in Nat /\ ds'.gen >= ds.gen
<1>1. ds.gen \in Nat BY DEF Typed, DsRecords
<1>2. ds'.gen = ds.gen \/ ds'.gen = ds.gen + 1
  BY DEF Kinds, Waits, Asks, Arrives, Tells, Moves, Reads, Prepares, Leaves, GivesUp, Reports
<1>q. QED BY <1>1, <1>2

LEMMA FutureStays ==
    ASSUME Typed, NothingFromTheFuture, Kinds
    PROVE  NothingFromTheFuture'
<1>1. ds.gen \in Nat /\ ds'.gen \in Nat /\ ds'.gen >= ds.gen
  BY GenerationGrows
<1>2. ASSUME NEW m \in late' PROVE m.gen <= ds'.gen
  <2>1. \A n \in late : n.gen \in Nat /\ n.gen <= ds.gen
    BY DEF NothingFromTheFuture, Typed, Messages
  <2>2. \A c \in Calls : view[c].gen \in Nat /\ view[c].gen <= ds.gen
    BY DEF NothingFromTheFuture, Typed, Views
  <2>3. CASE late' \subseteq late
    BY <1>1, <1>2, <2>1, <2>3
  <2>4. ASSUME NEW c \in Calls, NEW p \in Participants, Tells(c, p) PROVE m.gen <= ds'.gen
    <3>1. m \in late \/ m = [p |-> p, gen |-> view[c].gen, command |-> view[c].command[p]]
      BY <1>2, <2>4 DEF Tells
    <3>2. m \in late \/ m.gen = view[c].gen
      BY <3>1
    <3>q. QED BY <1>1, <2>1, <2>2, <3>2
  <2>5. late' \subseteq late \/ \E c \in Calls, p \in Participants : Tells(c, p)
    BY DEF Kinds, Waits, Asks, Arrives, Moves, Reads, Prepares, Leaves, GivesUp, Reports
  <2>q. QED BY <2>3, <2>4, <2>5
<1>3. ASSUME NEW d \in Calls PROVE view'[d].gen <= ds'.gen
  <2>1. view[d].gen \in Nat /\ view[d].gen <= ds.gen /\ view \in [Calls -> Views] /\ view[d] \in Views
    BY DEF NothingFromTheFuture, Typed, Views
  <2>2. CASE view' = view
    BY <1>1, <2>1, <2>2
  <2>3. ASSUME NEW c \in Calls, NEW v \in Views, view' = [view EXCEPT ![c] = v], v.gen <= ds'.gen
        PROVE  view'[d].gen <= ds'.gen
    <3>1. view'[d] = IF d = c THEN v ELSE view[d] BY <2>1, <2>3
    <3>q. QED BY <1>1, <2>1, <2>3, <3>1
  <2>4. NoView \in Views /\ NoView.gen <= ds'.gen
    BY <1>1, BlankTypes
  <2>5. ASSUME NEW c \in Calls, Moves(c) \/ Leaves(c) PROVE view'[d].gen <= ds'.gen
    BY <2>2, <2>3, <2>4, <2>5 DEF Moves, Leaves
  <2>6. ASSUME NEW c \in Calls, Reads(c) PROVE view'[d].gen <= ds'.gen
    <3>1. PICK v \in Views : view' = [view EXCEPT ![c] = v] /\ v.gen = ds.gen
      BY <2>6 DEF Reads
    <3>q. QED BY <1>1, <2>3, <3>1
  <2>7. ASSUME NEW c \in Calls, Prepares(c) PROVE view'[d].gen <= ds'.gen
    <3>1. PICK g \in Nat : g = ds'.gen BY <1>1
    <3>2. PICK v : v = [view[c] EXCEPT !.gen = g] OBVIOUS
    <3>3. view[c] \in Views BY DEF Typed
    <3>4. v \in Views /\ v.gen = g BY <3>2, <3>3 DEF Views
    <3>5. view' = [view EXCEPT ![c] = v] BY <2>7, <3>1, <3>2 DEF Prepares
    <3>6. v.gen <= ds'.gen BY <1>1, <3>1, <3>4
    <3>q. QED BY <2>3, <3>4, <3>5, <3>6
  <2>8. \/ view' = view
        \/ \E c \in Calls : Moves(c) \/ Leaves(c) \/ Reads(c) \/ Prepares(c)
    BY DEF Kinds, Waits, Asks, Arrives, Tells, GivesUp, Reports
  <2>q. QED BY <2>2, <2>5, <2>6, <2>7, <2>8
<1>q. QED BY <1>2, <1>3 DEF NothingFromTheFuture

\* The snapshot and the answers of a call survive a step that leaves the call
\* and what was asked for alone.
LEMMA SnapshotKept ==
    ASSUME NEW d, SnapshotOf(d), pc'[d] = pc[d], view'[d] = view[d],
           ds'.gen = ds.gen, ds'.desired = ds.desired, Approved' = Approved, Revoked' = Revoked
    PROVE  SnapshotOf(d)'
<1>1. Checked' = Checked BY DEF Checked
<1>2. ASSUME NEW p, NEW s PROVE WantedState(p, s)' = WantedState(p, s)
  BY DEF WantedState
<1>3. PICK s : s = view[d].svc OBVIOUS
<1>4. view'[d].svc = s BY <1>3
<1>5. \A p : WantedState(p, view[d].svc)' = WantedState(p, view[d].svc)
  BY DEF WantedState
<1>q. QED BY <1>1, <1>5 DEF SnapshotOf

LEMMA RecordKept ==
    part' = part => Approved' = Approved /\ Revoked' = Revoked
  BY DEF Approved, Revoked

LEMMA SnapshotStays ==
    ASSUME Typed, SnapshotIsTheRecord, Kinds
    PROVE  SnapshotIsTheRecord'
<1> SUFFICES ASSUME NEW d \in Calls \ stale' PROVE SnapshotOf(d)'
  BY DEF SnapshotIsTheRecord
<1>1. /\ pc \in [Calls -> Places] /\ view \in [Calls -> Views] /\ view[d] \in Views
      /\ d \notin stale => SnapshotOf(d)
  BY DEF Typed, SnapshotIsTheRecord
<1>2. CASE Waits
  BY <1>1, <1>2, SnapshotKept, RecordKept DEF Waits
<1>3. CASE Asks
  BY <1>3 DEF Asks
<1>4. ASSUME NEW p \in Participants, Arrives(p) PROVE SnapshotOf(d)'
  BY <1>1, <1>4, SnapshotKept, RecordKept DEF Arrives
<1>5. ASSUME NEW c \in Calls, NEW p \in Participants, Tells(c, p) PROVE SnapshotOf(d)'
  BY <1>1, <1>5, SnapshotKept, RecordKept DEF Tells
<1>6. ASSUME NEW c \in Calls, Moves(c) PROVE SnapshotOf(d)'
  <2>1. d # c /\ d \notin stale
    BY <1>6 DEF Moves
  <2>2. pc'[d] = pc[d] /\ view'[d] = view[d]
    BY <1>1, <1>6, <2>1 DEF Moves
  <2>q. QED BY <1>1, <1>6, <2>1, <2>2, SnapshotKept, RecordKept DEF Moves
<1>7. ASSUME NEW c \in Calls, Reads(c) PROVE SnapshotOf(d)'
  <2>1. PICK l \in {"revoke", "gate", "command"}, v \in Views :
           /\ pc' = [pc EXCEPT ![c] = l] /\ view' = [view EXCEPT ![c] = v]
           /\ v.gen = ds.gen /\ Revoked \subseteq v.fail /\ v.fail \subseteq Checked
           /\ l # "revoke" => v.fail = Revoked
           /\ v.command = Commands(v.fail, v.svc)
    BY <1>7 DEF Reads
  <2>2. UNCHANGED <<ds, part>> /\ stale' = stale \ {c}
    BY <1>7 DEF Reads
  <2>3. CASE d = c
    <3>1. pc'[d] = l /\ view'[d] = v BY <1>1, <2>1, <2>3
    <3>2. Checked' = Checked /\ Revoked' = Revoked BY <2>2 DEF Checked, Approved, Revoked
    <3>3. \A p \in Participants : v.command[p] =
             IF p \notin Checked THEN "NONE"
             ELSE IF p \in v.fail THEN "SUSPENDED" ELSE WantedState(p, v.svc)
      BY <2>1 DEF Commands
    <3>4. ASSUME NEW p PROVE WantedState(p, v.svc)' = WantedState(p, v.svc)
      BY <2>2 DEF WantedState
    <3>5. PICK s : s = v.svc OBVIOUS
    <3>6. ASSUME NEW p PROVE WantedState(p, view[d].svc)' = WantedState(p, v.svc)
      BY <2>2, <3>1 DEF WantedState
    <3>q. QED BY <2>1, <2>2, <3>1, <3>2, <3>3, <3>6 DEF SnapshotOf
  <2>4. CASE d # c
    <3>1. pc'[d] = pc[d] /\ view'[d] = view[d] /\ d \notin stale
      BY <1>1, <2>1, <2>2, <2>4
    <3>q. QED BY <1>1, <2>2, <3>1, SnapshotKept, RecordKept
  <2>q. QED BY <2>3, <2>4
<1>8. ASSUME NEW c \in Calls, Prepares(c) PROVE SnapshotOf(d)'
  <2>1. d = c /\ d \notin stale
    BY <1>8 DEF Prepares
  <2>2. PICK g : g = ds'.gen OBVIOUS
  <2>3. view' = [view EXCEPT ![d] = [view[d] EXCEPT !.gen = g]] /\ pc' = [pc EXCEPT ![d] = "command"]
    BY <1>8, <2>1, <2>2 DEF Prepares
  <2>4. view'[d] = [view[d] EXCEPT !.gen = g] /\ pc'[d] = "command"
    BY <1>1, <2>3
  <2>5. /\ view'[d].gen = g /\ view'[d].fail = view[d].fail /\ view'[d].svc = view[d].svc
        /\ view'[d].command = view[d].command
    BY <1>1, <2>4 DEF Views
  <2>6. Checked' = Checked /\ Revoked' = view[d].fail /\ ds'.desired = ds.desired
    BY <1>8, <2>1 DEF Prepares
  <2>7. \A p : WantedState(p, view[d].svc)' = WantedState(p, view[d].svc)
    BY <2>5, <2>6 DEF WantedState
  <2>q. QED BY <1>1, <2>1, <2>2, <2>4, <2>5, <2>6, <2>7 DEF SnapshotOf
<1>9. ASSUME NEW c \in Calls, GivesUp(c) \/ Reports(c) PROVE SnapshotOf(d)'
  BY <1>9 DEF GivesUp, Reports, Leaves
<1>q. QED BY <1>2, <1>3, <1>4, <1>5, <1>6, <1>7, <1>8, <1>9 DEF Kinds

\* An answer stays in place while its call and the generation stay.
LEMMA AnswersKept ==
    ASSUME Typed, NothingFromTheFuture, Kinds, NEW d \in Calls, AnswersOf(d), ds'.gen = ds.gen,
           pc'[d] = pc[d], view'[d] = view[d], got'[d] = got[d]
    PROVE  AnswersOf(d)'
<1>1. Blank' = Blank BY DEF Blank
<1>2. ASSUME NEW p \in Participants, got'[d][p] \in Commanded
      PROVE  /\ got'[d][p] = view'[d].command[p]
             /\ caas'[p] = [gen |-> ds'.gen, desired |-> got'[d][p], runs |-> got'[d][p]]
  <2>1. PICK x : x = got[d][p] OBVIOUS
  <2>2. got[d][p] = view[d].command[p] /\ Holds(p, x)
    BY <1>2, <2>1 DEF AnswersOf
  <2>3. caas'[p] = [gen |-> ds'.gen, desired |-> x, runs |-> x]
    BY <2>2, HoldsStays
  <2>q. QED BY <2>1, <2>2, <2>3
<1>q. QED BY <1>1, <1>2 DEF AnswersOf, Holds

\* No answer was given to a call that only just has its snapshot.
LEMMA NoAnswers ==
    ASSUME NEW d \in Calls, got'[d] = Blank
    PROVE  AnswersOf(d)'
<1>1. \A p \in Participants : got'[d][p] = "NONE"
  BY DEF Blank
<1>2. Blank' = Blank BY DEF Blank
<1>q. QED BY <1>1, <1>2 DEF AnswersOf, Commanded

LEMMA AnswersStay ==
    ASSUME Typed, NothingFromTheFuture, SnapshotIsTheRecord, AnswersAreInPlace, Kinds
    PROVE  AnswersAreInPlace'
<1> SUFFICES ASSUME NEW d \in Calls \ stale' PROVE AnswersOf(d)'
  BY DEF AnswersAreInPlace
<1>1. /\ pc \in [Calls -> Places] /\ view \in [Calls -> Views] /\ got \in [Calls -> Answers]
      /\ d \notin stale => AnswersOf(d)
  BY DEF Typed, AnswersAreInPlace
<1>2. CASE Waits
  BY <1>1, <1>2, AnswersKept DEF Waits
<1>3. CASE Asks
  BY <1>3 DEF Asks
<1>4. ASSUME NEW p \in Participants, Arrives(p) PROVE AnswersOf(d)'
  BY <1>1, <1>4, AnswersKept DEF Arrives
<1>5. ASSUME NEW c \in Calls, NEW p \in Participants, Tells(c, p) PROVE AnswersOf(d)'
  <2>1. PICK t \in Tenants, a \in States :
           /\ caas' = [caas EXCEPT ![p] = t]
           /\ got' = [got EXCEPT ![c] = [got[c] EXCEPT ![p] = a]]
           /\ a \in Commanded => /\ a = view[c].command[p]
                                 /\ t.gen = view[c].gen /\ t.desired = a /\ t.runs = a
    BY <1>5 DEF Tells
  <2>2. UNCHANGED <<ds, pc, view, stale>> /\ pc[c] = "command"
    BY <1>5 DEF Tells
  <2>3. CASE d # c
    <3>1. got'[d] = got[d] BY <1>1, <2>1, <2>3
    <3>q. QED BY <1>1, <2>2, <3>1, AnswersKept
  <2>4. CASE d = c
    <3>1. view[d].gen = ds.gen /\ AnswersOf(d)
      BY <1>1, <2>2 DEF SnapshotIsTheRecord, SnapshotOf
    <3>2. \A q \in Participants : got'[d][q] = IF q = p THEN a ELSE got[d][q]
      BY <1>1, <2>1, <2>4 DEF Answers
    <3>3. ASSUME NEW q \in Participants, got'[d][q] \in Commanded
          PROVE  /\ got'[d][q] = view'[d].command[q]
                 /\ caas'[q] = [gen |-> ds'.gen, desired |-> got'[d][q], runs |-> got'[d][q]]
      <4>1. CASE q = p
        <5>1. caas'[q] = t
          BY <2>1, <4>1 DEF Typed
        <5>2. t.gen = ds.gen /\ t.desired = a /\ t.runs = a /\ a = view[d].command[q]
          BY <2>1, <2>4, <3>1, <3>2, <3>3, <4>1
        <5>3. t = [gen |-> ds.gen, desired |-> a, runs |-> a]
          BY <5>2 DEF Tenants
        <5>q. QED BY <2>2, <3>2, <4>1, <5>1, <5>2, <5>3
      <4>2. CASE q # p
        <5>1. PICK x : x = got[d][q] OBVIOUS
        <5>2. got'[d][q] = x /\ x = view[d].command[q] /\ Holds(q, x)
          BY <3>1, <3>2, <3>3, <4>2, <5>1 DEF AnswersOf
        <5>3. caas'[q] = [gen |-> ds'.gen, desired |-> x, runs |-> x]
          BY <2>2, <5>2, HoldsStays
        <5>q. QED BY <2>2, <5>2, <5>3
      <4>q. QED BY <4>1, <4>2
    <3>4. pc'[d] = "command" BY <2>2, <2>4
    <3>q. QED BY <3>3, <3>4 DEF AnswersOf, Holds
  <2>q. QED BY <2>3, <2>4
<1>6. ASSUME NEW c \in Calls, Moves(c) PROVE AnswersOf(d)'
  <2>1. d # c /\ d \notin stale
    BY <1>6 DEF Moves
  <2>2. pc'[d] = pc[d] /\ view'[d] = view[d] /\ got'[d] = got[d]
    BY <1>1, <1>6, <2>1 DEF Moves
  <2>q. QED BY <1>1, <1>6, <2>1, <2>2, AnswersKept DEF Moves
<1>7. ASSUME NEW c \in Calls, Reads(c) PROVE AnswersOf(d)'
  <2>1. PICK l \in {"revoke", "gate", "command"}, v \in Views :
           pc' = [pc EXCEPT ![c] = l] /\ view' = [view EXCEPT ![c] = v]
    BY <1>7 DEF Reads
  <2>2. UNCHANGED <<ds, part>> /\ stale' = stale \ {c} /\ got' = [got EXCEPT ![c] = Blank]
    BY <1>7 DEF Reads
  <2>3. CASE d = c
    <3>1. got'[d] = Blank BY <1>1, <2>2, <2>3
    <3>q. QED BY <3>1, NoAnswers
  <2>4. CASE d # c
    <3>1. pc'[d] = pc[d] /\ view'[d] = view[d] /\ got'[d] = got[d] /\ d \notin stale
      BY <1>1, <2>1, <2>2, <2>4
    <3>q. QED BY <1>1, <2>2, <3>1, AnswersKept
  <2>q. QED BY <2>3, <2>4
<1>8. ASSUME NEW c \in Calls, Prepares(c) PROVE AnswersOf(d)'
  <2>1. d = c /\ d \notin stale /\ pc[d] # "command" /\ got' = got
    BY <1>8 DEF Prepares
  <2>2. got'[d] = Blank
    BY <1>1, <2>1 DEF AnswersOf
  <2>q. QED BY <2>2, NoAnswers
<1>9. ASSUME NEW c \in Calls, GivesUp(c) \/ Reports(c) PROVE AnswersOf(d)'
  BY <1>9 DEF GivesUp, Reports, Leaves
<1>q. QED BY <1>2, <1>3, <1>4, <1>5, <1>6, <1>7, <1>8, <1>9 DEF Kinds

-----------------------------------------------------------------------------
(* A record at rest and an applied generation                              *)

\* The record waits for nothing but a governance deadline, or reports the
\* current generation as applied.
Resting == \/ ds.check \in {"deadline", "never"} /\ Revoked = {}
           \/ /\ ds.applied = ds.gen /\ ~ds.pending
              /\ ds.observed \in {"ACTIVE", "SUSPENDED"}

EveryoneInPlace == \A p \in Approved : Holds(p, WantedState(p, ds.svc))

LEMMA RestingIs ==
    RestIsConverged /\ AppliedIsTrue <=> (Resting => EveryoneInPlace)
  BY DEF RestIsConverged, AppliedIsTrue, Resting, EveryoneInPlace

\* A step that leaves the generation and what is wanted alone keeps everyone in place.
LEMMA EveryoneStays ==
    ASSUME Typed, NothingFromTheFuture, Kinds, EveryoneInPlace, ds'.gen = ds.gen,
           ds'.desired = ds.desired, ds'.svc = ds.svc, Approved' = Approved
    PROVE  EveryoneInPlace'
<1>1. ASSUME NEW p \in Approved
      PROVE  Holds(p, WantedState(p, ds.svc))'
  <2>1. PICK w : w = WantedState(p, ds.svc) OBVIOUS
  <2>2. p \in Participants /\ Holds(p, w)
    BY <2>1 DEF EveryoneInPlace, Approved
  <2>3. caas'[p] = [gen |-> ds'.gen, desired |-> w, runs |-> w]
    BY <2>2, HoldsStays
  <2>4. WantedState(p, ds.svc)' = w
    BY <2>1 DEF WantedState
  <2>q. QED BY <2>3, <2>4 DEF Holds
<1>q. QED BY <1>1 DEF EveryoneInPlace

LEMMA RestStays ==
    ASSUME Typed, NothingFromTheFuture, SnapshotIsTheRecord, AnswersAreInPlace, Kinds,
           RestIsConverged, AppliedIsTrue
    PROVE  RestIsConverged' /\ AppliedIsTrue'
<1> SUFFICES ASSUME Resting' PROVE EveryoneInPlace'
  BY RestingIs, PTL
<1>1. Resting => EveryoneInPlace
  BY RestingIs
<1>2. ASSUME ds'.gen = ds.gen, ds'.desired = ds.desired, ds'.svc = ds.svc,
             ds'.applied = ds.applied, ds'.pending = ds.pending, ds'.observed = ds.observed,
             ds'.check \in {ds.check, "due"}, Approved' = Approved, Revoked' = Revoked
      PROVE  EveryoneInPlace'
  <2>1. Resting
    BY <1>2 DEF Resting
  <2>q. QED BY <1>1, <1>2, <2>1, EveryoneStays
<1>3. ASSUME UNCHANGED <<ds, part>> PROVE EveryoneInPlace'
  BY <1>2, <1>3, RecordKept
<1>4. CASE Waits
  BY <1>2, <1>4, RecordKept DEF Waits
<1>5. ASSUME ds'.pending, ds'.check = "due" PROVE FALSE
  BY <1>5 DEF Resting
<1>6. CASE Asks
  BY <1>2, <1>5, <1>6 DEF Asks
<1>7. ASSUME NEW p \in Participants, Arrives(p) PROVE EveryoneInPlace'
  BY <1>3, <1>7 DEF Arrives
<1>8. ASSUME NEW c \in Calls, Moves(c) \/ Reads(c) PROVE EveryoneInPlace'
  BY <1>3, <1>8 DEF Moves, Reads
<1>9. ASSUME NEW c \in Calls, NEW p \in Participants, Tells(c, p) PROVE EveryoneInPlace'
  BY <1>3, <1>9 DEF Tells
<1>10. ASSUME NEW c \in Calls, Prepares(c) \/ GivesUp(c) PROVE EveryoneInPlace'
  BY <1>5, <1>10 DEF Prepares, GivesUp
<1>11. ASSUME NEW c \in Calls, Reports(c) PROVE EveryoneInPlace'
  <2>1. /\ ds'.gen = ds.gen /\ ds'.desired = ds.desired /\ ds'.svc = view[c].svc
        /\ Approved' = Approved /\ Revoked' = Revoked /\ c \notin stale
    BY <1>11 DEF Reports, Leaves
  <2>2. \A p \in Approved : got[c][p] = WantedState(p, view[c].svc)
    BY <1>11, <2>1 DEF Reports, Resting
  <2>3. ASSUME NEW p \in Approved PROVE Holds(p, WantedState(p, ds.svc))'
    <3>1. PICK w : w = WantedState(p, view[c].svc) OBVIOUS
    <3>2. p \in Participants /\ w \in Commanded /\ got[c][p] = w
      BY <2>2, <3>1, WantedIsCommanded DEF Approved
    <3>3. Holds(p, w)
      BY <2>1, <3>2 DEF AnswersAreInPlace, AnswersOf
    <3>4. caas'[p] = [gen |-> ds'.gen, desired |-> w, runs |-> w]
      BY <2>1, <3>2, <3>3, HoldsStays
    <3>5. WantedState(p, ds.svc)' = w
      BY <2>1, <3>1 DEF WantedState
    <3>q. QED BY <3>4, <3>5 DEF Holds
  <2>q. QED BY <2>1, <2>3 DEF EveryoneInPlace
<1>q. QED BY <1>4, <1>6, <1>7, <1>8, <1>9, <1>10, <1>11 DEF Kinds

-----------------------------------------------------------------------------
(* Suspended revocations                                                   *)

\* CaaS has suspended a participant, and nothing newer says otherwise.
Silenced(p) ==
    /\ caas[p].desired = "SUSPENDED" /\ caas[p].runs = "SUSPENDED"
    /\ \A m \in late : m.p = p /\ m.gen > caas[p].gen => m.command = "SUSPENDED"
    /\ \A c \in Calls : pc[c] = "command" /\ view[c].gen > caas[p].gen =>
          view[c].command[p] \in {"NONE", "SUSPENDED"}

RevokedAreSilenced == \A p \in Revoked : ~part[p].revoke => Silenced(p)

LEMMA SilencedIs ==
    RevokedIsSuspended /\ SuspensionsStay <=> RevokedAreSilenced
  BY DEF RevokedIsSuspended, SuspensionsStay, RevokedAreSilenced, Silenced, InPlace

\* A call that is about to command has its snapshot already, or gets it in this
\* step from a record that suspends the revoked participants.
LEMMA CallsSuspend ==
    ASSUME Typed, SnapshotIsTheRecord, Kinds, NEW p \in Revoked, NEW d \in Calls,
           pc'[d] = "command"
    PROVE  \/ pc[d] = "command" /\ view'[d] = view[d]
           \/ view'[d].command[p] \in {"NONE", "SUSPENDED"}
<1> DEFINE Goal == \/ pc[d] = "command" /\ view'[d] = view[d]
                   \/ view'[d].command[p] \in {"NONE", "SUSPENDED"}
<1>1. /\ pc \in [Calls -> Places] /\ view \in [Calls -> Views] /\ view[d] \in Views
      /\ p \in Participants /\ p \in Checked
  BY DEF Typed, Revoked, Checked
<1>2. CASE UNCHANGED <<pc, view>>
  BY <1>2
<1>3. ASSUME NEW c \in Calls, NEW l, pc' = [pc EXCEPT ![c] = l], l # "command",
             view' = view \/ view' = [view EXCEPT ![c] = NoView]
      PROVE  Goal
  <2>1. d # c BY <1>1, <1>3
  <2>q. QED BY <1>1, <1>3, <2>1
<1>4. ASSUME NEW c \in Calls, Moves(c) \/ Leaves(c) PROVE Goal
  BY <1>3, <1>4 DEF Moves, Leaves
<1>5. ASSUME NEW c \in Calls, Reads(c) PROVE Goal
  <2>1. PICK l \in {"revoke", "gate", "command"}, v \in Views :
           /\ pc' = [pc EXCEPT ![c] = l] /\ view' = [view EXCEPT ![c] = v]
           /\ Revoked \subseteq v.fail /\ v.command = Commands(v.fail, v.svc)
    BY <1>5 DEF Reads
  <2>2. CASE d = c
    <3>1. view'[d] = v BY <1>1, <2>1, <2>2
    <3>2. v.command[p] = "SUSPENDED"
      BY <1>1, <2>1 DEF Commands
    <3>q. QED BY <3>1, <3>2
  <2>3. CASE d # c
    BY <1>1, <2>1, <2>3
  <2>q. QED BY <2>2, <2>3
<1>6. ASSUME NEW c \in Calls, Prepares(c) PROVE Goal
  <2>1. /\ c \notin stale /\ view' = [view EXCEPT ![c] = [view[c] EXCEPT !.gen = ds'.gen]]
        /\ pc' = [pc EXCEPT ![c] = "command"]
    BY <1>6 DEF Prepares
  <2>2. CASE d = c
    <3>1. view'[d].command = view[d].command
      BY <1>1, <2>1, <2>2 DEF Views
    <3>2. view[d].command[p] = "SUSPENDED"
      BY <1>1, <2>1, <2>2 DEF SnapshotIsTheRecord, SnapshotOf
    <3>q. QED BY <3>1, <3>2
  <2>3. CASE d # c
    BY <1>1, <2>1, <2>3
  <2>q. QED BY <2>2, <2>3
<1>7. UNCHANGED <<pc, view>> \/ \E c \in Calls : Moves(c) \/ Leaves(c) \/ Reads(c) \/ Prepares(c)
  BY DEF Kinds, Waits, Asks, Arrives, Tells, GivesUp, Reports
<1>q. QED BY <1>2, <1>4, <1>5, <1>6, <1>7

\* A late command was late before, or was sent by a call in this step.
LEMMA LateWas ==
    ASSUME Kinds, NEW m \in late'
    PROVE  \/ m \in late
           \/ \E c \in Calls : /\ pc[c] = "command" /\ m.gen = view[c].gen
                               /\ m.command = view[c].command[m.p] /\ m.command \in Commanded
<1>1. CASE late' \subseteq late
  BY <1>1
<1>2. ASSUME NEW c \in Calls, NEW p \in Participants, Tells(c, p), m \notin late
      PROVE  /\ pc[c] = "command" /\ m.gen = view[c].gen
             /\ m.command = view[c].command[m.p] /\ m.command \in Commanded
  <2>1. m = [p |-> p, gen |-> view[c].gen, command |-> view[c].command[p]]
    BY <1>2 DEF Tells
  <2>q. QED BY <1>2, <2>1 DEF Tells
<1>3. late' \subseteq late \/ \E c \in Calls, p \in Participants : Tells(c, p)
  BY DEF Kinds, Waits, Asks, Arrives, Moves, Reads, Prepares, Leaves, GivesUp, Reports
<1>q. QED BY <1>1, <1>2, <1>3

\* A silenced participant that is still revoked stays silenced.
LEMMA SilencedStays ==
    ASSUME Typed, SnapshotIsTheRecord, Kinds, NEW p \in Revoked, Silenced(p)
    PROVE  Silenced(p)'
<1>1. p \in Participants /\ caas[p] \in Tenants /\ caas'[p] \in Tenants
  BY PartsTyped DEF Typed, Revoked
<1>2. /\ \A m \in late : m.gen \in Nat
      /\ \A c \in Calls : view[c].gen \in Nat
  BY DEF Typed, Messages, Views
<1>3. /\ \A m \in late' : m.gen \in Nat
      /\ \A c \in Calls : view'[c].gen \in Nat
  BY PartsTyped DEF Messages, Views
<1>4. /\ caas'[p].desired = "SUSPENDED" /\ caas'[p].runs = "SUSPENDED"
      /\ caas'[p].gen >= caas[p].gen
  <2>1. CASE caas'[p] = caas[p] \/ Settles(p, caas'[p])
    BY <1>1, <2>1 DEF Silenced, Settles, Tenants
  <2>2. ASSUME NEW m \in late, m.p = p, Takes(p, m.gen, m.command, caas'[p])
        PROVE  /\ caas'[p].desired = "SUSPENDED" /\ caas'[p].runs = "SUSPENDED"
               /\ caas'[p].gen >= caas[p].gen
    <3>1. m.command = "SUSPENDED" BY <2>2 DEF Silenced, Takes
    <3>q. QED BY <1>1, <1>2, <2>2, <3>1 DEF Silenced, Takes, Tenants
  <2>3. ASSUME NEW c \in Calls, pc[c] = "command", view[c].command[p] \in Commanded,
               Takes(p, view[c].gen, view[c].command[p], caas'[p])
        PROVE  /\ caas'[p].desired = "SUSPENDED" /\ caas'[p].runs = "SUSPENDED"
               /\ caas'[p].gen >= caas[p].gen
    <3>1. view[c].command[p] = "SUSPENDED" BY <2>3 DEF Silenced, Takes, Commanded
    <3>q. QED BY <1>1, <1>2, <2>3, <3>1 DEF Silenced, Takes, Tenants
  <2>q. QED BY <1>1, <2>1, <2>2, <2>3, TenantBecomes
<1>5. ASSUME NEW m \in late', m.p = p, m.gen > caas'[p].gen PROVE m.command = "SUSPENDED"
  <2>1. m.gen > caas[p].gen
    BY <1>1, <1>3, <1>4, <1>5 DEF Tenants
  <2>2. CASE m \in late
    BY <1>5, <2>1, <2>2 DEF Silenced
  <2>3. ASSUME NEW c \in Calls, pc[c] = "command", m.gen = view[c].gen,
               m.command = view[c].command[m.p], m.command \in Commanded
        PROVE  m.command = "SUSPENDED"
    BY <1>5, <2>1, <2>3 DEF Silenced, Commanded
  <2>q. QED BY <2>2, <2>3, LateWas
<1>6. ASSUME NEW c \in Calls, pc'[c] = "command", view'[c].gen > caas'[p].gen
      PROVE  view'[c].command[p] \in {"NONE", "SUSPENDED"}
  <2>1. view'[c].gen > caas[p].gen
    BY <1>1, <1>3, <1>4, <1>6 DEF Tenants
  <2>q. QED BY <1>6, <2>1, CallsSuspend DEF Silenced
<1>q. QED BY <1>4, <1>5, <1>6 DEF Silenced

LEMMA RevokedStays ==
    ASSUME Typed, Typed', NothingFromTheFuture, NothingFromTheFuture', SnapshotIsTheRecord,
           AnswersAreInPlace, Kinds, RevokedIsSuspended, SuspensionsStay
    PROVE  RevokedIsSuspended' /\ SuspensionsStay'
<1>1. \A p \in Revoked : ~part[p].revoke => Silenced(p)
  BY SilencedIs DEF RevokedAreSilenced
<1> SUFFICES RevokedAreSilenced'
  BY SilencedIs, PTL
<1> SUFFICES ASSUME NEW p \in Revoked', ~part'[p].revoke PROVE Silenced(p)'
  BY DEF RevokedAreSilenced
<1>2. ASSUME p \in Revoked, ~part[p].revoke PROVE Silenced(p)'
  BY <1>1, <1>2, SilencedStays
<1>3. CASE part' = part
  BY <1>2, <1>3, RecordKept
<1>4. CASE Asks
  BY <1>2, <1>4 DEF Asks
<1>5. ASSUME NEW c \in Calls, Prepares(c) PROVE Silenced(p)'
  <2>1. part'[p] = part[p]
    BY <1>5 DEF Prepares
  <2>2. p \in Revoked
    BY <2>1 DEF Revoked
  <2>q. QED BY <1>2, <2>1, <2>2
<1>6. ASSUME NEW c \in Calls, Reports(c) PROVE Silenced(p)'
  <2>1. p \in Revoked /\ p \in Participants /\ c \notin stale /\ ds'.gen = ds.gen
    BY <1>6 DEF Reports, Leaves, Revoked
  <2>2. got[c][p] = "SUSPENDED"
    BY <1>6, <2>1 DEF Reports
  <2>3. Holds(p, "SUSPENDED")
    BY <2>1, <2>2 DEF AnswersAreInPlace, AnswersOf, Commanded
  <2>4. caas'[p] = [gen |-> ds'.gen, desired |-> "SUSPENDED", runs |-> "SUSPENDED"]
    BY <2>1, <2>3, HoldsStays
  <2>5. ds'.gen \in Nat /\ caas'[p].gen = ds'.gen
    BY <2>4 DEF Typed, DsRecords
  <2>6. \A m \in late' : ~(m.gen > caas'[p].gen)
    BY <2>5 DEF NothingFromTheFuture, Typed, Messages
  <2>7. \A d \in Calls : ~(view'[d].gen > caas'[p].gen)
    BY <2>5 DEF NothingFromTheFuture, Typed, Views
  <2>q. QED BY <2>4, <2>6, <2>7 DEF Silenced
<1>7. part' = part \/ Asks \/ \E c \in Calls : Prepares(c) \/ Reports(c)
  BY DEF Kinds, Waits, Arrives, Tells, Moves, Reads, GivesUp
<1>q. QED BY <1>3, <1>4, <1>5, <1>6, <1>7

-----------------------------------------------------------------------------
(* The theorems                                                            *)

LEMMA IInvStarts == Init => IInv
<1> SUFFICES ASSUME Init PROVE IInv OBVIOUS
<1>1. NoView \in Views /\ Blank \in Answers /\ NoView.gen = 0
  BY BlankTypes
<1>2. /\ ds = Created /\ part = [p \in Participants |-> Unknown] /\ late = {} /\ stale = Calls
      /\ caas = [p \in Participants |-> [gen |-> 0, desired |-> "NONE", runs |-> "NONE"]]
      /\ pc = [c \in Calls |-> "idle"] /\ got = [c \in Calls |-> Blank]
      /\ view = [c \in Calls |-> NoView] /\ svc = "READY" /\ owner = Nobody
      /\ reg = [ver |-> 1, valid |-> Participants, up |-> TRUE]
  BY DEF Init
<1>3. ds \in DsRecords /\ ds.check = "due" /\ ds.gen = 1 /\ ds.applied = 0
  BY <1>2 DEF Created, DsRecords, Commanded, Registry
<1>4. Unknown \in PartRecords /\ Unknown.approval = "ABSENT"
  BY DEF Unknown, PartRecords, States
<1>5. part \in [Participants -> PartRecords] /\ Approved = {} /\ Revoked = {}
  BY <1>2, <1>4 DEF Approved, Revoked
<1>6. caas \in [Participants -> Tenants]
  <2>1. [gen |-> 0, desired |-> "NONE", runs |-> "NONE"] \in Tenants BY DEF Tenants, States
  <2>q. QED BY <1>2, <2>1
<1>7. /\ pc \in [Calls -> Places] /\ got \in [Calls -> Answers] /\ view \in [Calls -> Views]
      /\ svc \in Registry /\ reg \in Registers
  BY <1>1, <1>2 DEF Places, Registry, Registers
<1>8. Typed
  BY <1>2, <1>3, <1>5, <1>6, <1>7 DEF Typed
<1>9. NothingFromTheFuture
  BY <1>1, <1>2, <1>3 DEF NothingFromTheFuture
<1>10. SnapshotIsTheRecord /\ AnswersAreInPlace
  BY <1>2 DEF SnapshotIsTheRecord, AnswersAreInPlace
<1>11. SuspensionsStay /\ RevokedIsSuspended
  BY <1>5 DEF SuspensionsStay, RevokedIsSuspended
<1>12. RestIsConverged /\ AppliedIsTrue
  BY <1>5 DEF RestIsConverged, AppliedIsTrue
<1>q. QED BY <1>8, <1>9, <1>10, <1>11, <1>12 DEF IInv

LEMMA IInvStays == IInv /\ [Next]_vars => IInv'
<1> SUFFICES ASSUME IInv, [Next]_vars PROVE IInv' OBVIOUS
<1>1. /\ Typed /\ NothingFromTheFuture /\ SnapshotIsTheRecord /\ AnswersAreInPlace
      /\ SuspensionsStay /\ RestIsConverged /\ RevokedIsSuspended /\ AppliedIsTrue
  BY DEF IInv
<1>2. Kinds /\ Typed'
  BY <1>1, StepsAreOfAKind, TypedStays
<1>3. NothingFromTheFuture' /\ SnapshotIsTheRecord' /\ AnswersAreInPlace'
  BY <1>1, <1>2, FutureStays, SnapshotStays, AnswersStay
<1>4. RestIsConverged' /\ AppliedIsTrue' /\ RevokedIsSuspended' /\ SuspensionsStay'
  BY <1>1, <1>2, <1>3, RestStays, RevokedStays
<1>q. QED BY <1>2, <1>3, <1>4 DEF IInv

\* The inductive invariant holds in every state (reconcile, DsaasService).
THEOREM InvariantHolds == Spec => []IInv
  BY IInvStarts, IInvStays, PTL DEF Spec

\* What the record reports is in place at CaaS: a record at rest, the applied
\* generation, and a revocation that is not pending (reconcile, DsaasService).
THEOREM RecordIsKept == Spec => []RecordIsTrue
<1>1. IInv => RecordIsTrue
  <2> SUFFICES ASSUME IInv PROVE RecordIsTrue OBVIOUS
  <2>1. TypeOK
    <3>1. \A c \in Calls : view[c].gen <= ds.gen /\ view[c].fail \subseteq Participants
      BY DEF IInv, NothingFromTheFuture, Typed, Views
    <3>q. QED
      BY <3>1 DEF IInv, Typed, TypeOK, DsRecords, PartRecords, Tenants, Places, Answers, Commanded
  <2>q. QED BY <2>1 DEF IInv, RecordIsTrue
<1>q. QED BY <1>1, InvariantHolds, PTL
=============================================================================

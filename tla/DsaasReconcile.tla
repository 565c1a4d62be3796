-------------------------- MODULE DsaasReconcile --------------------------
(***************************************************************************)
(* One DSaaS dataspace: its record and participants, the calls that        *)
(* reconcile it (dsaas/service.mjs), the two trusted registries it reads,  *)
(* and the CaaS tenants it commands.                                       *)
(*                                                                         *)
(* reconcile runs under the resource lock of the dataspace; the other      *)
(* writers use the state transaction only.  From FencedStore this module   *)
(* takes that a call commits only while its lease is the newest, and that  *)
(* a call whose lease broke unnoticed goes on beside the next one.  From   *)
(* CaasTenant it takes the generation fence of ensureConnector: a command  *)
(* of a newer generation is accepted, one of an older generation or a      *)
(* different one of the same generation is refused.                        *)
(*                                                                         *)
(* record.revision is held as the set of calls whose snapshot is stale:    *)
(* every write increments it, and it is only compared with a snapshot's.   *)
(* A replayed Idempotency-Key changes nothing: its call ends (Stop).       *)
(***************************************************************************)
EXTENDS Naturals, FiniteSets

CONSTANTS
    Calls,            \* reconcile calls in flight
    Nobody,           \* no call
    Participants,     \* participants of the dataspace
    Wants,            \* the desired state in each participant's own spec
    Admins,           \* actors who submit and approve
    Submitter,        \* who submits each participant's application
    MaxSupersessions, \* maxReconcileSupersessions
    Budgets           \* bounds: who may apply, and how many asks (desired-state changes
                      \* and approvals), manual calls, registry changes and faults

ASSUME CallsAssumption  == Nobody \notin Calls
ASSUME WantsAssumption  == Wants \in [Participants -> {"ACTIVE", "SUSPENDED"}]
ASSUME AdminsAssumption == Submitter \in [Participants -> Admins]
ASSUME BoundsAssumption ==
    /\ MaxSupersessions \in Nat
    /\ Budgets \subseteq [applicants : SUBSET Participants, asks : Nat, manual : Nat,
                          changes : Nat, faults : Nat]

VARIABLES
    ds,      \* the dataspace record
    part,    \* its participants
    svc,     \* what the service registry says: all ready, not, or unreadable
    reg,     \* the approval registry: digest, valid decisions, readable
    caas,    \* the command each CaaS tenant accepted, and what runs
    late,    \* commands whose caller gave up, still on their way
    owner,   \* the call with the newest lease
    locked,  \* its connection is alive
    pc, mode, view, got, sup, \* each call: place, kind, snapshot, answers, supersessions
    stale,   \* calls whose snapshot is not the record any more
    left     \* what is left of the bounds

record == <<ds, part>>
world  == <<svc, reg, caas, late>>
lease  == <<owner, locked>>
call   == <<pc, mode, view, got, sup>>
vars   == <<record, world, lease, call, stale, left>>

-----------------------------------------------------------------------------
(* Values                                                                  *)

Modes == {"manual", "scheduled"}
Registry == {"READY", "DOWN", "GONE"}

Blank == [p \in Participants |-> "NONE"]
NoView == [gen |-> 0, svc |-> "NONE", ver |-> 0, fail |-> {}, command |-> Blank]

\* createDataspace.
Created == [desired |-> "ACTIVE", gen |-> 1, applied |-> 0, pending |-> TRUE,
            observed |-> "PENDING", svc |-> "NONE", retry |-> "none", check |-> "due"]

Unknown == [approval |-> "ABSENT", seen |-> 0,
            connector |-> "NONE", observed |-> "NONE", revoke |-> FALSE]

Approved == {p \in Participants : part[p].approval = "APPROVED"}
Revoked  == {p \in Participants : part[p].approval = "REAPPROVAL_REQUIRED"}

\* verifyApprovalDecision, under a registry that may be unreadable or stale.
Verifies(p) == reg.up /\ p \in reg.valid

Ready(s) == s = "READY"

\* observedServiceReadiness: "NONE" until a reconcile recorded a projection.
ReadinessKnown(d) == d.svc # "NONE"

\* serviceGateAffectsCaasCommand.
GateAffectsCommand == ds.desired # "SUSPENDED" /\ \E p \in Approved : Wants[p] # "SUSPENDED"

\* What a valid participant's connector should be.
WantedState(p, s) == IF ds.desired = "SUSPENDED" \/ ~Ready(s) THEN "SUSPENDED" ELSE Wants[p]

\* The deadline of the next governance check: null without approvals and registry.
Governance(s) == IF Approved # {} \/ s # "GONE" THEN "deadline" ELSE "never"

-----------------------------------------------------------------------------
(* Writers outside the resource lock                                       *)

\* One of the bounded things happens.
Spend(kind) == left[kind] > 0 /\ left' = [left EXCEPT ![kind] = @ - 1]

\* A new generation, due at once.
NextGeneration(d) == [d EXCEPT !.gen = @ + 1, !.pending = TRUE, !.retry = "none", !.check = "due"]

SetDesiredState(d) ==
    /\ Spend("asks") /\ d # ds.desired
    /\ ds' = [NextGeneration(ds) EXCEPT !.desired = d, !.observed = "RECONCILING"]
    /\ stale' = Calls
    /\ UNCHANGED <<part, world, lease, call>>

\* The record changes, its generation does not.
SubmitParticipant(p) ==
    /\ p \in left.applicants /\ left' = [left EXCEPT !.applicants = @ \ {p}]
    /\ part[p].approval = "ABSENT"
    /\ part' = [part EXCEPT ![p].approval = "PENDING_APPROVAL", ![p].observed = "PENDING_APPROVAL"]
    /\ stale' = Calls
    /\ UNCHANGED <<ds, world, lease, call>>

\* Four eyes; a reapproval keeps the connector it was suspended with.
ApproveParticipant(p, a) ==
    /\ Spend("asks")
    /\ part[p].approval \in {"PENDING_APPROVAL", "REAPPROVAL_REQUIRED"}
    /\ a # Submitter[p] /\ Verifies(p)
    /\ part' = [part EXCEPT ![p].approval = "APPROVED", ![p].seen = reg.ver,
                            ![p].observed = "PROVISIONING", ![p].revoke = FALSE]
    /\ ds' = [NextGeneration(ds) EXCEPT !.observed = "RECONCILING"]
    /\ stale' = Calls
    /\ UNCHANGED <<world, lease, call>>

-----------------------------------------------------------------------------
(* Registries and time                                                     *)

ServiceRegistryChanges(s) ==
    /\ Spend("changes") /\ s # svc /\ svc' = s
    /\ UNCHANGED <<record, reg, caas, late, lease, call, stale>>

\* A replaced file, or one that cannot be read or is past its own validity.
ApprovalRegistryChanges(valid, up) ==
    /\ Spend("changes")
    /\ reg' = IF up /\ reg.up THEN [ver |-> reg.ver + 1, valid |-> valid, up |-> TRUE]
              ELSE [reg EXCEPT !.up = up]
    /\ reg' # reg
    /\ UNCHANGED <<record, svc, caas, late, lease, call, stale>>

\* A decision ends; a check armed for an approved participant is due by then.
DecisionExpires(p) ==
    /\ Spend("changes") /\ p \in reg.valid
    /\ reg' = [reg EXCEPT !.valid = @ \ {p}]
    /\ ds' = IF p \in Approved /\ ds.check \in {"retry", "deadline"}
             THEN [ds EXCEPT !.check = "due"] ELSE ds
    /\ UNCHANGED <<part, svc, caas, late, lease, call, stale>>

\* nextCheckAt passes: a retry waits for the backoff, a deadline for the governance.
RetryTimePasses ==
    /\ ds.retry = "waiting" \/ ds.check = "retry"
    /\ ds' = [ds EXCEPT !.retry = IF @ = "waiting" THEN "over" ELSE @,
                        !.check = IF @ = "retry" THEN "due" ELSE @]
    /\ UNCHANGED <<part, world, lease, call, stale, left>>

DeadlinePasses ==
    /\ ds.check \in {"retry", "deadline"}
    /\ ds' = [ds EXCEPT !.check = "due"]
    /\ UNCHANGED <<part, world, lease, call, stale, left>>

-----------------------------------------------------------------------------
(* CaaS                                                                    *)

\* ensureConnector of the tenant (CaasTenant), by generation and command.
Newer(p, gen) == gen > caas[p].gen
Same(p, gen, command) == gen = caas[p].gen /\ command = caas[p].desired

Accept(p, gen, command) ==
    IF Newer(p, gen) THEN [caas EXCEPT ![p].gen = gen, ![p].desired = command]
    ELSE caas

\* The connector runs what its tenant was told.
InPlace(p) == caas[p].runs = caas[p].desired

CaasWorks(p) ==
    /\ ~InPlace(p) /\ caas' = [caas EXCEPT ![p].runs = caas[p].desired]
    /\ UNCHANGED <<record, svc, reg, late, lease, call, stale, left>>

LateArrives(m) ==
    /\ m \in late /\ late' = late \ {m}
    /\ caas' = Accept(m.p, m.gen, m.command)
    /\ UNCHANGED <<record, svc, reg, lease, call, stale, left>>

-----------------------------------------------------------------------------
(* reconcile                                                               *)

\* scheduledReconciliationTargets.
Target ==
    \/ Approved # {} /\ (~reg.up \/ \E p \in Approved : part[p].seen # reg.ver)
    \/ svc = "GONE" \/ ds.svc # svc
    \/ ds.check = "due"

\* A call takes a free slot; which one does not matter.
FreeSlot == CHOOSE c \in Calls : pc[c] = "idle"

Begin(m) == LET c == FreeSlot IN
    /\ (\E d \in Calls : pc[d] = "idle") /\ ~locked
    /\ IF m = "scheduled" THEN Target /\ UNCHANGED left ELSE Spend("manual")
    /\ owner' = c /\ locked' = TRUE
    /\ pc'   = [pc EXCEPT ![c] = "read"]
    /\ mode' = [mode EXCEPT ![c] = m]
    /\ UNCHANGED <<record, world, view, got, sup, stale>>

\* A call over; it releases the lease if it still has it.
Leave(c) ==
    /\ pc'   = [pc EXCEPT ![c] = "idle"]
    /\ mode' = [mode EXCEPT ![c] = "manual"]
    /\ view' = [view EXCEPT ![c] = NoView]
    /\ got'  = [got EXCEPT ![c] = Blank]
    /\ sup'  = [sup EXCEPT ![c] = 0]
    /\ locked' = (locked /\ owner # c)
    /\ owner' = IF owner = c THEN Nobody ELSE owner

LeaseLost ==
    /\ Spend("faults") /\ locked /\ locked' = FALSE
    /\ UNCHANGED <<record, world, owner, call, stale>>

\* An abort, an error or a crash.
Stop(c) ==
    /\ Spend("faults") /\ pc[c] # "idle" /\ Leave(c)
    /\ stale' = stale \cup {c}
    /\ UNCHANGED <<record, world>>

\* The approval checks of the participants that have a decision to check.
Checked  == Approved \cup Revoked
Failures == Revoked \cup {p \in Approved : ~Verifies(p)}

ApprovalsUnchanged == Failures \subseteq Revoked /\ \A p \in Approved \ Failures : part[p].seen = reg.ver
ServicesUnchanged  == ds.svc = svc

RevocationComplete ==
    /\ Failures # {}
    /\ \A p \in Failures : p \in Revoked /\ ~part[p].revoke /\ part[p].connector = "SUSPENDED"

ParticipantsCurrent ==
    \A p \in Approved : ~part[p].revoke /\ part[p].connector = WantedState(p, svc)

ExpectedState ==
    IF ds.desired = "SUSPENDED" THEN IF ParticipantsCurrent THEN "SUSPENDED" ELSE "RECONCILING"
    ELSE IF ~Ready(svc) THEN "BLOCKED"
    ELSE IF ParticipantsCurrent THEN "ACTIVE" ELSE "RECONCILING"

\* Mutant: unchanged registries are enough, whatever CaaS has reached.
NothingToDo_RegistriesOnly == ApprovalsUnchanged /\ ServicesUnchanged

\* A scheduled call that finds nothing to do returns its snapshot.
NothingToDo ==
    /\ ApprovalsUnchanged /\ ServicesUnchanged
    /\ \/ ds.retry = "waiting"
       \/ (RevocationComplete /\ ds.retry = "none")
       \/ (Failures = {} /\ ParticipantsCurrent /\ ds.observed = ExpectedState)

\* The requests of this snapshot: suspended unless approved, ready and wanted.
Commands(fail, s) ==
    [p \in Participants |-> IF p \notin Checked THEN "NONE"
                            ELSE IF p \in fail THEN "SUSPENDED" ELSE WantedState(p, s)]

\* Where a call goes with the snapshot it has: its transitions, then CaaS.
ServiceTransition ==
    /\ ds.svc # svc /\ ReadinessKnown(ds)
    /\ Ready(ds.svc) # Ready(svc) /\ GateAffectsCommand

\* The snapshot and both registries.  A change between these reads shows as a
\* stale snapshot or as a registry read after its change.
Read(c) ==
    /\ pc[c] = "read" /\ sup[c] < MaxSupersessions
    /\ IF mode[c] = "scheduled" /\ NothingToDo
       THEN Leave(c) /\ stale' = stale \cup {c}
       ELSE /\ view' = [view EXCEPT ![c] =
                           [gen |-> ds.gen, svc |-> svc, ver |-> reg.ver, fail |-> Failures,
                            command |-> Commands(Failures, svc)]]
            /\ pc' = [pc EXCEPT ![c] = IF Failures \subseteq Revoked
                                       THEN IF ServiceTransition THEN "gate" ELSE "command"
                                       ELSE "revoke"]
            /\ got' = [got EXCEPT ![c] = Blank]
            /\ stale' = stale \ {c}
            /\ UNCHANGED <<mode, sup, lease>>
    /\ UNCHANGED <<record, world, left>>

\* The answers a call waits for, and the transaction it is about to run.
Todo(c) == {p \in Participants : view[c].command[p] # "NONE" /\ got[c][p] = "NONE"}
Transacts(c, l) == pc[c] = l /\ (l = "command" => Todo(c) = {})
Transacting(c) == \E l \in {"revoke", "gate", "command"} : Transacts(c, l)

\* A transaction that finds another revision or generation.
Supersede(c) ==
    /\ Transacting(c) /\ owner = c /\ c \in stale
    /\ pc'  = [pc EXCEPT ![c] = "read"]
    /\ sup' = [sup EXCEPT ![c] = @ + 1]
    /\ view' = [view EXCEPT ![c] = NoView]
    /\ got' = [got EXCEPT ![c] = Blank]
    /\ UNCHANGED <<record, world, lease, mode, stale, left>>

\* Mutant: the transaction is fenced by its lease only.
Writes_AnyRevision(c, l) == Transacts(c, l) /\ owner = c

Writes(c, l) == Transacts(c, l) /\ owner = c /\ c \notin stale

\* A prepared transition is the snapshot the commands are sent from.
Prepared(c) ==
    /\ pc' = [pc EXCEPT ![c] = "command"]
    /\ view' = [view EXCEPT ![c].gen = ds'.gen]
    /\ stale' = Calls \ {c}
    /\ UNCHANGED <<world, lease, mode, got, sup, left>>

\* The revocation intent is durable before CaaS is asked to suspend.
PrepareRevocation(c) ==
    /\ Writes(c, "revoke")
    /\ part' = [p \in Participants |-> IF p \in view[c].fail
                  THEN [part[p] EXCEPT !.approval = "REAPPROVAL_REQUIRED", !.connector = "NONE",
                                       !.observed = "REVOKING", !.revoke = TRUE]
                  ELSE part[p]]
    /\ ds' = [NextGeneration(ds) EXCEPT !.observed = "BLOCKED", !.svc = view[c].svc]
    /\ Prepared(c)

PrepareServices(c) ==
    /\ Writes(c, "gate")
    /\ ds' = [NextGeneration(ds) EXCEPT !.svc = view[c].svc,
                 !.observed = IF Ready(view[c].svc) THEN "RECONCILING" ELSE "BLOCKED"]
    /\ UNCHANGED part
    /\ Prepared(c)

\* One ensureConnector call; it answers what is in place of the command.
Command(c, p) ==
    LET gen == view[c].gen
        command == view[c].command[p]
        answer == IF Newer(p, gen) THEN {"PROVISIONING", command}
                  ELSE IF ~Same(p, gen, command) THEN {"ERROR"}
                  ELSE IF InPlace(p) THEN {command} ELSE {"PROVISIONING"}
    IN  /\ pc[c] = "command" /\ p \in Todo(c)
        /\ \E a \in answer :
              /\ got' = [got EXCEPT ![c][p] = a]
              /\ caas' = [Accept(p, gen, command) EXCEPT ![p].runs = IF a = command THEN a ELSE @]
        /\ UNCHANGED <<record, svc, reg, late, lease, pc, mode, view, sup, stale, left>>

\* A timeout or a failed call: not delivered, delivered, or delivered later.
CommandFails(c, p) ==
    /\ pc[c] = "command" /\ p \in Todo(c) /\ Spend("faults")
    /\ got' = [got EXCEPT ![c][p] = "ERROR"]
    /\ LET m == [p |-> p, gen |-> view[c].gen, command |-> view[c].command[p]]
       IN  \/ caas' = Accept(p, m.gen, m.command) /\ UNCHANGED late
           \/ late' = late \cup {m} /\ UNCHANGED caas
    /\ UNCHANGED <<record, svc, reg, lease, pc, mode, view, sup, stale>>

\* The participant after its observation.
Observed(c, p) ==
    LET a == got[c][p]
        base == IF p \in view[c].fail THEN [part[p] EXCEPT !.approval = "REAPPROVAL_REQUIRED"]
                ELSE [part[p] EXCEPT !.seen = view[c].ver]
        state == IF p \in view[c].fail /\ a = "PROVISIONING" THEN "REVOKING" ELSE a
    IN  IF a = "NONE" THEN part[p]
        ELSE [base EXCEPT !.connector = IF a = "ERROR" THEN "NONE" ELSE a,
                          !.observed  = state,
                          !.revoke    = p \in view[c].fail /\ a # "SUSPENDED"]

\* nextCheckAt of the commit.  While an approval blocks, only a pending
\* revocation arms the retry.
NextCheck(converged, reached, blocked, s, retry, revoking) ==
    IF blocked THEN IF revoking THEN "retry"
                    ELSE IF Approved # {} THEN "deadline" ELSE "never"
    ELSE IF reached THEN Governance(s)
    ELSE IF ~Ready(s) /\ converged /\ retry = "none"
         THEN IF Approved # {} THEN "deadline" ELSE "never"
    ELSE "retry"

Commit(c) ==
    LET after     == [p \in Participants |-> Observed(c, p)]
        s         == view[c].svc
        blocked   == view[c].fail # {}
        converged == \A p \in Approved \ view[c].fail : after[p].observed = WantedState(p, s)
        reached   == ~blocked /\ converged /\ (ds.desired = "SUSPENDED" \/ Ready(s))
        retry     == IF \E p \in Participants : got[c][p] = "ERROR" THEN "waiting" ELSE "none"
    IN  /\ Writes(c, "command")
        /\ part' = after
        /\ ds' = [ds EXCEPT
              !.observed = IF blocked \/ (ds.desired # "SUSPENDED" /\ ~Ready(s)) THEN "BLOCKED"
                           ELSE IF ~converged THEN "RECONCILING" ELSE ds.desired,
              !.applied  = IF reached THEN view[c].gen ELSE @,
              !.pending  = ~reached,
              !.retry    = retry,
              !.check    = NextCheck(converged, reached, blocked, s, retry,
                                     \E p \in Participants : after[p].revoke),
              !.svc      = s]
        /\ Leave(c)
        /\ stale' = Calls
        /\ UNCHANGED <<world, left>>

\* maxReconcileSupersessions reached: the intent stays for a later call.
GiveUp(c) ==
    /\ pc[c] = "read" /\ sup[c] = MaxSupersessions /\ owner = c
    /\ ds' = [ds EXCEPT !.pending = TRUE, !.observed = "RECONCILING", !.check = "due"]
    /\ Leave(c)
    /\ stale' = Calls
    /\ UNCHANGED <<part, world, left>>

\* A call whose lease is not the newest any more can only end.
Fenced(c) ==
    /\ Transacting(c) \/ (pc[c] = "read" /\ sup[c] = MaxSupersessions)
    /\ owner # c
    /\ Leave(c) /\ stale' = stale \cup {c}
    /\ UNCHANGED <<record, world, left>>

-----------------------------------------------------------------------------

Init ==
    /\ ds = Created
    /\ part = [p \in Participants |-> Unknown]
    /\ svc = "READY"
    /\ reg = [ver |-> 1, valid |-> Participants, up |-> TRUE]
    /\ caas = [p \in Participants |-> [gen |-> 0, desired |-> "NONE", runs |-> "NONE"]]
    /\ late = {}
    /\ owner = Nobody /\ locked = FALSE
    /\ pc = [c \in Calls |-> "idle"] /\ mode = [c \in Calls |-> "manual"]
    /\ view = [c \in Calls |-> NoView] /\ got = [c \in Calls |-> Blank]
    /\ sup = [c \in Calls |-> 0]
    /\ stale = Calls
    /\ left \in Budgets

Reconcile(c) ==
    \/ Read(c) \/ Supersede(c) \/ PrepareRevocation(c) \/ PrepareServices(c)
    \/ \E p \in Participants : Command(c, p)
    \/ Commit(c) \/ GiveUp(c) \/ Fenced(c)

Next ==
    \/ \E d \in {"ACTIVE", "SUSPENDED"} : SetDesiredState(d)
    \/ \E p \in Participants : SubmitParticipant(p) \/ \E a \in Admins : ApproveParticipant(p, a)
    \/ \E s \in Registry : ServiceRegistryChanges(s)
    \/ \E valid \in SUBSET Participants, up \in BOOLEAN : ApprovalRegistryChanges(valid, up)
    \/ \E p \in Participants : DecisionExpires(p)
    \/ RetryTimePasses \/ DeadlinePasses
    \/ \E p \in Participants : CaasWorks(p)
    \/ \E m \in late : LateArrives(m)
    \/ LeaseLost
    \/ \E m \in Modes : Begin(m)
    \/ \E c \in Calls : \/ Stop(c) \/ Reconcile(c)
                        \/ \E p \in Participants : CommandFails(c, p)

Spec == Init /\ [][Next]_vars

\* A started call goes on, the scheduler ticks, time passes and CaaS works; no
\* operator has to call, and no fault or registry change has to happen.
Fairness ==
    /\ \A c \in Calls : WF_vars(Reconcile(c))
    /\ WF_vars(Begin("scheduled"))
    /\ WF_vars(RetryTimePasses) /\ WF_vars(DeadlinePasses)
    /\ \A p \in Participants : WF_vars(CaasWorks(p))

FairSpec == Spec /\ Fairness

-----------------------------------------------------------------------------
(* Properties                                                              *)

States == {"NONE", "PROVISIONING", "ACTIVE", "SUSPENDED", "ERROR"}

\* The record, the participants and the calls have the values of the code.
TypeOK ==
    /\ ds \in [desired : {"ACTIVE", "SUSPENDED"}, gen : Nat \ {0}, applied : Nat,
               pending : BOOLEAN, svc : Registry \cup {"NONE"},
               observed : {"PENDING", "RECONCILING", "BLOCKED", "ACTIVE", "SUSPENDED"},
               retry : {"none", "waiting", "over"}, check : {"due", "retry", "deadline", "never"}]
    /\ part \in [Participants ->
           [approval : {"ABSENT", "PENDING_APPROVAL", "APPROVED", "REAPPROVAL_REQUIRED"},
            seen : Nat, connector : States \ {"ERROR"},
            observed : States \cup {"PENDING_APPROVAL", "REVOKING"}, revoke : BOOLEAN]]
    /\ caas \in [Participants -> [gen : Nat, desired : States, runs : States]]
    /\ owner \in Calls \cup {Nobody} /\ stale \subseteq Calls
    /\ pc \in [Calls -> {"idle", "read", "revoke", "gate", "command"}]
    /\ got \in [Calls -> [Participants -> States]]
    /\ \A c \in Calls : view[c].gen <= ds.gen /\ view[c].fail \subseteq Participants

\* CaaS holds the command of the current generation, and it is in place.
Holds(p, command) == caas[p] = [gen |-> ds.gen, desired |-> command, runs |-> command]

\* A record that waits for nothing but a governance deadline is in place: no
\* interleaving of a lost lease, a late command, a service change and a newer
\* write makes DSaaS stop retrying a dataspace CaaS does not hold.
RestIsConverged ==
    (ds.check \in {"deadline", "never"} /\ Revoked = {}) =>
        \A p \in Approved : Holds(p, WantedState(p, ds.svc))

\* A revocation that is not pending any more is in force at CaaS, and no command
\* of the time before it can undo it.
RevokedIsSuspended ==
    \A p \in Revoked : ~part[p].revoke =>
        caas[p].desired = "SUSPENDED" /\ InPlace(p)

\* appliedGeneration is what CaaS had in place for every approved participant.
AppliedIsTrue ==
    (ds.applied = ds.gen /\ ~ds.pending /\ ds.observed \in {"ACTIVE", "SUSPENDED"}) =>
        \A p \in Approved : Holds(p, WantedState(p, ds.svc))

\* What the record reports is in place at CaaS: a record at rest, the applied
\* generation, and a revocation that is not pending (reconcile, DsaasService).
RecordIsTrue == TypeOK /\ RestIsConverged /\ RevokedIsSuspended /\ AppliedIsTrue

\* One generation is one command: CaaS never has to refuse the current one.
GenerationIsOneCommand ==
    \A c \in Calls, p \in Participants :
        (pc[c] = "command" /\ owner = c /\ c \notin stale /\ p \in Todo(c) /\ caas[p].gen = ds.gen)
            => caas[p].desired = view[c].command[p]

\* CaaS holds another command under the current generation.
Conflict == \E p \in Approved : caas[p].gen = ds.gen /\ caas[p].desired # WantedState(p, svc)

\* With no revoked participant, and unless the current generation is taken by
\* another command, the desired state reaches every approved connector.
Converges ==
    <>[](Revoked = {} /\ ~Conflict) =>
        <>[](\A p \in Approved : Verifies(p) => Holds(p, WantedState(p, svc)))

\* An approval that does not hold any more is followed by the suspension.
RevocationReaches ==
    \A p \in Participants :
        (part[p].approval \in {"APPROVED", "REAPPROVAL_REQUIRED"} /\ ~Verifies(p))
            ~> (caas[p].runs = "SUSPENDED" \/ Verifies(p))

\* docs/04-implementation/dsaas-control-plane.md: the newest desired generation
\* stays pending and the next reconcile takes it over.
SuspensionReaches ==
    \A p \in Participants :
        (ds.desired = "SUSPENDED" /\ part[p].approval = "APPROVED" /\ caas[p].runs = "ACTIVE")
            ~> (caas[p].runs = "SUSPENDED" \/ ds.desired # "SUSPENDED")
=============================================================================

---------------------------- MODULE CaasTenant ----------------------------
(***************************************************************************)
(* One CaaS tenant: its record in the control store, the calls that change *)
(* it (caas/service.mjs), and the external connector runtime those calls   *)
(* command.                                                                *)
(*                                                                         *)
(* Every call runs inside withResourceLock.  From FencedStore (theorems    *)
(* WritesAreFenced and LiveLeaseHolds) this module takes: a call writes    *)
(* the record only while its fencing token is the newest issued, and a     *)
(* call whose lease connection broke unnoticed goes on beside the next     *)
(* one.  A state transaction is therefore one step that needs Current(c),  *)
(* and a call that fails, is aborted or dies simply ends (Stop).  The      *)
(* single-transaction operations (setDesiredState, upgrade, rollback) are  *)
(* one step with their lease; reconcile and ensureConnector are several.   *)
(***************************************************************************)
EXTENDS Naturals

CONSTANTS
    Calls,          \* reconcile and ensure calls in flight
    Nobody,         \* no call
    Plans,          \* the configured connector plans
    FirstPlan,      \* the plan of the registration, which DSaaS requests name
    NoPlan,
    Requested,      \* desired states callers ask for
    MaxGeneration,  \* bound: desired changes of the tenant
    MaxDsGeneration,\* bound: DSaaS desired generations
    MaxToken        \* bound: leases granted

DesiredStates == {"PROVISIONED", "SUSPENDED", "DELETED", "DEPROVISIONED"}

ASSUME CallsAssumption  == Nobody \notin Calls
ASSUME PlansAssumption  == FirstPlan \in Plans /\ NoPlan \notin Plans
ASSUME InputsAssumption == Requested \subseteq DesiredStates
ASSUME BoundsAssumption == MaxGeneration \in Nat /\ MaxDsGeneration \in Nat /\ MaxToken \in Nat

VARIABLES
    tenant,     \* the authoritative record
    answered,   \* reconcile results in the idempotency ledger
    ensured,    \* ensure answers in the idempotency ledger
    fence,      \* the newest fencing token
    holder,     \* the call whose lease connection is alive
    runtime,    \* the connector runtime: operation and token applied, readiness
    pc,         \* where each call stands
    lease,      \* its fencing token
    req,        \* the ensure request it carries; NoRequest for a reconcile
    snap,       \* the record as it last read or wrote it
    seen,       \* what its passive observation saw of the runtime
    told        \* the state the caller was answered

store == <<tenant, answered, ensured>>
call  == <<pc, lease, req, snap, seen, told>>
vars  == <<store, fence, holder, runtime, call>>

-----------------------------------------------------------------------------
(* Values                                                                  *)

\* operationKey: a digest of generation, desired state and plan.
NoOp == [generation |-> 0, desired |-> "DEPROVISIONED", plan |-> NoPlan]
OpKey(t) == [generation |-> t.generation, desired |-> t.desired, plan |-> t.plan]
OpKeys == [generation : Nat, desired : DesiredStates, plan : Plans \cup {NoPlan}]

Final(desired) ==
    CASE desired = "PROVISIONED" -> "PROVISIONED"
      [] desired = "SUSPENDED"   -> "SUSPENDED"
      [] desired = "DELETED"     -> "DELETED"
      [] OTHER                   -> "NOT_PROVISIONED"

Pending(t) ==
    CASE t.desired = "PROVISIONED" /\ t.lifecycle = "UPGRADE"  -> "UPGRADING"
      [] t.desired = "PROVISIONED" /\ t.lifecycle = "ROLLBACK" -> "ROLLING_BACK"
      [] t.desired = "PROVISIONED" -> "PROVISIONING"
      [] t.desired = "SUSPENDED"   -> "SUSPENDING"
      [] t.desired = "DELETED"     -> "DELETING"
      [] OTHER                     -> "DEPROVISIONING"

FinalStates    == {"PROVISIONED", "SUSPENDED", "DELETED", "NOT_PROVISIONED"}
ObservedStates == FinalStates \cup {"UPGRADING", "ROLLING_BACK", "PROVISIONING",
                     "SUSPENDING", "DELETING", "DEPROVISIONING", "ERROR"}

NoRequest == [generation |-> 0, desired |-> "NONE"]
Requests  == [generation : 1..MaxDsGeneration, desired : {"ACTIVE", "SUSPENDED"}]
Mapped(r) == IF r.desired = "ACTIVE" THEN "PROVISIONED" ELSE "SUSPENDED"
Answers   == {"NONE", "ACTIVE", "SUSPENDED", "PROVISIONING", "ERROR"}

\* What observe reports, against the operation and token it is compared with.
NoView == [op |-> NoOp, token |-> 0, ready |-> FALSE]
Converged(view, key, token) == view.ready /\ view.op = key /\ view.token = token

\* The record claims that its current generation is in place.
Settled(t) == t.observed = Final(t.desired) /\ t.observedGeneration = t.generation

\* The DSaaS binding, generation fence and request digest are one field,
\* dsRequest: ensureConnector sets the three together.  overridden is not in the
\* code: who changed the lifecycle since the last DSaaS command, the administrator
\* or a rollback that the tenant called.
TenantRecords ==
    [desired : DesiredStates, observed : ObservedStates,
     generation : Nat, observedGeneration : Nat, opKey : OpKeys,
     plan : Plans, history : SUBSET Plans, deployed : Plans \cup {NoPlan},
     lifecycle : {"NONE", "UPGRADE", "ROLLBACK"},
     dsRequest : Requests \cup {NoRequest}, overridden : SUBSET {"admin", "rollback"}, token : Nat]

\* The registered record: nothing was ever deployed.
Registered ==
    [desired |-> "DEPROVISIONED", observed |-> "NOT_PROVISIONED",
     generation |-> 0, observedGeneration |-> 0, opKey |-> NoOp,
     plan |-> FirstPlan, history |-> {}, deployed |-> NoPlan,
     lifecycle |-> "NONE", dsRequest |-> NoRequest, overridden |-> {}, token |-> 0]

Bound(t) == t.dsRequest # NoRequest

-----------------------------------------------------------------------------
(* The lease                                                               *)

\* The store commits a transaction of c only under the newest lease.
Current(c) == lease[c] = fence

LeaseFree == holder = Nobody /\ fence < MaxToken

\* The lease connection breaks; the call does not notice.
LeaseLost ==
    /\ holder # Nobody
    /\ holder' = Nobody
    /\ UNCHANGED <<store, fence, runtime, call>>

\* A call over: its lease is released if it still had one.
Leave(c) == /\ pc'     = [pc EXCEPT ![c] = "idle"]
            /\ holder' = IF holder = c THEN Nobody ELSE holder
            /\ lease'  = [lease EXCEPT ![c] = 0]
            /\ req'    = [req EXCEPT ![c] = NoRequest]
            /\ snap'   = [snap EXCEPT ![c] = Registered]
            /\ seen'   = [seen EXCEPT ![c] = NoView]

\* A call goes on.
Goto(c, l) == pc' = [pc EXCEPT ![c] = l] /\ UNCHANGED <<holder, lease, req>>

Begin(c, r) ==
    /\ pc[c] = "idle" /\ LeaseFree
    /\ fence'  = fence + 1
    /\ holder' = c
    /\ pc'    = [pc EXCEPT ![c] = IF r = NoRequest THEN "leased" ELSE "requested"]
    /\ lease' = [lease EXCEPT ![c] = fence + 1]
    /\ req'   = [req EXCEPT ![c] = r]
    /\ told'  = [told EXCEPT ![c] = "NONE"]
    /\ UNCHANGED <<store, runtime, snap, seen>>

\* An error, an abort, a failed transaction or a crash, at any point.
Stop(c) ==
    /\ pc[c] # "idle"
    /\ Leave(c)
    /\ UNCHANGED <<store, fence, runtime, told>>

-----------------------------------------------------------------------------
(* Operations of one transaction                                           *)

\* A lease for one transaction, granted and released in the same step.
BriefLease == LeaseFree /\ fence' = fence + 1 /\ UNCHANGED <<answered, ensured, holder, runtime, call>>

\* authorizer.tenant lets both credentials use the three routes.
Roles == {"admin", "tenant"}

\* What a change of the lifecycle adds to overridden.
Override(role, lifecycle) ==
    IF role = "admin" THEN {"admin"} ELSE IF lifecycle = "ROLLBACK" THEN {"rollback"} ELSE {}

\* Mutant: setDesiredState without the DSAAS_LIFECYCLE_LOCKED check.
SetDesiredState_Unlocked(d, role) ==
    /\ BriefLease
    /\ tenant.desired # d /\ tenant.generation < MaxGeneration
    /\ tenant' = [tenant EXCEPT !.desired = d, !.generation = @ + 1,
                                !.lifecycle = "NONE",
                                !.overridden = @ \cup Override(role, "NONE")]

SetDesiredState(d, role) ==
    /\ BriefLease
    /\ Bound(tenant) => role = "admin"
    /\ tenant.desired # d /\ tenant.generation < MaxGeneration
    /\ tenant' = [tenant EXCEPT !.desired = d, !.generation = @ + 1,
                                !.lifecycle = "NONE",
                                !.overridden = @ \cup Override(role, "NONE")]

\* rememberConnectorVersion and applyConnectorVersion, then a new generation.
SwitchPlan(p, lifecycle, role) ==
    tenant' = [tenant EXCEPT !.history = @ \cup {tenant.plan}, !.plan = p,
                             !.desired = "PROVISIONED", !.lifecycle = lifecycle,
                             !.generation = @ + 1,
                             !.overridden = @ \cup Override(role, lifecycle)]

Upgrade(p, role) ==
    /\ BriefLease
    /\ tenant.desired = "PROVISIONED" /\ tenant.observed = "PROVISIONED"
    /\ p # tenant.plan /\ tenant.generation < MaxGeneration
    /\ SwitchPlan(p, "UPGRADE", role)

Rollback(p, role) ==
    /\ BriefLease
    /\ p \in tenant.history \ {tenant.plan} /\ tenant.generation < MaxGeneration
    /\ SwitchPlan(p, "ROLLBACK", role)

-----------------------------------------------------------------------------
(* ensureConnector: accepting the DSaaS command                            *)

\* The DSaaS generation fence.
Acceptable(r) ==
    /\ r.generation >= tenant.dsRequest.generation
    /\ r.generation = tenant.dsRequest.generation => r = tenant.dsRequest

Accept(c) ==
    /\ pc[c] = "requested" /\ Current(c)
    /\ tenant.plan = FirstPlan /\ Acceptable(req[c])
    /\ LET change == tenant.desired # Mapped(req[c])
       IN /\ change => tenant.generation < MaxGeneration
          /\ tenant' = [tenant EXCEPT
                !.dsRequest  = req[c],
                !.overridden = {},
                !.desired    = Mapped(req[c]),
                !.generation = IF change THEN @ + 1 ELSE @]
    /\ Goto(c, "leased")
    /\ UNCHANGED <<answered, ensured, fence, runtime, snap, seen, told>>

\* The request was answered before under this key: the same answer again.
ReplayEnsure(c) ==
    /\ pc[c] \in {"requested", "reconciled"} /\ req[c] # NoRequest
    /\ \E e \in ensured : e.request = req[c] /\ told' = [told EXCEPT ![c] = e.state]
    /\ Leave(c)
    /\ UNCHANGED <<store, fence, runtime>>

-----------------------------------------------------------------------------
(* #reconcileLocked                                                        *)

\* The first read.  A settled record is observed before anything is written;
\* one that nothing was ever applied for (token 0) is refused.
Snapshot(c) ==
    /\ pc[c] = "leased"
    /\ Settled(tenant) => tenant.token # 0
    /\ snap' = [snap EXCEPT ![c] = tenant]
    /\ Goto(c, IF Settled(tenant) THEN "observing" ELSE "ready")
    /\ UNCHANGED <<store, fence, runtime, seen, told>>

Observe(c) ==
    /\ pc[c] = "observing"
    /\ seen' = [seen EXCEPT ![c] = runtime]
    /\ Goto(c, "ready")
    /\ UNCHANGED <<store, fence, runtime, snap, told>>

\* A reconcile is over, with the record it answers: an ensure goes on.
Finish(c, t) ==
    IF req[c] = NoRequest
    THEN Leave(c)
    ELSE Goto(c, "reconciled") /\ snap' = [snap EXCEPT ![c] = t] /\ UNCHANGED seen

\* Prepare, the key was used before and its result still describes the record.
Replayed(c) ==
    /\ pc[c] = "ready"
    /\ <<tenant.generation, tenant.observed>> \in answered
    /\ Finish(c, tenant)
    /\ UNCHANGED <<store, fence, runtime, told>>

\* The record is still the one that was read.
Undisturbed(c) ==
    \A f \in {"generation", "desired", "observedGeneration", "observed", "opKey", "token"} :
        tenant[f] = snap[c][f]

StillObserved(c) == Converged(seen[c], OpKey(snap[c]), tenant.token)

\* Prepare, the passive observation found the settled record still in place.
Confirm(c) ==
    /\ pc[c] = "ready" /\ Current(c) /\ Undisturbed(c)
    /\ StillObserved(c) /\ tenant.observedGeneration = tenant.generation
    /\ answered' = answered \cup {<<tenant.generation, tenant.observed>>}
    /\ Finish(c, tenant)
    /\ UNCHANGED <<tenant, ensured, fence, runtime, told>>

\* Mutant: Prepare leaves the observed state alone until the command has answered.
Prepare_Silent(c) ==
    /\ pc[c] = "ready" /\ Current(c) /\ Undisturbed(c)
    /\ ~(StillObserved(c) /\ tenant.observedGeneration = tenant.generation)
    /\ tenant' = [tenant EXCEPT !.opKey = OpKey(snap[c])]
    /\ snap'   = [snap EXCEPT ![c] = tenant']
    /\ Goto(c, "prepared")
    /\ UNCHANGED <<answered, ensured, fence, runtime, seen, told>>

\* Prepare: the operation is written down before the runtime is commanded.
Prepare(c) ==
    /\ pc[c] = "ready" /\ Current(c) /\ Undisturbed(c)
    /\ ~(StillObserved(c) /\ tenant.observedGeneration = tenant.generation)
    /\ tenant' = [tenant EXCEPT !.observed = Pending(tenant), !.opKey = OpKey(snap[c])]
    /\ snap'   = [snap EXCEPT ![c] = tenant']
    /\ Goto(c, "prepared")
    /\ UNCHANGED <<answered, ensured, fence, runtime, seen, told>>

\* The runtime takes a command whose token is not below the last one it took.
Admits(token) == token >= runtime.token

\* provision, suspend, delete or deprovision.  The answer may get lost, and the
\* runtime may need more time to get ready.
Command(c) ==
    /\ pc[c] = "prepared" /\ Admits(lease[c])
    /\ \E ready \in BOOLEAN :
          runtime' = [op |-> snap[c].opKey, token |-> lease[c], ready |-> ready]
    /\ \E l \in {"commanded", "rejected"} : Goto(c, l)
    /\ UNCHANGED <<store, fence, snap, seen, told>>

\* The runtime refuses the command, or it fails before it is accepted.
CommandFails(c) ==
    /\ pc[c] = "prepared"
    /\ Goto(c, "rejected")
    /\ UNCHANGED <<store, fence, runtime, snap, seen, told>>

\* The observation after the command must confirm the token.
PostObserve(c) ==
    /\ pc[c] = "commanded"
    /\ seen' = [seen EXCEPT ![c] = runtime]
    /\ \E l \in {"observed", "unconfirmed"} :
          /\ l = "observed" => runtime.token = lease[c]
          /\ Goto(c, l)
    /\ UNCHANGED <<store, fence, runtime, snap, told>>

Succeeded(c) == Converged(seen[c], OpKey(snap[c]), lease[c])

Outcome(t, c) == IF Succeeded(c) THEN Final(t.desired) ELSE Pending(t)

Persist(c) ==
    /\ pc[c] = "observed" /\ Current(c)
    /\ tenant.opKey = snap[c].opKey /\ tenant.generation = snap[c].generation
    /\ LET placed  == Succeeded(c) /\ tenant.desired = "PROVISIONED"
           removed == Succeeded(c) /\ tenant.desired \in {"DELETED", "DEPROVISIONED"}
       IN tenant' = [tenant EXCEPT
            !.observed  = Outcome(tenant, c),
            !.observedGeneration = tenant.generation,
            !.deployed  = IF placed THEN tenant.plan ELSE IF removed THEN NoPlan ELSE @,
            !.lifecycle = IF placed THEN "NONE" ELSE @,
            !.token     = lease[c],
            !.opKey     = IF Succeeded(c) THEN NoOp ELSE @]
    /\ answered' = answered \cup {<<tenant'.generation, tenant'.observed>>}
    /\ Finish(c, tenant')
    /\ UNCHANGED <<ensured, fence, runtime, told>>

\* The command or its confirmation failed: ERROR, for the operation that failed.
RecordFailure(c) ==
    /\ pc[c] \in {"rejected", "unconfirmed"} /\ Current(c)
    /\ tenant.opKey = snap[c].opKey
    /\ tenant' = [tenant EXCEPT
          !.observed = "ERROR",
          !.token    = IF pc[c] = "unconfirmed" THEN lease[c] ELSE @]
    /\ IF req[c] = NoRequest THEN Leave(c) ELSE Goto(c, "failed") /\ UNCHANGED <<snap, seen>>
    /\ UNCHANGED <<answered, ensured, fence, runtime, told>>

-----------------------------------------------------------------------------
(* ensureConnector: the answer                                             *)

\* The reconcile threw and the record shows an error.
AnswerError(c) ==
    /\ req[c] # NoRequest /\ pc[c] \notin {"idle", "requested", "reconciled"}
    /\ tenant.observed = "ERROR"
    /\ told' = [told EXCEPT ![c] = "ERROR"]
    /\ Leave(c)
    /\ UNCHANGED <<store, fence, runtime>>

AnswerFor(r, observed) ==
    IF observed = "ERROR" THEN "ERROR"
    ELSE IF r.desired = "ACTIVE" /\ observed = "PROVISIONED" THEN "ACTIVE"
    ELSE IF r.desired = "SUSPENDED" /\ observed = "SUSPENDED" THEN "SUSPENDED"
    ELSE "PROVISIONING"

\* Mutant: The answer is recorded by a transaction that does not check the lease.
Answer_Unfenced(c) ==
    /\ pc[c] = "reconciled"
    /\ LET state == AnswerFor(req[c], snap[c].observed)
       IN /\ told' = [told EXCEPT ![c] = state]
          /\ ensured' = ensured \cup {[request |-> req[c], state |-> state]}
    /\ Leave(c)
    /\ UNCHANGED <<tenant, answered, fence, runtime>>

Answer(c) ==
    /\ pc[c] = "reconciled" /\ Current(c)
    /\ LET state == AnswerFor(req[c], snap[c].observed)
       IN /\ told' = [told EXCEPT ![c] = state]
          /\ ensured' = ensured \cup {[request |-> req[c], state |-> state]}
    /\ Leave(c)
    /\ UNCHANGED <<tenant, answered, fence, runtime>>

-----------------------------------------------------------------------------
(* The runtime on its own                                                  *)

\* A workload becomes ready after its command, or stops being so.
RuntimeTurns ==
    /\ runtime.token # 0
    /\ runtime' = [runtime EXCEPT !.ready = ~ @]
    /\ UNCHANGED <<store, fence, holder, call>>

-----------------------------------------------------------------------------
Init ==
    /\ tenant = Registered /\ answered = {} /\ ensured = {}
    /\ fence = 0 /\ holder = Nobody /\ runtime = NoView
    /\ pc    = [c \in Calls |-> "idle"]
    /\ lease = [c \in Calls |-> 0]
    /\ req   = [c \in Calls |-> NoRequest]
    /\ snap  = [c \in Calls |-> Registered]
    /\ seen  = [c \in Calls |-> NoView]
    /\ told  = [c \in Calls |-> "NONE"]

Lifecycle ==
    \E role \in Roles :
        \/ \E d \in Requested : SetDesiredState(d, role)
        \/ \E p \in Plans : Upgrade(p, role) \/ Rollback(p, role)

CallStep(c) ==
    \/ \E r \in Requests \cup {NoRequest} : Begin(c, r)
    \/ Stop(c)
    \/ Accept(c) \/ ReplayEnsure(c)
    \/ Snapshot(c) \/ Observe(c)
    \/ Replayed(c) \/ Confirm(c) \/ Prepare(c)
    \/ Command(c) \/ CommandFails(c) \/ PostObserve(c)
    \/ Persist(c) \/ RecordFailure(c)
    \/ AnswerError(c) \/ Answer(c)

Next == LeaseLost \/ Lifecycle \/ RuntimeTurns \/ \E c \in Calls : CallStep(c)

Spec == Init /\ [][Next]_vars

-----------------------------------------------------------------------------
(* Properties                                                              *)

Places == {"idle", "requested", "leased", "observing", "ready", "prepared", "commanded",
           "rejected", "unconfirmed", "observed", "reconciled", "failed"}
Views  == [op : OpKeys, token : Nat, ready : BOOLEAN]

\* The type invariant: the record, the ledger, the runtime and every call.
TypeOK ==
    /\ tenant \in TenantRecords
    /\ answered \subseteq Nat \X ObservedStates
    /\ ensured \subseteq [request : Requests, state : Answers]
    /\ fence \in Nat /\ holder \in Calls \cup {Nobody}
    /\ runtime \in Views
    /\ pc \in [Calls -> Places] /\ lease \in [Calls -> Nat]
    /\ req \in [Calls -> Requests \cup {NoRequest}]
    /\ snap \in [Calls -> TenantRecords] /\ seen \in [Calls -> Views]
    /\ told \in [Calls -> Answers]

\* A record that claims its current generation is in place is backed by the
\* runtime: the last operation the runtime took is exactly the record's, under
\* the token the record names.  #reconcileLocked writes PENDING before it
\* commands and the final state only after the observation, and a call whose
\* lease broke may still command the runtime between the two.
SettledIsBacked ==
    Settled(tenant) /\ tenant.token # 0 =>
        runtime.op = OpKey(tenant) /\ runtime.token = tenant.token

\* An ensure that first answers ACTIVE or SUSPENDED does so while its own
\* request is still the one the record is bound to, the record is settled in
\* the state the request asked for, and the runtime carries that operation: the
\* answer is built from a result read three transactions earlier.
EnsureAnswerIsBacked ==
    [][\A c \in Calls :
         pc[c] = "reconciled" /\ ensured' # ensured /\ told'[c] # told[c]
           /\ told'[c] \in {"ACTIVE", "SUSPENDED"} =>
             /\ tenant.dsRequest = req[c]
             /\ tenant.desired = Mapped(req[c]) /\ Settled(tenant)
             /\ runtime.op = OpKey(tenant)]_vars

\* Once bound to a dataspace, the desired state is the one DSaaS asked for last,
\* unless the CaaS administrator has changed the lifecycle since.  This is what
\* docs/04-implementation/caas-control-plane.md says; the rollback route breaks it.
DsaasIntentHolds ==
    Bound(tenant) /\ "admin" \notin tenant.overridden =>
        tenant.desired = Mapped(tenant.dsRequest)

\* What the code keeps of it: of all that a tenant's own credential can call, in
\* any order with the DSaaS commands, only a rollback takes the connector out of
\* the state DSaaS asked for last, and only from suspended to provisioned; the
\* next accepted command takes it back.
OnlyRollbackEscapes ==
    Bound(tenant) /\ "admin" \notin tenant.overridden =>
        \/ tenant.desired = Mapped(tenant.dsRequest)
        \/ tenant.desired = "PROVISIONED" /\ "rollback" \in tenant.overridden

=============================================================================

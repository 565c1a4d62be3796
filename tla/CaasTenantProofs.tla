------------------------ MODULE CaasTenantProofs -------------------------
(***************************************************************************)
(* What CaasTenant guarantees for any number of calls and plans and any    *)
(* bounds.  The argument: leases are distinct and ordered, the runtime     *)
(* takes tokens in that order, and a call whose command the runtime took   *)
(* last under the newest lease wrote the operation down before.  A settled *)
(* record therefore names what the runtime took last, and a call that has  *)
(* lost its lease can no longer make the runtime take anything.            *)
(***************************************************************************)
EXTENDS CaasTenant, TLAPS

-----------------------------------------------------------------------------
(* The inductive invariant                                                 *)

\* Places after the operation has been written down, after the runtime took
\* the command, and places whose snapshot is in use.
Taken == {"prepared", "commanded", "rejected", "unconfirmed", "observed"}
Sent  == {"commanded", "unconfirmed", "observed"}
InUse == Taken \cup {"observing", "ready"}

\* A call that was asked for by DSaaS carries its request.
HasRequest == \A c \in Calls : pc[c] \in {"requested", "reconciled"} => req[c] \in Requests

LeasesIssued ==
    \A c \in Calls : lease[c] <= fence /\ (pc[c] # "idle" => lease[c] # 0)

LeasesDistinct ==
    \A c, d \in Calls : c # d /\ lease[c] # 0 => lease[c] # lease[d]

TokensOrdered ==
    /\ tenant.token <= runtime.token /\ runtime.token <= fence
    /\ tenant.observedGeneration <= tenant.generation

\* The runtime holds the command of a call until a later lease commands it.
SentIsTaken ==
    \A c \in Calls : pc[c] \in Sent =>
        /\ lease[c] <= runtime.token
        /\ lease[c] = runtime.token => runtime.op = snap[c].opKey

SnapshotsAgree ==
    \A c \in Calls : pc[c] \in InUse =>
        /\ snap[c].generation <= tenant.generation
        /\ snap[c].generation = tenant.generation =>
               snap[c].desired = tenant.desired /\ snap[c].plan = tenant.plan

WrittenDown ==
    \A c \in Calls : pc[c] \in Taken => snap[c].opKey = OpKey(snap[c])

\* A record settled beside a prepared call was settled by a later lease.
PreparedIsPending ==
    \A c \in Calls : pc[c] = "prepared" /\ Settled(tenant) /\ tenant.token # 0 =>
        lease[c] < tenant.token

IInv == /\ TypeOK /\ HasRequest /\ LeasesIssued /\ LeasesDistinct /\ TokensOrdered
        /\ SentIsTaken /\ SnapshotsAgree /\ WrittenDown /\ PreparedIsPending
        /\ SettledIsBacked

\* For the answers of ensureConnector.
LedgerBounded == \A r \in answered : r[1] <= tenant.observedGeneration

LiveStatesApplied == tenant.observed \in {"PROVISIONED", "SUSPENDED"} => tenant.token # 0

\* While its lease is the newest, a call's request is the one in force ...
RequestInForce ==
    \A c \in Calls : Current(c) /\ pc[c] \notin {"idle", "requested"} /\ req[c] # NoRequest =>
        tenant.dsRequest = req[c] /\ tenant.desired = Mapped(req[c])

\* ... and so is the result it got.
ResultInForce ==
    \A c \in Calls : Current(c) /\ pc[c] = "reconciled" =>
        snap[c] = tenant /\ tenant.observedGeneration = tenant.generation

AInv == LedgerBounded /\ LiveStatesApplied /\ RequestInForce /\ ResultInForce

-----------------------------------------------------------------------------
(* The values                                                              *)

\* The parts of a record have their types.
LEMMA RecordTypes ==
    ASSUME NEW t \in TenantRecords
    PROVE  /\ t.desired \in DesiredStates /\ t.observed \in ObservedStates
           /\ t.generation \in Nat /\ t.observedGeneration \in Nat
           /\ t.opKey \in OpKeys /\ t.plan \in Plans /\ t.history \in SUBSET Plans
           /\ t.token \in Nat /\ t.dsRequest \in Requests \cup {NoRequest}
           /\ t.overridden \in SUBSET {"admin", "rollback"} /\ OpKey(t) \in OpKeys
  BY DEF TenantRecords, OpKey, OpKeys

\* A pending state and ERROR are never a final state.
LEMMA PendingIsNotFinal ==
    ASSUME NEW t \in TenantRecords
    PROVE  /\ Pending(t) \in ObservedStates \ FinalStates
           /\ Final(t.desired) \in FinalStates /\ Final(t.desired) \in ObservedStates
           /\ "ERROR" \notin FinalStates /\ "ERROR" \in ObservedStates
           /\ Pending(t) \notin {"PROVISIONED", "SUSPENDED"}
  BY RecordTypes DEF Pending, Final, FinalStates, ObservedStates, DesiredStates

\* Operations of two records are the same when their three parts are.
LEMMA SameOperation ==
    ASSUME NEW t, NEW u
    PROVE  OpKey(t) = OpKey(u) <=>
              t.generation = u.generation /\ t.desired = u.desired /\ t.plan = u.plan
  BY DEF OpKey

\* The registered record and the empty view have their types.
LEMMA RegisteredType == Registered \in TenantRecords /\ NoView \in Views
  BY PlansAssumption DEF Registered, TenantRecords, NoView, Views, NoOp, OpKeys, DesiredStates, ObservedStates,
     FinalStates

-----------------------------------------------------------------------------
(* What the actions make of the record                                     *)

\* A set desired state is a new generation; what was observed stays.
LEMMA SetDesiredStateEffect ==
    ASSUME TypeOK, NEW d \in Requested, NEW role \in Roles, SetDesiredState(d, role)
    PROVE  /\ tenant' \in TenantRecords
           /\ tenant'.generation = tenant.generation + 1
           /\ tenant'.observedGeneration = tenant.observedGeneration
           /\ tenant'.observed = tenant.observed /\ tenant'.token = tenant.token
           /\ tenant'.dsRequest = tenant.dsRequest
           /\ tenant'.overridden = tenant.overridden \cup Override(role, "NONE")
<1> DEFINE o == tenant.overridden \cup Override(role, "NONE")
           g == tenant.generation + 1
<1>1. tenant \in TenantRecords BY DEF TypeOK
<1>2. o \in SUBSET {"admin", "rollback"} /\ g \in Nat /\ d \in DesiredStates
  BY <1>1, RecordTypes, InputsAssumption DEF Override
<1>3. tenant' = [tenant EXCEPT !.desired = d, !.generation = g, !.lifecycle = "NONE",
                               !.overridden = o]
  BY DEF SetDesiredState
<1> HIDE DEF o, g
<1>4. tenant' \in TenantRecords BY <1>1, <1>2, <1>3, Zenon DEF TenantRecords
<1>5. /\ tenant'.generation = g /\ tenant'.observedGeneration = tenant.observedGeneration
      /\ tenant'.observed = tenant.observed /\ tenant'.token = tenant.token
      /\ tenant'.dsRequest = tenant.dsRequest
  BY <1>1, <1>3 DEF TenantRecords
<1>6. tenant'.overridden = o BY <1>1, <1>3, Zenon DEF TenantRecords
<1>q. QED BY <1>4, <1>5, <1>6 DEF g, o

\* Another plan is a new generation as well, and asks for PROVISIONED.
LEMMA SwitchPlanEffect ==
    ASSUME TypeOK, NEW p \in Plans, NEW role \in Roles, NEW l \in {"UPGRADE", "ROLLBACK"},
           SwitchPlan(p, l, role)
    PROVE  /\ tenant' \in TenantRecords
           /\ tenant'.generation = tenant.generation + 1
           /\ tenant'.observedGeneration = tenant.observedGeneration
           /\ tenant'.observed = tenant.observed /\ tenant'.token = tenant.token
           /\ tenant'.desired = "PROVISIONED" /\ tenant'.dsRequest = tenant.dsRequest
           /\ tenant'.overridden = tenant.overridden \cup Override(role, l)
<1> DEFINE o == tenant.overridden \cup Override(role, l)
           g == tenant.generation + 1
           h == tenant.history \cup {tenant.plan}
<1>1. tenant \in TenantRecords BY DEF TypeOK
<1>2. o \in SUBSET {"admin", "rollback"} /\ g \in Nat /\ h \in SUBSET Plans /\ "PROVISIONED" \in DesiredStates
      /\ l \in {"NONE", "UPGRADE", "ROLLBACK"}
  BY <1>1, RecordTypes DEF DesiredStates, Override
<1>3. tenant' = [tenant EXCEPT !.history = h, !.plan = p, !.desired = "PROVISIONED",
                               !.lifecycle = l, !.generation = g, !.overridden = o]
  BY DEF SwitchPlan
<1> HIDE DEF o, g, h
<1>4. tenant' \in TenantRecords BY <1>1, <1>2, <1>3, Zenon DEF TenantRecords
<1>5. /\ tenant'.generation = g /\ tenant'.observedGeneration = tenant.observedGeneration
      /\ tenant'.observed = tenant.observed /\ tenant'.token = tenant.token
      /\ tenant'.desired = "PROVISIONED" /\ tenant'.dsRequest = tenant.dsRequest
  BY <1>1, <1>3 DEF TenantRecords
<1>6. tenant'.overridden = o BY <1>1, <1>3, Zenon DEF TenantRecords
<1>q. QED BY <1>4, <1>5, <1>6 DEF g, o

\* An accepted command is the binding, under a new generation if it changes anything.
LEMMA AcceptEffect ==
    ASSUME TypeOK, HasRequest, NEW c \in Calls, Accept(c)
    PROVE  /\ tenant' \in TenantRecords /\ req[c] \in Requests
           /\ tenant'.desired = Mapped(req[c]) /\ tenant'.dsRequest = req[c]
           /\ tenant'.overridden = {}
           /\ tenant'.generation = IF tenant.desired # Mapped(req[c])
                                      THEN tenant.generation + 1 ELSE tenant.generation
           /\ tenant'.observedGeneration = tenant.observedGeneration
           /\ tenant'.observed = tenant.observed /\ tenant'.token = tenant.token
           /\ tenant'.plan = tenant.plan
<1>1. tenant \in TenantRecords BY DEF TypeOK
<1> DEFINE r == req[c]
           g == IF tenant.desired # Mapped(r) THEN tenant.generation + 1
                                              ELSE tenant.generation
           m == Mapped(r)
<1>2. r \in Requests BY DEF Accept, HasRequest
<1>3. g \in Nat /\ m \in DesiredStates
  BY <1>1, RecordTypes DEF Mapped, DesiredStates
<1>4. tenant' = [tenant EXCEPT !.dsRequest = r, !.overridden = {}, !.desired = m,
                               !.generation = g]
  BY DEF Accept
<1> HIDE DEF r, g, m
<1>5. tenant' \in TenantRecords BY <1>1, <1>2, <1>3, <1>4, Zenon DEF TenantRecords
<1>6. /\ tenant'.desired = m /\ tenant'.dsRequest = r /\ tenant'.generation = g
      /\ tenant'.observedGeneration = tenant.observedGeneration
      /\ tenant'.observed = tenant.observed /\ tenant'.token = tenant.token
      /\ tenant'.plan = tenant.plan
  BY <1>1, <1>4 DEF TenantRecords
<1>7. tenant'.overridden = {} BY <1>1, <1>4, Zenon DEF TenantRecords
<1>q. QED BY <1>2, <1>5, <1>6, <1>7 DEF r, g, m

\* Prepare writes the pending state and the operation, and nothing else.
LEMMA PrepareEffect ==
    ASSUME TypeOK, NEW c \in Calls, Prepare(c)
    PROVE  /\ tenant' \in TenantRecords
           /\ tenant'.observed = Pending(tenant) /\ tenant'.opKey = OpKey(snap[c])
           /\ tenant'.desired = tenant.desired /\ tenant'.plan = tenant.plan
           /\ tenant'.generation = tenant.generation
           /\ tenant'.observedGeneration = tenant.observedGeneration
           /\ tenant'.token = tenant.token /\ tenant'.dsRequest = tenant.dsRequest
           /\ tenant'.overridden = tenant.overridden
<1>1. tenant \in TenantRecords /\ snap[c] \in TenantRecords BY DEF TypeOK
<1> DEFINE k == OpKey(snap[c])
           p == Pending(tenant)
<1>2. k \in OpKeys /\ p \in ObservedStates BY <1>1, RecordTypes, PendingIsNotFinal
<1>3. tenant' = [tenant EXCEPT !.observed = p, !.opKey = k] BY DEF Prepare
<1> HIDE DEF k, p
<1>4. tenant' \in TenantRecords BY <1>1, <1>2, <1>3, Zenon DEF TenantRecords
<1>5. /\ tenant'.observed = p /\ tenant'.opKey = k
      /\ tenant'.desired = tenant.desired /\ tenant'.plan = tenant.plan
      /\ tenant'.generation = tenant.generation
      /\ tenant'.observedGeneration = tenant.observedGeneration
      /\ tenant'.token = tenant.token /\ tenant'.dsRequest = tenant.dsRequest
  BY <1>1, <1>3 DEF TenantRecords
<1>6. tenant'.overridden = tenant.overridden BY <1>1, <1>3, Zenon DEF TenantRecords
<1>q. QED BY <1>4, <1>5, <1>6 DEF k, p

\* Persist writes the outcome for the generation and lease it commanded.
LEMMA PersistEffect ==
    ASSUME TypeOK, NEW c \in Calls, Persist(c)
    PROVE  /\ tenant' \in TenantRecords
           /\ tenant'.observed = Outcome(tenant, c)
           /\ tenant'.observedGeneration = tenant.generation
           /\ tenant'.token = lease[c]
           /\ tenant'.desired = tenant.desired /\ tenant'.plan = tenant.plan
           /\ tenant'.generation = tenant.generation
           /\ tenant'.dsRequest = tenant.dsRequest
           /\ tenant'.overridden = tenant.overridden
<1>1. tenant \in TenantRecords BY DEF TypeOK
<1> DEFINE o == Outcome(tenant, c)
           placed  == Succeeded(c) /\ tenant.desired = "PROVISIONED"
           removed == Succeeded(c) /\ tenant.desired \in {"DELETED", "DEPROVISIONED"}
           d == IF placed THEN tenant.plan ELSE IF removed THEN NoPlan ELSE tenant.deployed
           l == IF placed THEN "NONE" ELSE tenant.lifecycle
           k == IF Succeeded(c) THEN NoOp ELSE tenant.opKey
           g == tenant.generation
           n == lease[c]
<1>2. o \in ObservedStates BY <1>1, PendingIsNotFinal DEF Outcome
<1>3. d \in Plans \cup {NoPlan} /\ l \in {"NONE", "UPGRADE", "ROLLBACK"} BY <1>1 DEF TenantRecords
<1>4. k \in OpKeys /\ g \in Nat /\ n \in Nat
  BY <1>1, RecordTypes, PlansAssumption DEF NoOp, OpKeys, DesiredStates, TypeOK
<1>5. tenant' = [tenant EXCEPT !.observed = o, !.observedGeneration = g, !.deployed = d,
                               !.lifecycle = l, !.token = n, !.opKey = k]
  BY DEF Persist
<1> HIDE DEF o, d, l, k, g, n
<1>6. tenant' \in TenantRecords
  BY <1>1, <1>2, <1>3, <1>4, <1>5, Zenon DEF TenantRecords
<1>7. /\ tenant'.observed = o /\ tenant'.observedGeneration = g /\ tenant'.token = n
      /\ tenant'.desired = tenant.desired /\ tenant'.plan = tenant.plan
      /\ tenant'.generation = tenant.generation
      /\ tenant'.dsRequest = tenant.dsRequest
  BY <1>1, <1>5 DEF TenantRecords
<1>8. tenant'.overridden = tenant.overridden BY <1>1, <1>5, Zenon DEF TenantRecords
<1>q. QED BY <1>6, <1>7, <1>8 DEF o, g, n

\* A failure leaves the desired state, the generation and the binding alone.
LEMMA RecordFailureEffect ==
    ASSUME TypeOK, NEW c \in Calls, RecordFailure(c)
    PROVE  /\ tenant' \in TenantRecords
           /\ tenant'.observed = "ERROR"
           /\ tenant'.token = IF pc[c] = "unconfirmed" THEN lease[c] ELSE tenant.token
           /\ tenant'.desired = tenant.desired /\ tenant'.plan = tenant.plan
           /\ tenant'.generation = tenant.generation
           /\ tenant'.observedGeneration = tenant.observedGeneration
           /\ tenant'.dsRequest = tenant.dsRequest
           /\ tenant'.overridden = tenant.overridden
<1>1. tenant \in TenantRecords BY DEF TypeOK
<1> DEFINE k == IF pc[c] = "unconfirmed" THEN lease[c] ELSE tenant.token
<1>2. k \in Nat /\ "ERROR" \in ObservedStates
  BY <1>1, RecordTypes, PendingIsNotFinal DEF TypeOK
<1>3. tenant' = [tenant EXCEPT !.observed = "ERROR", !.token = k] BY DEF RecordFailure
<1> HIDE DEF k
<1>4. tenant' \in TenantRecords BY <1>1, <1>2, <1>3, Zenon DEF TenantRecords
<1>5. /\ tenant'.observed = "ERROR" /\ tenant'.token = k
      /\ tenant'.desired = tenant.desired /\ tenant'.plan = tenant.plan
      /\ tenant'.generation = tenant.generation
      /\ tenant'.observedGeneration = tenant.observedGeneration
      /\ tenant'.dsRequest = tenant.dsRequest
  BY <1>1, <1>3 DEF TenantRecords
<1>6. tenant'.overridden = tenant.overridden BY <1>1, <1>3, Zenon DEF TenantRecords
<1>q. QED BY <1>4, <1>5, <1>6 DEF k

-----------------------------------------------------------------------------
(* Every action keeps the invariant                                        *)

CallTypes ==
    /\ holder \in Calls \cup {Nobody}
    /\ pc \in [Calls -> Places] /\ lease \in [Calls -> Nat]
    /\ req \in [Calls -> Requests \cup {NoRequest}]
    /\ snap \in [Calls -> TenantRecords] /\ seen \in [Calls -> Views]

\* A call that leaves keeps the types of the control state.
LEMMA LeaveTypes == ASSUME TypeOK, NEW c \in Calls, Leave(c) PROVE CallTypes'
BY RegisteredType DEF TypeOK, CallTypes, Leave, Places

\* So does one that goes on, with or without another snapshot.
LEMMA GoOnTypes ==
    ASSUME TypeOK, NEW c \in Calls, NEW l \in Places, Goto(c, l),
           snap' = snap \/ \E t \in TenantRecords : snap' = [snap EXCEPT ![c] = t],
           seen' = seen
    PROVE  CallTypes'
BY DEF TypeOK, CallTypes, Goto

\* The lease connection breaks: nothing the invariant speaks of changes.
LEMMA LeaseLostKeeps ==
    ASSUME IInv, LeaseLost
    PROVE  IInv'
<1> USE DEF IInv, store, call, Leave, Goto, InUse, Taken, Sent
<1>t. tenant \in TenantRecords /\ fence \in Nat /\ runtime \in Views BY DEF TypeOK
<1>r. /\ tenant.token \in Nat /\ tenant.generation \in Nat
      /\ tenant.observedGeneration \in Nat /\ runtime.token \in Nat
  BY <1>t, RecordTypes DEF Views
<1>a. TypeOK'
  BY RegisteredType, <1>t, <1>r DEF TypeOK, LeaseLost, Places, Answers, Views
<1>b. HasRequest'
  BY <1>t, <1>r DEF HasRequest, TypeOK, LeaseLost
<1>c. LeasesIssued'
  BY <1>t, <1>r DEF LeasesIssued, TypeOK, LeaseLost
<1>d. LeasesDistinct'
  BY <1>t, <1>r
  DEF LeasesDistinct, LeasesIssued, TokensOrdered, SentIsTaken, TypeOK, LeaseLost
<1>e. TokensOrdered'
  BY <1>t, <1>r
  DEF TokensOrdered, LeasesIssued, LeasesDistinct, SentIsTaken, TypeOK, LeaseLost
<1>f. SentIsTaken'
  BY <1>t, <1>r
  DEF SentIsTaken, LeasesIssued, LeasesDistinct, TokensOrdered, TypeOK, LeaseLost
<1>g. SnapshotsAgree'
  BY <1>t, <1>r DEF SnapshotsAgree, TypeOK, LeaseLost
<1>h. WrittenDown'
  BY <1>t, <1>r DEF WrittenDown, TypeOK, LeaseLost
<1>i. PreparedIsPending'
  BY <1>t, <1>r, PendingIsNotFinal
  DEF PreparedIsPending, SettledIsBacked, TokensOrdered, LeasesIssued, Settled, TypeOK, LeaseLost
<1>j. SettledIsBacked'
  BY <1>t, <1>r, PendingIsNotFinal
  DEF PreparedIsPending, SettledIsBacked, TokensOrdered, LeasesIssued, Settled, TypeOK, LeaseLost
<1>q. QED BY <1>a, <1>b, <1>c, <1>d, <1>e, <1>f, <1>g, <1>h, <1>i, <1>j

\* A new lease, above all others.
LEMMA BeginKeeps ==
    ASSUME IInv, NEW c \in Calls, NEW r \in Requests \cup {NoRequest}, Begin(c, r)
    PROVE  IInv'
<1> USE DEF IInv, store, call, Leave, Goto, InUse, Taken, Sent
<1>t. tenant \in TenantRecords /\ fence \in Nat /\ runtime \in Views BY DEF TypeOK
<1>r. /\ tenant.token \in Nat /\ tenant.generation \in Nat
      /\ tenant.observedGeneration \in Nat /\ runtime.token \in Nat
  BY <1>t, RecordTypes DEF Views
<1>a. TypeOK'
  BY RegisteredType, <1>t, <1>r DEF TypeOK, Begin, LeaseFree, Places, Answers, Views
<1>b. HasRequest'
  BY <1>t, <1>r DEF HasRequest, TypeOK, Begin, LeaseFree
<1>c. LeasesIssued'
  BY <1>t, <1>r DEF LeasesIssued, TypeOK, Begin, LeaseFree
<1>d. LeasesDistinct'
  BY <1>t, <1>r
  DEF LeasesDistinct, LeasesIssued, TokensOrdered, SentIsTaken, TypeOK, Begin, LeaseFree
<1>e. TokensOrdered'
  BY <1>t, <1>r
  DEF TokensOrdered, LeasesIssued, LeasesDistinct, SentIsTaken, TypeOK, Begin, LeaseFree
<1>f. SentIsTaken'
  BY <1>t, <1>r
  DEF SentIsTaken, LeasesIssued, LeasesDistinct, TokensOrdered, TypeOK, Begin, LeaseFree
<1>g. SnapshotsAgree'
  BY <1>t, <1>r DEF SnapshotsAgree, TypeOK, Begin, LeaseFree
<1>h. WrittenDown'
  BY <1>t, <1>r DEF WrittenDown, TypeOK, Begin, LeaseFree
<1>i. PreparedIsPending'
  BY <1>t, <1>r, PendingIsNotFinal
  DEF PreparedIsPending, SettledIsBacked, TokensOrdered, LeasesIssued, Settled, TypeOK, Begin, LeaseFree
<1>j. SettledIsBacked'
  BY <1>t, <1>r, PendingIsNotFinal
  DEF PreparedIsPending, SettledIsBacked, TokensOrdered, LeasesIssued, Settled, TypeOK, Begin, LeaseFree
<1>q. QED BY <1>a, <1>b, <1>c, <1>d, <1>e, <1>f, <1>g, <1>h, <1>i, <1>j

\* A call that ends leaves nothing behind.
LEMMA StopKeeps ==
    ASSUME IInv, NEW c \in Calls, Stop(c)
    PROVE  IInv'
<1> USE DEF IInv, store, call, Leave, Goto, InUse, Taken, Sent
<1>t. tenant \in TenantRecords /\ fence \in Nat /\ runtime \in Views BY DEF TypeOK
<1>r. /\ tenant.token \in Nat /\ tenant.generation \in Nat
      /\ tenant.observedGeneration \in Nat /\ runtime.token \in Nat
  BY <1>t, RecordTypes DEF Views
<1>a. TypeOK'
  BY RegisteredType, <1>t, <1>r DEF TypeOK, Stop, Places, Answers, Views
<1>b. HasRequest'
  BY <1>t, <1>r DEF HasRequest, TypeOK, Stop
<1>c. LeasesIssued'
  BY <1>t, <1>r DEF LeasesIssued, TypeOK, Stop
<1>d. LeasesDistinct'
  BY <1>t, <1>r
  DEF LeasesDistinct, LeasesIssued, TokensOrdered, SentIsTaken, TypeOK, Stop
<1>e. TokensOrdered'
  BY <1>t, <1>r
  DEF TokensOrdered, LeasesIssued, LeasesDistinct, SentIsTaken, TypeOK, Stop
<1>f. SentIsTaken'
  BY <1>t, <1>r
  DEF SentIsTaken, LeasesIssued, LeasesDistinct, TokensOrdered, TypeOK, Stop
<1>g. SnapshotsAgree'
  BY <1>t, <1>r DEF SnapshotsAgree, TypeOK, Stop
<1>h. WrittenDown'
  BY <1>t, <1>r DEF WrittenDown, TypeOK, Stop
<1>i. PreparedIsPending'
  BY <1>t, <1>r, PendingIsNotFinal
  DEF PreparedIsPending, SettledIsBacked, TokensOrdered, LeasesIssued, Settled, TypeOK, Stop
<1>j. SettledIsBacked'
  BY <1>t, <1>r, PendingIsNotFinal
  DEF PreparedIsPending, SettledIsBacked, TokensOrdered, LeasesIssued, Settled, TypeOK, Stop
<1>q. QED BY <1>a, <1>b, <1>c, <1>d, <1>e, <1>f, <1>g, <1>h, <1>i, <1>j

\* A new generation: the record is not settled.
LEMMA SetDesiredStateKeeps ==
    ASSUME IInv, NEW d \in Requested, NEW role \in Roles, SetDesiredState(d, role)
    PROVE  IInv'
<1> USE DEF IInv, store, call, Leave, Goto, InUse, Taken, Sent
<1>t. tenant \in TenantRecords /\ fence \in Nat /\ runtime \in Views BY DEF TypeOK
<1>r. /\ tenant.token \in Nat /\ tenant.generation \in Nat
      /\ tenant.observedGeneration \in Nat /\ runtime.token \in Nat
  BY <1>t, RecordTypes DEF Views
<1>u. /\ tenant' \in TenantRecords
      /\ tenant'.generation = tenant.generation + 1
      /\ tenant'.observedGeneration = tenant.observedGeneration
      /\ tenant'.observed = tenant.observed /\ tenant'.token = tenant.token
      /\ tenant'.dsRequest = tenant.dsRequest
      /\ tenant'.overridden = tenant.overridden \cup Override(role, "NONE")
  BY SetDesiredStateEffect
<1>v. BriefLease
  BY DEF SetDesiredState
<1>n. \A e \in Calls : snap[e].generation \in Nat BY RecordTypes DEF TypeOK
<1>a. TypeOK'
  BY RegisteredType, <1>t, <1>r, <1>u, <1>v
  DEF TypeOK, BriefLease, LeaseFree, Places, Answers, Views
<1>b. HasRequest'
  BY <1>t, <1>r, <1>u, <1>v DEF HasRequest, TypeOK, BriefLease, LeaseFree
<1>c. LeasesIssued'
  BY <1>t, <1>r, <1>u, <1>v DEF LeasesIssued, TypeOK, BriefLease, LeaseFree
<1>d. LeasesDistinct'
  BY <1>t, <1>r, <1>u, <1>v
  DEF LeasesDistinct, LeasesIssued, TokensOrdered, SentIsTaken, TypeOK, BriefLease, LeaseFree
<1>e. TokensOrdered'
  BY <1>t, <1>r, <1>u, <1>v
  DEF TokensOrdered, LeasesIssued, LeasesDistinct, SentIsTaken, TypeOK, BriefLease, LeaseFree
<1>f. SentIsTaken'
  BY <1>t, <1>r, <1>u, <1>v
  DEF SentIsTaken, LeasesIssued, LeasesDistinct, TokensOrdered, TypeOK, BriefLease, LeaseFree
<1>g. SnapshotsAgree'
  BY <1>t, <1>r, <1>u, <1>v, <1>n DEF SnapshotsAgree, TypeOK, BriefLease, LeaseFree
<1>h. WrittenDown'
  BY <1>t, <1>r, <1>u, <1>v DEF WrittenDown, TypeOK, BriefLease, LeaseFree
<1>i. PreparedIsPending'
  BY <1>t, <1>r, <1>u, <1>v, PendingIsNotFinal
  DEF PreparedIsPending, SettledIsBacked, TokensOrdered, LeasesIssued, Settled, TypeOK, BriefLease, LeaseFree
<1>j. SettledIsBacked'
  BY <1>t, <1>r, <1>u, <1>v, PendingIsNotFinal
  DEF PreparedIsPending, SettledIsBacked, TokensOrdered, LeasesIssued, Settled, TypeOK, BriefLease, LeaseFree
<1>q. QED BY <1>a, <1>b, <1>c, <1>d, <1>e, <1>f, <1>g, <1>h, <1>i, <1>j

\* A new plan is a new generation.
LEMMA UpgradeKeeps ==
    ASSUME IInv, NEW p \in Plans, NEW role \in Roles, Upgrade(p, role)
    PROVE  IInv'
<1> USE DEF IInv, store, call, Leave, Goto, InUse, Taken, Sent
<1>t. tenant \in TenantRecords /\ fence \in Nat /\ runtime \in Views BY DEF TypeOK
<1>r. /\ tenant.token \in Nat /\ tenant.generation \in Nat
      /\ tenant.observedGeneration \in Nat /\ runtime.token \in Nat
  BY <1>t, RecordTypes DEF Views
<1>s. SwitchPlan(p, "UPGRADE", role) BY DEF Upgrade
<1>u. /\ tenant' \in TenantRecords
      /\ tenant'.generation = tenant.generation + 1
      /\ tenant'.observedGeneration = tenant.observedGeneration
      /\ tenant'.observed = tenant.observed /\ tenant'.token = tenant.token
  BY <1>s, SwitchPlanEffect
<1>v. BriefLease
  BY DEF Upgrade
<1>n. \A e \in Calls : snap[e].generation \in Nat BY RecordTypes DEF TypeOK
<1>a. TypeOK'
  BY RegisteredType, <1>t, <1>r, <1>u, <1>v
  DEF TypeOK, BriefLease, LeaseFree, Places, Answers, Views
<1>b. HasRequest'
  BY <1>t, <1>r, <1>u, <1>v DEF HasRequest, TypeOK, BriefLease, LeaseFree
<1>c. LeasesIssued'
  BY <1>t, <1>r, <1>u, <1>v DEF LeasesIssued, TypeOK, BriefLease, LeaseFree
<1>d. LeasesDistinct'
  BY <1>t, <1>r, <1>u, <1>v
  DEF LeasesDistinct, LeasesIssued, TokensOrdered, SentIsTaken, TypeOK, BriefLease, LeaseFree
<1>e. TokensOrdered'
  BY <1>t, <1>r, <1>u, <1>v
  DEF TokensOrdered, LeasesIssued, LeasesDistinct, SentIsTaken, TypeOK, BriefLease, LeaseFree
<1>f. SentIsTaken'
  BY <1>t, <1>r, <1>u, <1>v
  DEF SentIsTaken, LeasesIssued, LeasesDistinct, TokensOrdered, TypeOK, BriefLease, LeaseFree
<1>g. SnapshotsAgree'
  BY <1>t, <1>r, <1>u, <1>v, <1>n DEF SnapshotsAgree, TypeOK, BriefLease, LeaseFree
<1>h. WrittenDown'
  BY <1>t, <1>r, <1>u, <1>v DEF WrittenDown, TypeOK, BriefLease, LeaseFree
<1>i. PreparedIsPending'
  BY <1>t, <1>r, <1>u, <1>v, PendingIsNotFinal
  DEF PreparedIsPending, SettledIsBacked, TokensOrdered, LeasesIssued, Settled, TypeOK, BriefLease, LeaseFree
<1>j. SettledIsBacked'
  BY <1>t, <1>r, <1>u, <1>v, PendingIsNotFinal
  DEF PreparedIsPending, SettledIsBacked, TokensOrdered, LeasesIssued, Settled, TypeOK, BriefLease, LeaseFree
<1>q. QED BY <1>a, <1>b, <1>c, <1>d, <1>e, <1>f, <1>g, <1>h, <1>i, <1>j

\* So is an earlier plan.
LEMMA RollbackKeeps ==
    ASSUME IInv, NEW p \in Plans, NEW role \in Roles, Rollback(p, role)
    PROVE  IInv'
<1> USE DEF IInv, store, call, Leave, Goto, InUse, Taken, Sent
<1>t. tenant \in TenantRecords /\ fence \in Nat /\ runtime \in Views BY DEF TypeOK
<1>r. /\ tenant.token \in Nat /\ tenant.generation \in Nat
      /\ tenant.observedGeneration \in Nat /\ runtime.token \in Nat
  BY <1>t, RecordTypes DEF Views
<1>s. SwitchPlan(p, "ROLLBACK", role) BY DEF Rollback
<1>u. /\ tenant' \in TenantRecords
      /\ tenant'.generation = tenant.generation + 1
      /\ tenant'.observedGeneration = tenant.observedGeneration
      /\ tenant'.observed = tenant.observed /\ tenant'.token = tenant.token
  BY <1>s, SwitchPlanEffect
<1>v. BriefLease
  BY DEF Rollback
<1>n. \A e \in Calls : snap[e].generation \in Nat BY RecordTypes DEF TypeOK
<1>a. TypeOK'
  BY RegisteredType, <1>t, <1>r, <1>u, <1>v
  DEF TypeOK, BriefLease, LeaseFree, Places, Answers, Views
<1>b. HasRequest'
  BY <1>t, <1>r, <1>u, <1>v DEF HasRequest, TypeOK, BriefLease, LeaseFree
<1>c. LeasesIssued'
  BY <1>t, <1>r, <1>u, <1>v DEF LeasesIssued, TypeOK, BriefLease, LeaseFree
<1>d. LeasesDistinct'
  BY <1>t, <1>r, <1>u, <1>v
  DEF LeasesDistinct, LeasesIssued, TokensOrdered, SentIsTaken, TypeOK, BriefLease, LeaseFree
<1>e. TokensOrdered'
  BY <1>t, <1>r, <1>u, <1>v
  DEF TokensOrdered, LeasesIssued, LeasesDistinct, SentIsTaken, TypeOK, BriefLease, LeaseFree
<1>f. SentIsTaken'
  BY <1>t, <1>r, <1>u, <1>v
  DEF SentIsTaken, LeasesIssued, LeasesDistinct, TokensOrdered, TypeOK, BriefLease, LeaseFree
<1>g. SnapshotsAgree'
  BY <1>t, <1>r, <1>u, <1>v, <1>n DEF SnapshotsAgree, TypeOK, BriefLease, LeaseFree
<1>h. WrittenDown'
  BY <1>t, <1>r, <1>u, <1>v DEF WrittenDown, TypeOK, BriefLease, LeaseFree
<1>i. PreparedIsPending'
  BY <1>t, <1>r, <1>u, <1>v, PendingIsNotFinal
  DEF PreparedIsPending, SettledIsBacked, TokensOrdered, LeasesIssued, Settled, TypeOK, BriefLease, LeaseFree
<1>j. SettledIsBacked'
  BY <1>t, <1>r, <1>u, <1>v, PendingIsNotFinal
  DEF PreparedIsPending, SettledIsBacked, TokensOrdered, LeasesIssued, Settled, TypeOK, BriefLease, LeaseFree
<1>q. QED BY <1>a, <1>b, <1>c, <1>d, <1>e, <1>f, <1>g, <1>h, <1>i, <1>j

\* A DSaaS command changes the desired state under a new generation.
LEMMA AcceptKeeps ==
    ASSUME IInv, NEW c \in Calls, Accept(c)
    PROVE  IInv'
<1> USE DEF IInv, store, call, Leave, Goto, InUse, Taken, Sent
<1>t. tenant \in TenantRecords /\ fence \in Nat /\ runtime \in Views BY DEF TypeOK
<1>r. /\ tenant.token \in Nat /\ tenant.generation \in Nat
      /\ tenant.observedGeneration \in Nat /\ runtime.token \in Nat
  BY <1>t, RecordTypes DEF Views
<1>u. /\ tenant' \in TenantRecords /\ req[c] \in Requests
      /\ tenant'.desired = Mapped(req[c]) /\ tenant'.dsRequest = req[c]
      /\ tenant'.overridden = {}
      /\ tenant'.generation = IF tenant.desired # Mapped(req[c])
                                 THEN tenant.generation + 1 ELSE tenant.generation
      /\ tenant'.observedGeneration = tenant.observedGeneration
      /\ tenant'.observed = tenant.observed /\ tenant'.token = tenant.token
      /\ tenant'.plan = tenant.plan
  BY AcceptEffect
<1>v. /\ pc[c] = "requested" /\ Current(c) /\ Goto(c, "leased")
      /\ UNCHANGED <<answered, ensured, fence, runtime, snap, seen, told>>
  BY DEF Accept
<1>n. \A e \in Calls : snap[e].generation \in Nat BY RecordTypes DEF TypeOK
<1>a. TypeOK'
  BY RegisteredType, <1>t, <1>r, <1>u, <1>v DEF TypeOK, Current, Places, Answers, Views
<1>b. HasRequest'
  BY <1>t, <1>r, <1>u, <1>v DEF HasRequest, TypeOK, Current
<1>c. LeasesIssued'
  BY <1>t, <1>r, <1>u, <1>v DEF LeasesIssued, TypeOK, Current
<1>d. LeasesDistinct'
  BY <1>t, <1>r, <1>u, <1>v
  DEF LeasesDistinct, LeasesIssued, TokensOrdered, SentIsTaken, TypeOK, Current
<1>e. TokensOrdered'
  BY <1>t, <1>r, <1>u, <1>v
  DEF TokensOrdered, LeasesIssued, LeasesDistinct, SentIsTaken, TypeOK, Current
<1>f. SentIsTaken'
  BY <1>t, <1>r, <1>u, <1>v
  DEF SentIsTaken, LeasesIssued, LeasesDistinct, TokensOrdered, TypeOK, Current
<1>g. SnapshotsAgree'
  BY <1>t, <1>r, <1>u, <1>v, <1>n DEF SnapshotsAgree, TypeOK, Current
<1>h. WrittenDown'
  BY <1>t, <1>r, <1>u, <1>v DEF WrittenDown, TypeOK, Current
<1>i. PreparedIsPending'
  BY <1>t, <1>r, <1>u, <1>v, PendingIsNotFinal
  DEF PreparedIsPending, SettledIsBacked, TokensOrdered, LeasesIssued, Settled, TypeOK, Current
<1>j. SettledIsBacked'
  BY <1>t, <1>r, <1>u, <1>v DEF SettledIsBacked, TokensOrdered, Settled, OpKey, Current
<1>q. QED BY <1>a, <1>b, <1>c, <1>d, <1>e, <1>f, <1>g, <1>h, <1>i, <1>j

\* A replay ends the call.
LEMMA ReplayEnsureKeeps ==
    ASSUME IInv, NEW c \in Calls, ReplayEnsure(c)
    PROVE  IInv'
<1> USE DEF IInv, store, call, Leave, Goto, InUse, Taken, Sent
<1>t. tenant \in TenantRecords /\ fence \in Nat /\ runtime \in Views BY DEF TypeOK
<1>r. /\ tenant.token \in Nat /\ tenant.generation \in Nat
      /\ tenant.observedGeneration \in Nat /\ runtime.token \in Nat
  BY <1>t, RecordTypes DEF Views
<1>a. TypeOK'
  BY RegisteredType, <1>t, <1>r DEF TypeOK, ReplayEnsure, Places, Answers, Views
<1>b. HasRequest'
  BY <1>t, <1>r DEF HasRequest, TypeOK, ReplayEnsure
<1>c. LeasesIssued'
  BY <1>t, <1>r DEF LeasesIssued, TypeOK, ReplayEnsure
<1>d. LeasesDistinct'
  BY <1>t, <1>r
  DEF LeasesDistinct, LeasesIssued, TokensOrdered, SentIsTaken, TypeOK, ReplayEnsure
<1>e. TokensOrdered'
  BY <1>t, <1>r
  DEF TokensOrdered, LeasesIssued, LeasesDistinct, SentIsTaken, TypeOK, ReplayEnsure
<1>f. SentIsTaken'
  BY <1>t, <1>r
  DEF SentIsTaken, LeasesIssued, LeasesDistinct, TokensOrdered, TypeOK, ReplayEnsure
<1>g. SnapshotsAgree'
  BY <1>t, <1>r DEF SnapshotsAgree, TypeOK, ReplayEnsure
<1>h. WrittenDown'
  BY <1>t, <1>r DEF WrittenDown, TypeOK, ReplayEnsure
<1>i. PreparedIsPending'
  BY <1>t, <1>r, PendingIsNotFinal
  DEF PreparedIsPending, SettledIsBacked, TokensOrdered, LeasesIssued, Settled, TypeOK, ReplayEnsure
<1>j. SettledIsBacked'
  BY <1>t, <1>r, PendingIsNotFinal
  DEF PreparedIsPending, SettledIsBacked, TokensOrdered, LeasesIssued, Settled, TypeOK, ReplayEnsure
<1>q. QED BY <1>a, <1>b, <1>c, <1>d, <1>e, <1>f, <1>g, <1>h, <1>i, <1>j

\* The snapshot is the record.
LEMMA SnapshotKeeps ==
    ASSUME IInv, NEW c \in Calls, Snapshot(c)
    PROVE  IInv'
<1> USE DEF IInv, store, call, Leave, Goto, InUse, Taken, Sent
<1>t. tenant \in TenantRecords /\ fence \in Nat /\ runtime \in Views BY DEF TypeOK
<1>r. /\ tenant.token \in Nat /\ tenant.generation \in Nat
      /\ tenant.observedGeneration \in Nat /\ runtime.token \in Nat
  BY <1>t, RecordTypes DEF Views
<1>a. TypeOK'
  BY RegisteredType, <1>t, <1>r DEF TypeOK, Snapshot, Places, Answers, Views
<1>b. HasRequest'
  BY <1>t, <1>r DEF HasRequest, TypeOK, Snapshot
<1>c. LeasesIssued'
  BY <1>t, <1>r DEF LeasesIssued, TypeOK, Snapshot
<1>d. LeasesDistinct'
  BY <1>t, <1>r
  DEF LeasesDistinct, LeasesIssued, TokensOrdered, SentIsTaken, TypeOK, Snapshot
<1>e. TokensOrdered'
  BY <1>t, <1>r
  DEF TokensOrdered, LeasesIssued, LeasesDistinct, SentIsTaken, TypeOK, Snapshot
<1>f. SentIsTaken'
  BY <1>t, <1>r
  DEF SentIsTaken, LeasesIssued, LeasesDistinct, TokensOrdered, TypeOK, Snapshot
<1>g. SnapshotsAgree'
  BY <1>t, <1>r DEF SnapshotsAgree, TypeOK, Snapshot
<1>h. WrittenDown'
  BY <1>t, <1>r DEF WrittenDown, TypeOK, Snapshot
<1>i. PreparedIsPending'
  BY <1>t, <1>r, PendingIsNotFinal
  DEF PreparedIsPending, SettledIsBacked, TokensOrdered, LeasesIssued, Settled, TypeOK, Snapshot
<1>j. SettledIsBacked'
  BY <1>t, <1>r, PendingIsNotFinal
  DEF PreparedIsPending, SettledIsBacked, TokensOrdered, LeasesIssued, Settled, TypeOK, Snapshot
<1>q. QED BY <1>a, <1>b, <1>c, <1>d, <1>e, <1>f, <1>g, <1>h, <1>i, <1>j

\* An observation changes no record.
LEMMA ObserveKeeps ==
    ASSUME IInv, NEW c \in Calls, Observe(c)
    PROVE  IInv'
<1> USE DEF IInv, store, call, Leave, Goto, InUse, Taken, Sent
<1>t. tenant \in TenantRecords /\ fence \in Nat /\ runtime \in Views BY DEF TypeOK
<1>r. /\ tenant.token \in Nat /\ tenant.generation \in Nat
      /\ tenant.observedGeneration \in Nat /\ runtime.token \in Nat
  BY <1>t, RecordTypes DEF Views
<1>a. TypeOK'
  BY RegisteredType, <1>t, <1>r DEF TypeOK, Observe, Places, Answers, Views
<1>b. HasRequest'
  BY <1>t, <1>r DEF HasRequest, TypeOK, Observe
<1>c. LeasesIssued'
  BY <1>t, <1>r DEF LeasesIssued, TypeOK, Observe
<1>d. LeasesDistinct'
  BY <1>t, <1>r
  DEF LeasesDistinct, LeasesIssued, TokensOrdered, SentIsTaken, TypeOK, Observe
<1>e. TokensOrdered'
  BY <1>t, <1>r
  DEF TokensOrdered, LeasesIssued, LeasesDistinct, SentIsTaken, TypeOK, Observe
<1>f. SentIsTaken'
  BY <1>t, <1>r
  DEF SentIsTaken, LeasesIssued, LeasesDistinct, TokensOrdered, TypeOK, Observe
<1>g. SnapshotsAgree'
  BY <1>t, <1>r DEF SnapshotsAgree, TypeOK, Observe
<1>h. WrittenDown'
  BY <1>t, <1>r DEF WrittenDown, TypeOK, Observe
<1>i. PreparedIsPending'
  BY <1>t, <1>r, PendingIsNotFinal
  DEF PreparedIsPending, SettledIsBacked, TokensOrdered, LeasesIssued, Settled, TypeOK, Observe
<1>j. SettledIsBacked'
  BY <1>t, <1>r, PendingIsNotFinal
  DEF PreparedIsPending, SettledIsBacked, TokensOrdered, LeasesIssued, Settled, TypeOK, Observe
<1>q. QED BY <1>a, <1>b, <1>c, <1>d, <1>e, <1>f, <1>g, <1>h, <1>i, <1>j

\* A replayed result changes no record.
LEMMA ReplayedKeeps ==
    ASSUME IInv, NEW c \in Calls, Replayed(c)
    PROVE  IInv'
<1> USE DEF IInv, store, call, Leave, Goto, InUse, Taken, Sent
<1>t. tenant \in TenantRecords /\ fence \in Nat /\ runtime \in Views BY DEF TypeOK
<1>r. /\ tenant.token \in Nat /\ tenant.generation \in Nat
      /\ tenant.observedGeneration \in Nat /\ runtime.token \in Nat
  BY <1>t, RecordTypes DEF Views
<1>a. TypeOK'
  <2> HIDE DEF Leave, Goto
  <2>1. tenant' \in TenantRecords
    BY <1>t, <1>r, RecordTypes DEF TypeOK, Replayed
  <2>2. CASE req[c] = NoRequest
    BY <1>t, <2>1, <2>2, LeaveTypes DEF TypeOK, CallTypes, Views, Replayed, Finish
  <2>3. CASE req[c] # NoRequest
    BY <1>t, <2>1, <2>3, GoOnTypes DEF Places, TypeOK, CallTypes, Views, Replayed, Finish
  <2>q. QED BY <2>2, <2>3
<1>b. HasRequest'
  BY <1>t, <1>r DEF HasRequest, TypeOK, Replayed, Finish, Current
<1>c. LeasesIssued'
  BY <1>t, <1>r DEF LeasesIssued, TypeOK, Replayed, Finish, Current
<1>d. LeasesDistinct'
  BY <1>t, <1>r
  DEF LeasesDistinct, LeasesIssued, TokensOrdered, SentIsTaken, TypeOK, Replayed, Finish, Current
<1>e. TokensOrdered'
  BY <1>t, <1>r
  DEF TokensOrdered, LeasesIssued, LeasesDistinct, SentIsTaken, TypeOK, Replayed, Finish, Current
<1>f. SentIsTaken'
  BY <1>t, <1>r
  DEF SentIsTaken, LeasesIssued, LeasesDistinct, TokensOrdered, TypeOK, Replayed, Finish, Current
<1>g. SnapshotsAgree'
  BY <1>t, <1>r DEF SnapshotsAgree, TypeOK, Replayed, Finish, Current
<1>h. WrittenDown'
  BY <1>t, <1>r DEF WrittenDown, TypeOK, Replayed, Finish, Current
<1>i. PreparedIsPending'
  BY <1>t, <1>r, PendingIsNotFinal
  DEF PreparedIsPending, SettledIsBacked, TokensOrdered, LeasesIssued, Settled, TypeOK, Replayed, Finish, Current
<1>j. SettledIsBacked'
  BY <1>t, <1>r, PendingIsNotFinal
  DEF PreparedIsPending, SettledIsBacked, TokensOrdered, LeasesIssued, Settled, TypeOK, Replayed, Finish, Current
<1>q. QED BY <1>a, <1>b, <1>c, <1>d, <1>e, <1>f, <1>g, <1>h, <1>i, <1>j

\* A confirmed record is not changed.
LEMMA ConfirmKeeps ==
    ASSUME IInv, NEW c \in Calls, Confirm(c)
    PROVE  IInv'
<1> USE DEF IInv, store, call, Leave, Goto, InUse, Taken, Sent
<1>t. tenant \in TenantRecords /\ fence \in Nat /\ runtime \in Views BY DEF TypeOK
<1>r. /\ tenant.token \in Nat /\ tenant.generation \in Nat
      /\ tenant.observedGeneration \in Nat /\ runtime.token \in Nat
  BY <1>t, RecordTypes DEF Views
<1>a. TypeOK'
  <2> HIDE DEF Leave, Goto
  <2>1. <<tenant.generation, tenant.observed>> \in Nat \X ObservedStates
    BY <1>t, <1>r, RecordTypes DEF TypeOK, Confirm
  <2>2. CASE req[c] = NoRequest
    BY <1>t, <2>1, <2>2, LeaveTypes DEF TypeOK, CallTypes, Views, Confirm, Finish
  <2>3. CASE req[c] # NoRequest
    BY <1>t, <2>1, <2>3, GoOnTypes DEF Places, TypeOK, CallTypes, Views, Confirm, Finish
  <2>q. QED BY <2>2, <2>3
<1>b. HasRequest'
  BY <1>t, <1>r DEF HasRequest, TypeOK, Confirm, Finish, Current
<1>c. LeasesIssued'
  BY <1>t, <1>r DEF LeasesIssued, TypeOK, Confirm, Finish, Current
<1>d. LeasesDistinct'
  BY <1>t, <1>r
  DEF LeasesDistinct, LeasesIssued, TokensOrdered, SentIsTaken, TypeOK, Confirm, Finish, Current
<1>e. TokensOrdered'
  BY <1>t, <1>r
  DEF TokensOrdered, LeasesIssued, LeasesDistinct, SentIsTaken, TypeOK, Confirm, Finish, Current
<1>f. SentIsTaken'
  BY <1>t, <1>r
  DEF SentIsTaken, LeasesIssued, LeasesDistinct, TokensOrdered, TypeOK, Confirm, Finish, Current
<1>g. SnapshotsAgree'
  BY <1>t, <1>r DEF SnapshotsAgree, TypeOK, Confirm, Finish, Current
<1>h. WrittenDown'
  BY <1>t, <1>r DEF WrittenDown, TypeOK, Confirm, Finish, Current
<1>i. PreparedIsPending'
  BY <1>t, <1>r, PendingIsNotFinal
  DEF PreparedIsPending, SettledIsBacked, TokensOrdered, LeasesIssued, Settled, TypeOK, Confirm, Finish, Current
<1>j. SettledIsBacked'
  BY <1>t, <1>r, PendingIsNotFinal
  DEF PreparedIsPending, SettledIsBacked, TokensOrdered, LeasesIssued, Settled, TypeOK, Confirm, Finish, Current
<1>q. QED BY <1>a, <1>b, <1>c, <1>d, <1>e, <1>f, <1>g, <1>h, <1>i, <1>j

\* The operation is written down and the record is pending.
LEMMA PrepareKeeps ==
    ASSUME IInv, NEW c \in Calls, Prepare(c)
    PROVE  IInv'
<1> USE DEF IInv, store, call, Leave, Goto, InUse, Taken, Sent
<1>t. tenant \in TenantRecords /\ fence \in Nat /\ runtime \in Views BY DEF TypeOK
<1>r. /\ tenant.token \in Nat /\ tenant.generation \in Nat
      /\ tenant.observedGeneration \in Nat /\ runtime.token \in Nat
  BY <1>t, RecordTypes DEF Views
<1>u. /\ tenant' \in TenantRecords
      /\ tenant'.observed = Pending(tenant) /\ tenant'.opKey = OpKey(snap[c])
      /\ tenant'.desired = tenant.desired /\ tenant'.plan = tenant.plan
      /\ tenant'.generation = tenant.generation
      /\ tenant'.observedGeneration = tenant.observedGeneration
      /\ tenant'.token = tenant.token /\ tenant'.dsRequest = tenant.dsRequest
      /\ tenant'.overridden = tenant.overridden
  BY PrepareEffect
<1>v. /\ pc[c] = "ready" /\ Current(c) /\ Undisturbed(c) /\ Goto(c, "prepared")
      /\ snap' = [snap EXCEPT ![c] = tenant']
      /\ UNCHANGED <<answered, ensured, fence, runtime, seen, told>>
  BY DEF Prepare
<1>w. tenant.generation = snap[c].generation BY <1>v DEF Undisturbed
<1>x. OpKey(snap[c]) = OpKey(tenant')
  BY <1>u, <1>v, <1>w DEF SnapshotsAgree, OpKey
<1>a. TypeOK'
  BY RegisteredType, <1>t, <1>r, <1>u, <1>v DEF TypeOK, Current, Undisturbed, Places, Answers, Views
<1>b. HasRequest'
  BY <1>t, <1>r, <1>u, <1>v DEF HasRequest, TypeOK, Current, Undisturbed
<1>c. LeasesIssued'
  BY <1>t, <1>r, <1>u, <1>v DEF LeasesIssued, TypeOK, Current, Undisturbed
<1>d. LeasesDistinct'
  BY <1>t, <1>r, <1>u, <1>v
  DEF LeasesDistinct, LeasesIssued, TokensOrdered, SentIsTaken, TypeOK, Current, Undisturbed
<1>e. TokensOrdered'
  BY <1>t, <1>r, <1>u, <1>v
  DEF TokensOrdered, LeasesIssued, LeasesDistinct, SentIsTaken, TypeOK, Current, Undisturbed
<1>f. SentIsTaken'
  BY <1>t, <1>r, <1>u, <1>v
  DEF SentIsTaken, LeasesIssued, LeasesDistinct, TokensOrdered, TypeOK, Current, Undisturbed
<1>g. SnapshotsAgree'
  BY <1>t, <1>r, <1>u, <1>v DEF SnapshotsAgree, TypeOK, Current, Undisturbed
<1>h. WrittenDown'
  BY <1>t, <1>r, <1>u, <1>v, <1>x DEF WrittenDown, TypeOK
<1>i. PreparedIsPending'
  BY <1>t, <1>r, <1>u, <1>v, PendingIsNotFinal
  DEF PreparedIsPending, SettledIsBacked, TokensOrdered, LeasesIssued, Settled, TypeOK, Current, Undisturbed
<1>j. SettledIsBacked'
  BY <1>t, <1>r, <1>u, <1>v, PendingIsNotFinal
  DEF PreparedIsPending, SettledIsBacked, TokensOrdered, LeasesIssued, Settled, TypeOK, Current, Undisturbed
<1>q. QED BY <1>a, <1>b, <1>c, <1>d, <1>e, <1>f, <1>g, <1>h, <1>i, <1>j

\* The runtime takes a command under the newest token it has seen.
LEMMA CommandKeeps ==
    ASSUME IInv, NEW c \in Calls, Command(c)
    PROVE  IInv'
<1> USE DEF IInv, store, call, Leave, Goto, InUse, Taken, Sent
<1>t. tenant \in TenantRecords /\ fence \in Nat /\ runtime \in Views BY DEF TypeOK
<1>r. /\ tenant.token \in Nat /\ tenant.generation \in Nat
      /\ tenant.observedGeneration \in Nat /\ runtime.token \in Nat
  BY <1>t, RecordTypes DEF Views
<1>u. /\ pc[c] = "prepared" /\ runtime.token <= lease[c]
      /\ \E l \in {"commanded", "rejected"} : Goto(c, l)
      /\ UNCHANGED <<tenant, answered, ensured, fence, snap, seen, told>>
  BY DEF Command, Admits
<1>w. snap[c].opKey \in OpKeys /\ lease[c] \in Nat BY RecordTypes DEF TypeOK
<1>v. /\ runtime' \in Views
      /\ runtime'.op = snap[c].opKey /\ runtime'.token = lease[c]
  BY <1>w DEF Command, Views
<1>a. TypeOK'
  BY RegisteredType, <1>t, <1>r, <1>u, <1>v, <1>w DEF TypeOK, Places, Answers
<1>b. HasRequest'
  BY <1>t, <1>r DEF HasRequest, TypeOK, Command
<1>c. LeasesIssued'
  BY <1>t, <1>r DEF LeasesIssued, TypeOK, Command
<1>d. LeasesDistinct'
  BY <1>t, <1>r
  DEF LeasesDistinct, LeasesIssued, TokensOrdered, SentIsTaken, TypeOK, Command
<1>e. TokensOrdered'
  BY <1>t, <1>r, <1>u, <1>v, <1>w DEF TokensOrdered, LeasesIssued, TypeOK
<1>f. SentIsTaken'
  BY <1>t, <1>r, <1>u, <1>v, <1>w DEF SentIsTaken, LeasesIssued, LeasesDistinct, TypeOK
<1>g. SnapshotsAgree'
  BY <1>t, <1>r DEF SnapshotsAgree, TypeOK, Command
<1>h. WrittenDown'
  BY <1>t, <1>r DEF WrittenDown, TypeOK, Command
<1>i. PreparedIsPending'
  BY <1>t, <1>r, PendingIsNotFinal
  DEF PreparedIsPending, SettledIsBacked, TokensOrdered, LeasesIssued, Settled, TypeOK, Command
<1>j. SettledIsBacked'
  BY <1>t, <1>r, <1>u, <1>v, <1>w
  DEF SettledIsBacked, PreparedIsPending, TokensOrdered, TypeOK, Settled
<1>q. QED BY <1>a, <1>b, <1>c, <1>d, <1>e, <1>f, <1>g, <1>h, <1>i, <1>j

\* A failed command changes nothing but the call.
LEMMA CommandFailsKeeps ==
    ASSUME IInv, NEW c \in Calls, CommandFails(c)
    PROVE  IInv'
<1> USE DEF IInv, store, call, Leave, Goto, InUse, Taken, Sent
<1>t. tenant \in TenantRecords /\ fence \in Nat /\ runtime \in Views BY DEF TypeOK
<1>r. /\ tenant.token \in Nat /\ tenant.generation \in Nat
      /\ tenant.observedGeneration \in Nat /\ runtime.token \in Nat
  BY <1>t, RecordTypes DEF Views
<1>a. TypeOK'
  BY RegisteredType, <1>t, <1>r DEF TypeOK, CommandFails, Places, Answers, Views
<1>b. HasRequest'
  BY <1>t, <1>r DEF HasRequest, TypeOK, CommandFails
<1>c. LeasesIssued'
  BY <1>t, <1>r DEF LeasesIssued, TypeOK, CommandFails
<1>d. LeasesDistinct'
  BY <1>t, <1>r
  DEF LeasesDistinct, LeasesIssued, TokensOrdered, SentIsTaken, TypeOK, CommandFails
<1>e. TokensOrdered'
  BY <1>t, <1>r
  DEF TokensOrdered, LeasesIssued, LeasesDistinct, SentIsTaken, TypeOK, CommandFails
<1>f. SentIsTaken'
  BY <1>t, <1>r
  DEF SentIsTaken, LeasesIssued, LeasesDistinct, TokensOrdered, TypeOK, CommandFails
<1>g. SnapshotsAgree'
  BY <1>t, <1>r DEF SnapshotsAgree, TypeOK, CommandFails
<1>h. WrittenDown'
  BY <1>t, <1>r DEF WrittenDown, TypeOK, CommandFails
<1>i. PreparedIsPending'
  BY <1>t, <1>r, PendingIsNotFinal
  DEF PreparedIsPending, SettledIsBacked, TokensOrdered, LeasesIssued, Settled, TypeOK, CommandFails
<1>j. SettledIsBacked'
  BY <1>t, <1>r, PendingIsNotFinal
  DEF PreparedIsPending, SettledIsBacked, TokensOrdered, LeasesIssued, Settled, TypeOK, CommandFails
<1>q. QED BY <1>a, <1>b, <1>c, <1>d, <1>e, <1>f, <1>g, <1>h, <1>i, <1>j

\* So does the observation after it.
LEMMA PostObserveKeeps ==
    ASSUME IInv, NEW c \in Calls, PostObserve(c)
    PROVE  IInv'
<1> USE DEF IInv, store, call, Leave, Goto, InUse, Taken, Sent
<1>t. tenant \in TenantRecords /\ fence \in Nat /\ runtime \in Views BY DEF TypeOK
<1>r. /\ tenant.token \in Nat /\ tenant.generation \in Nat
      /\ tenant.observedGeneration \in Nat /\ runtime.token \in Nat
  BY <1>t, RecordTypes DEF Views
<1>a. TypeOK'
  BY RegisteredType, <1>t, <1>r DEF TypeOK, PostObserve, Places, Answers, Views
<1>b. HasRequest'
  BY <1>t, <1>r DEF HasRequest, TypeOK, PostObserve
<1>c. LeasesIssued'
  BY <1>t, <1>r DEF LeasesIssued, TypeOK, PostObserve
<1>d. LeasesDistinct'
  BY <1>t, <1>r
  DEF LeasesDistinct, LeasesIssued, TokensOrdered, SentIsTaken, TypeOK, PostObserve
<1>e. TokensOrdered'
  BY <1>t, <1>r
  DEF TokensOrdered, LeasesIssued, LeasesDistinct, SentIsTaken, TypeOK, PostObserve
<1>f. SentIsTaken'
  BY <1>t, <1>r
  DEF SentIsTaken, LeasesIssued, LeasesDistinct, TokensOrdered, TypeOK, PostObserve
<1>g. SnapshotsAgree'
  BY <1>t, <1>r DEF SnapshotsAgree, TypeOK, PostObserve
<1>h. WrittenDown'
  BY <1>t, <1>r DEF WrittenDown, TypeOK, PostObserve
<1>i. PreparedIsPending'
  BY <1>t, <1>r, PendingIsNotFinal
  DEF PreparedIsPending, SettledIsBacked, TokensOrdered, LeasesIssued, Settled, TypeOK, PostObserve
<1>j. SettledIsBacked'
  BY <1>t, <1>r, PendingIsNotFinal
  DEF PreparedIsPending, SettledIsBacked, TokensOrdered, LeasesIssued, Settled, TypeOK, PostObserve
<1>q. QED BY <1>a, <1>b, <1>c, <1>d, <1>e, <1>f, <1>g, <1>h, <1>i, <1>j

\* Only here does a record become settled, and the runtime holds its operation.
LEMMA PersistKeeps ==
    ASSUME IInv, NEW c \in Calls, Persist(c)
    PROVE  IInv'
<1> USE DEF IInv, store, call, Leave, Goto, InUse, Taken, Sent
<1>t. tenant \in TenantRecords /\ fence \in Nat /\ runtime \in Views BY DEF TypeOK
<1>r. /\ tenant.token \in Nat /\ tenant.generation \in Nat
      /\ tenant.observedGeneration \in Nat /\ runtime.token \in Nat
  BY <1>t, RecordTypes DEF Views
<1>u. /\ tenant' \in TenantRecords
      /\ tenant'.observed = Outcome(tenant, c)
      /\ tenant'.observedGeneration = tenant.generation
      /\ tenant'.token = lease[c]
      /\ tenant'.desired = tenant.desired /\ tenant'.plan = tenant.plan
      /\ tenant'.generation = tenant.generation
      /\ tenant'.dsRequest = tenant.dsRequest
      /\ tenant'.overridden = tenant.overridden
  BY PersistEffect
<1>v. /\ pc[c] = "observed" /\ Current(c) /\ Finish(c, tenant')
      /\ tenant.opKey = snap[c].opKey /\ tenant.generation = snap[c].generation
      /\ answered' = answered \cup {<<tenant'.generation, tenant'.observed>>}
      /\ UNCHANGED <<ensured, fence, runtime, told>>
  BY DEF Persist
<1>x. /\ lease[c] = runtime.token /\ runtime.op = OpKey(tenant)
  BY <1>t, <1>r, <1>v
  DEF Current, TokensOrdered, SentIsTaken, SnapshotsAgree, WrittenDown, OpKey, TypeOK
<1>y. /\ OpKey(tenant') = OpKey(tenant) /\ lease[c] = fence /\ lease[c] # 0
  BY <1>u, <1>v DEF OpKey, Current, LeasesIssued
<1>a. TypeOK'
  <2> HIDE DEF Leave, Goto
  <2>1. <<tenant'.generation, tenant'.observed>> \in Nat \X ObservedStates
    BY <1>t, <1>r, <1>u, RecordTypes DEF TypeOK, Finish
  <2>2. CASE req[c] = NoRequest
    BY <1>t, <2>1, <2>2, LeaveTypes, <1>u, <1>v DEF TypeOK, CallTypes, Views, Finish
  <2>3. CASE req[c] # NoRequest
    BY <1>t, <2>1, <2>3, GoOnTypes, <1>u, <1>v DEF Places, TypeOK, CallTypes, Views, Finish
  <2>q. QED BY <2>2, <2>3
<1>b. HasRequest'
  BY <1>t, <1>r, <1>u, <1>v DEF HasRequest, TypeOK, Current, Finish
<1>c. LeasesIssued'
  BY <1>t, <1>r, <1>u, <1>v DEF LeasesIssued, TypeOK, Current, Finish
<1>d. LeasesDistinct'
  BY <1>t, <1>r, <1>u, <1>v
  DEF LeasesDistinct, LeasesIssued, TokensOrdered, SentIsTaken, TypeOK, Current, Finish
<1>e. TokensOrdered'
  BY <1>t, <1>r, <1>u, <1>v
  DEF TokensOrdered, LeasesIssued, LeasesDistinct, SentIsTaken, TypeOK, Current, Finish
<1>f. SentIsTaken'
  BY <1>t, <1>r, <1>u, <1>v
  DEF SentIsTaken, LeasesIssued, LeasesDistinct, TokensOrdered, TypeOK, Current, Finish
<1>g. SnapshotsAgree'
  BY <1>t, <1>r, <1>u, <1>v DEF SnapshotsAgree, TypeOK, Current, Finish
<1>h. WrittenDown'
  BY <1>t, <1>r, <1>u, <1>v DEF WrittenDown, TypeOK, Current, Finish
<1>i. PreparedIsPending'
  BY <1>t, <1>r, <1>u, <1>v, <1>y
  DEF PreparedIsPending, LeasesIssued, LeasesDistinct, TypeOK, Current, Finish
<1>j. SettledIsBacked'
  BY <1>t, <1>r, <1>u, <1>v, <1>x, <1>y DEF SettledIsBacked
<1>q. QED BY <1>a, <1>b, <1>c, <1>d, <1>e, <1>f, <1>g, <1>h, <1>i, <1>j

\* A failed record is not settled.
LEMMA RecordFailureKeeps ==
    ASSUME IInv, NEW c \in Calls, RecordFailure(c)
    PROVE  IInv'
<1> USE DEF IInv, store, call, Leave, Goto, InUse, Taken, Sent
<1>t. tenant \in TenantRecords /\ fence \in Nat /\ runtime \in Views BY DEF TypeOK
<1>r. /\ tenant.token \in Nat /\ tenant.generation \in Nat
      /\ tenant.observedGeneration \in Nat /\ runtime.token \in Nat
  BY <1>t, RecordTypes DEF Views
<1>u. /\ tenant' \in TenantRecords
      /\ tenant'.observed = "ERROR"
      /\ tenant'.token = IF pc[c] = "unconfirmed" THEN lease[c] ELSE tenant.token
      /\ tenant'.desired = tenant.desired /\ tenant'.plan = tenant.plan
      /\ tenant'.generation = tenant.generation
      /\ tenant'.observedGeneration = tenant.observedGeneration
      /\ tenant'.dsRequest = tenant.dsRequest
      /\ tenant'.overridden = tenant.overridden
  BY RecordFailureEffect
<1>v. /\ pc[c] \in {"rejected", "unconfirmed"} /\ Current(c)
      /\ tenant.opKey = snap[c].opKey
      /\ IF req[c] = NoRequest THEN Leave(c)
                              ELSE Goto(c, "failed") /\ UNCHANGED <<snap, seen>>
      /\ UNCHANGED <<answered, ensured, fence, runtime, told>>
  BY DEF RecordFailure
<1>a. TypeOK'
  <2> HIDE DEF Leave, Goto
  <2>1. tenant' \in TenantRecords
    BY <1>t, <1>r, <1>u DEF TypeOK, Current
  <2>2. CASE req[c] = NoRequest
    BY <1>t, <2>1, <2>2, LeaveTypes, <1>u, <1>v DEF TypeOK, CallTypes, Views, Current
  <2>3. CASE req[c] # NoRequest
    BY <1>t, <2>1, <2>3, GoOnTypes, <1>u, <1>v DEF Places, TypeOK, CallTypes, Views, Current
  <2>q. QED BY <2>2, <2>3
<1>b. HasRequest'
  BY <1>t, <1>r, <1>u, <1>v DEF HasRequest, TypeOK, Current
<1>c. LeasesIssued'
  BY <1>t, <1>r, <1>u, <1>v DEF LeasesIssued, TypeOK, Current
<1>d. LeasesDistinct'
  BY <1>t, <1>r, <1>u, <1>v
  DEF LeasesDistinct, LeasesIssued, TokensOrdered, SentIsTaken, TypeOK, Current
<1>e. TokensOrdered'
  BY <1>t, <1>r, <1>u, <1>v
  DEF TokensOrdered, LeasesIssued, LeasesDistinct, SentIsTaken, TypeOK, Current
<1>f. SentIsTaken'
  BY <1>t, <1>r, <1>u, <1>v
  DEF SentIsTaken, LeasesIssued, LeasesDistinct, TokensOrdered, TypeOK, Current
<1>g. SnapshotsAgree'
  BY <1>t, <1>r, <1>u, <1>v DEF SnapshotsAgree, TypeOK, Current
<1>h. WrittenDown'
  BY <1>t, <1>r, <1>u, <1>v DEF WrittenDown, TypeOK, Current
<1>i. PreparedIsPending'
  BY <1>t, <1>r, <1>u, <1>v, PendingIsNotFinal
  DEF PreparedIsPending, SettledIsBacked, TokensOrdered, LeasesIssued, Settled, TypeOK, Current
<1>j. SettledIsBacked'
  BY <1>t, <1>r, <1>u, <1>v, PendingIsNotFinal
  DEF PreparedIsPending, SettledIsBacked, TokensOrdered, LeasesIssued, Settled, TypeOK, Current
<1>q. QED BY <1>a, <1>b, <1>c, <1>d, <1>e, <1>f, <1>g, <1>h, <1>i, <1>j

\* An error answer ends the call.
LEMMA AnswerErrorKeeps ==
    ASSUME IInv, NEW c \in Calls, AnswerError(c)
    PROVE  IInv'
<1> USE DEF IInv, store, call, Leave, Goto, InUse, Taken, Sent
<1>t. tenant \in TenantRecords /\ fence \in Nat /\ runtime \in Views BY DEF TypeOK
<1>r. /\ tenant.token \in Nat /\ tenant.generation \in Nat
      /\ tenant.observedGeneration \in Nat /\ runtime.token \in Nat
  BY <1>t, RecordTypes DEF Views
<1>a. TypeOK'
  BY RegisteredType, <1>t, <1>r DEF TypeOK, AnswerError, Places, Answers, Views
<1>b. HasRequest'
  BY <1>t, <1>r DEF HasRequest, TypeOK, AnswerError
<1>c. LeasesIssued'
  BY <1>t, <1>r DEF LeasesIssued, TypeOK, AnswerError
<1>d. LeasesDistinct'
  BY <1>t, <1>r
  DEF LeasesDistinct, LeasesIssued, TokensOrdered, SentIsTaken, TypeOK, AnswerError
<1>e. TokensOrdered'
  BY <1>t, <1>r
  DEF TokensOrdered, LeasesIssued, LeasesDistinct, SentIsTaken, TypeOK, AnswerError
<1>f. SentIsTaken'
  BY <1>t, <1>r
  DEF SentIsTaken, LeasesIssued, LeasesDistinct, TokensOrdered, TypeOK, AnswerError
<1>g. SnapshotsAgree'
  BY <1>t, <1>r DEF SnapshotsAgree, TypeOK, AnswerError
<1>h. WrittenDown'
  BY <1>t, <1>r DEF WrittenDown, TypeOK, AnswerError
<1>i. PreparedIsPending'
  BY <1>t, <1>r, PendingIsNotFinal
  DEF PreparedIsPending, SettledIsBacked, TokensOrdered, LeasesIssued, Settled, TypeOK, AnswerError
<1>j. SettledIsBacked'
  BY <1>t, <1>r, PendingIsNotFinal
  DEF PreparedIsPending, SettledIsBacked, TokensOrdered, LeasesIssued, Settled, TypeOK, AnswerError
<1>q. QED BY <1>a, <1>b, <1>c, <1>d, <1>e, <1>f, <1>g, <1>h, <1>i, <1>j

\* So does an answer.
LEMMA AnswerKeeps ==
    ASSUME IInv, NEW c \in Calls, Answer(c)
    PROVE  IInv'
<1> USE DEF IInv, store, call, Leave, Goto, InUse, Taken, Sent
<1>t. tenant \in TenantRecords /\ fence \in Nat /\ runtime \in Views BY DEF TypeOK
<1>r. /\ tenant.token \in Nat /\ tenant.generation \in Nat
      /\ tenant.observedGeneration \in Nat /\ runtime.token \in Nat
  BY <1>t, RecordTypes DEF Views
<1>a. TypeOK'
  <2> DEFINE s == AnswerFor(req[c], snap[c].observed)
  <2>1. s \in Answers /\ req[c] \in Requests
    BY DEF AnswerFor, Answers, Answer, HasRequest
  <2>2. /\ told' = [told EXCEPT ![c] = s]
        /\ ensured' = ensured \cup {[request |-> req[c], state |-> s]}
        /\ Leave(c) /\ UNCHANGED <<tenant, answered, fence, runtime>>
    BY DEF Answer
  <2> HIDE DEF s
  <2>q. QED BY RegisteredType, <2>1, <2>2 DEF TypeOK, Places, Views
<1>b. HasRequest'
  BY <1>t, <1>r DEF HasRequest, TypeOK, Answer, Current
<1>c. LeasesIssued'
  BY <1>t, <1>r DEF LeasesIssued, TypeOK, Answer, Current
<1>d. LeasesDistinct'
  BY <1>t, <1>r
  DEF LeasesDistinct, LeasesIssued, TokensOrdered, SentIsTaken, TypeOK, Answer, Current
<1>e. TokensOrdered'
  BY <1>t, <1>r
  DEF TokensOrdered, LeasesIssued, LeasesDistinct, SentIsTaken, TypeOK, Answer, Current
<1>f. SentIsTaken'
  BY <1>t, <1>r
  DEF SentIsTaken, LeasesIssued, LeasesDistinct, TokensOrdered, TypeOK, Answer, Current
<1>g. SnapshotsAgree'
  BY <1>t, <1>r DEF SnapshotsAgree, TypeOK, Answer, Current
<1>h. WrittenDown'
  BY <1>t, <1>r DEF WrittenDown, TypeOK, Answer, Current
<1>i. PreparedIsPending'
  BY <1>t, <1>r, PendingIsNotFinal
  DEF PreparedIsPending, SettledIsBacked, TokensOrdered, LeasesIssued, Settled, TypeOK, Answer, Current
<1>j. SettledIsBacked'
  BY <1>t, <1>r, PendingIsNotFinal
  DEF PreparedIsPending, SettledIsBacked, TokensOrdered, LeasesIssued, Settled, TypeOK, Answer, Current
<1>q. QED BY <1>a, <1>b, <1>c, <1>d, <1>e, <1>f, <1>g, <1>h, <1>i, <1>j

\* Readiness is not part of what the runtime took.
LEMMA RuntimeTurnsKeeps ==
    ASSUME IInv, RuntimeTurns
    PROVE  IInv'
<1> USE DEF IInv, store, call, Leave, Goto, InUse, Taken, Sent
<1>t. tenant \in TenantRecords /\ fence \in Nat /\ runtime \in Views BY DEF TypeOK
<1>r. /\ tenant.token \in Nat /\ tenant.generation \in Nat
      /\ tenant.observedGeneration \in Nat /\ runtime.token \in Nat
  BY <1>t, RecordTypes DEF Views
<1>a. TypeOK'
  BY RegisteredType, <1>t, <1>r DEF TypeOK, RuntimeTurns, Places, Answers, Views
<1>b. HasRequest'
  BY <1>t, <1>r DEF HasRequest, TypeOK, RuntimeTurns
<1>c. LeasesIssued'
  BY <1>t, <1>r DEF LeasesIssued, TypeOK, RuntimeTurns
<1>d. LeasesDistinct'
  BY <1>t, <1>r
  DEF LeasesDistinct, LeasesIssued, TokensOrdered, SentIsTaken, TypeOK, RuntimeTurns
<1>e. TokensOrdered'
  BY <1>t, <1>r
  DEF TokensOrdered, LeasesIssued, LeasesDistinct, SentIsTaken, TypeOK, RuntimeTurns
<1>f. SentIsTaken'
  BY <1>t, <1>r
  DEF SentIsTaken, LeasesIssued, LeasesDistinct, TokensOrdered, TypeOK, RuntimeTurns
<1>g. SnapshotsAgree'
  BY <1>t, <1>r DEF SnapshotsAgree, TypeOK, RuntimeTurns
<1>h. WrittenDown'
  BY <1>t, <1>r DEF WrittenDown, TypeOK, RuntimeTurns
<1>i. PreparedIsPending'
  BY <1>t, <1>r, PendingIsNotFinal
  DEF PreparedIsPending, SettledIsBacked, TokensOrdered, LeasesIssued, Settled, TypeOK, RuntimeTurns
<1>j. SettledIsBacked'
  BY <1>t, <1>r, PendingIsNotFinal
  DEF PreparedIsPending, SettledIsBacked, TokensOrdered, LeasesIssued, Settled, TypeOK, RuntimeTurns
<1>q. QED BY <1>a, <1>b, <1>c, <1>d, <1>e, <1>f, <1>g, <1>h, <1>i, <1>j


\* The registered record and the idle calls satisfy the invariant.
LEMMA InitIInv == Init => IInv
<1> SUFFICES ASSUME Init PROVE IInv
  OBVIOUS
<1>1. TypeOK
  BY RegisteredType DEF Init, TypeOK, Places, Answers, Views, NoView, NoOp, OpKeys, DesiredStates
<1>2. Registered.token = 0 /\ Registered.observedGeneration = 0 /\ Registered.generation = 0
  BY DEF Registered
<1>q. QED
  BY <1>1, <1>2
  DEF Init, IInv, HasRequest, LeasesIssued, LeasesDistinct, TokensOrdered, SentIsTaken,
      SnapshotsAgree, WrittenDown, PreparedIsPending, SettledIsBacked, NoView, Taken, Sent, InUse

\* Every step, and every stuttering step, keeps the invariant.
LEMMA NextKeeps == IInv /\ [Next]_vars => IInv'
<1> SUFFICES ASSUME IInv, [Next]_vars PROVE IInv'
  OBVIOUS
<1>1. CASE LeaseLost BY <1>1, LeaseLostKeeps
<1>2. CASE Lifecycle
  <2>1. PICK role \in Roles :
           \/ \E d \in Requested : SetDesiredState(d, role)
           \/ \E p \in Plans : Upgrade(p, role) \/ Rollback(p, role)
    BY <1>2 DEF Lifecycle
  <2>q. QED BY <2>1, SetDesiredStateKeeps, UpgradeKeeps, RollbackKeeps
<1>3. CASE RuntimeTurns BY <1>3, RuntimeTurnsKeeps
<1>4. CASE \E c \in Calls : CallStep(c)
  <2>1. PICK c \in Calls : CallStep(c) BY <1>4
  <2>2. CASE \E r \in Requests \cup {NoRequest} : Begin(c, r) BY <2>2, BeginKeeps
  <2>3. CASE Stop(c) BY <2>3, StopKeeps
  <2>4. CASE Accept(c) \/ ReplayEnsure(c) BY <2>4, AcceptKeeps, ReplayEnsureKeeps
  <2>5. CASE Snapshot(c) \/ Observe(c) BY <2>5, SnapshotKeeps, ObserveKeeps
  <2>6. CASE Replayed(c) \/ Confirm(c) \/ Prepare(c)
    BY <2>6, ReplayedKeeps, ConfirmKeeps, PrepareKeeps
  <2>7. CASE Command(c) \/ CommandFails(c) \/ PostObserve(c)
    BY <2>7, CommandKeeps, CommandFailsKeeps, PostObserveKeeps
  <2>8. CASE Persist(c) \/ RecordFailure(c) BY <2>8, PersistKeeps, RecordFailureKeeps
  <2>9. CASE AnswerError(c) \/ Answer(c) BY <2>9, AnswerErrorKeeps, AnswerKeeps
  <2>q. QED BY <2>1, <2>2, <2>3, <2>4, <2>5, <2>6, <2>7, <2>8, <2>9 DEF CallStep
<1>5. CASE UNCHANGED vars
  BY <1>5
  DEF vars, store, call, IInv, TypeOK, HasRequest, LeasesIssued, LeasesDistinct, TokensOrdered,
      SentIsTaken, SnapshotsAgree, WrittenDown, PreparedIsPending, SettledIsBacked
<1>q. QED BY <1>1, <1>2, <1>3, <1>4, <1>5 DEF Next

\* The inductive invariant holds of every reachable state.
THEOREM InvariantHolds == Spec => []IInv
<1>1. Init => IInv BY InitIInv
<1>2. IInv /\ [Next]_vars => IInv' BY NextKeeps
<1>q. QED BY <1>1, <1>2, PTL DEF Spec

\* Every variable keeps its type, for any number of calls, plans and any bounds.
THEOREM TypeCorrect == Spec => []TypeOK
<1>1. IInv => TypeOK BY DEF IInv
<1>q. QED BY <1>1, InvariantHolds, PTL

\* A record that claims its generation is in place names what the runtime took
\* last, whatever calls lost their leases on the way.
THEOREM SettledRecordsAreBacked == Spec => []SettledIsBacked
<1>1. IInv => SettledIsBacked BY DEF IInv
<1>q. QED BY <1>1, InvariantHolds, PTL

-----------------------------------------------------------------------------
(* The answers of ensureConnector                                          *)

\* The registered record satisfies the invariant of the answers.
LEMMA InitAInv == Init => AInv
<1>1. Registered.token = 0 /\ Registered.observed = "NOT_PROVISIONED" BY DEF Registered
<1>q. QED
  BY <1>1 DEF Init, AInv, LedgerBounded, LiveStatesApplied, RequestInForce, ResultInForce, NoRequest

\* What a call that neither writes the record nor finishes its reconcile may do.
Quiet(c) ==
    /\ tenant' = tenant /\ answered' = answered /\ fence' >= fence
    /\ \A d \in Calls \ {c} : /\ lease'[d] = lease[d] /\ pc'[d] = pc[d]
                              /\ req'[d] = req[d] /\ snap'[d] = snap[d]
    /\ \/ pc'[c] \in {"idle", "requested"} \/ req'[c] = NoRequest
       \/ /\ lease'[c] = lease[c] /\ req'[c] = req[c] /\ pc[c] \notin {"idle", "requested"}
          /\ pc'[c] = "reconciled" => pc[c] = "reconciled" /\ snap'[c] = snap[c]
    /\ pc'[c] = "reconciled" => pc[c] = "reconciled" /\ lease'[c] = lease[c] /\ snap'[c] = snap[c]

\* Such a step keeps the invariant of the answers.
LEMMA QuietKeepsAInv ==
    ASSUME IInv, AInv, NEW c \in Calls, Quiet(c), fence' \in Nat
    PROVE  AInv'
<1>1. fence \in Nat /\ lease \in [Calls -> Nat] BY DEF IInv, TypeOK
<1>2. \A d \in Calls : lease[d] <= fence /\ (pc[d] # "idle" => lease[d] # 0)
  BY DEF IInv, LeasesIssued
<1>3. \A d \in Calls : lease'[d] = lease[d] /\ Current(d)' => Current(d)
  <2>1. fence' >= fence BY DEF Quiet
  <2> SUFFICES ASSUME NEW d \in Calls, lease'[d] = lease[d], Current(d)'
               PROVE  Current(d)
    OBVIOUS
  <2>2. lease[d] = fence' BY DEF Current
  <2>3. lease[d] <= fence /\ fence \in Nat /\ lease[d] \in Nat BY <1>1, <1>2
  <2>q. QED BY <2>1, <2>2, <2>3 DEF Current
<1>4. LedgerBounded' BY DEF AInv, LedgerBounded, Quiet
<1>5. LiveStatesApplied' BY DEF AInv, LiveStatesApplied, Quiet
<1>6. RequestInForce' BY <1>3 DEF AInv, RequestInForce, Quiet
<1>7. ResultInForce' BY <1>3 DEF AInv, ResultInForce, Quiet
<1>q. QED BY <1>4, <1>5, <1>6, <1>7 DEF AInv

\* The steps that change neither the record nor the result of a reconcile.
LEMMA QuietSteps ==
    ASSUME IInv, NEW c \in Calls,
           \/ \E r \in Requests \cup {NoRequest} : Begin(c, r)
           \/ Stop(c) \/ ReplayEnsure(c) \/ Snapshot(c) \/ Observe(c) \/ Command(c)
           \/ CommandFails(c) \/ PostObserve(c) \/ AnswerError(c) \/ Answer(c)
    PROVE  Quiet(c) /\ fence' \in Nat
<1>1. /\ fence \in Nat /\ lease \in [Calls -> Nat] /\ pc \in [Calls -> Places]
      /\ req \in [Calls -> Requests \cup {NoRequest}] /\ snap \in [Calls -> TenantRecords]
  BY DEF IInv, TypeOK
<1>2. ASSUME NEW r \in Requests \cup {NoRequest}, Begin(c, r) PROVE Quiet(c) /\ fence' \in Nat
  BY <1>1, <1>2 DEF Begin, Quiet, store
<1>3. ASSUME Leave(c), UNCHANGED <<tenant, answered, fence>> PROVE Quiet(c)
  BY <1>1, <1>3 DEF Leave, Quiet
<1>4. CASE Stop(c) \/ ReplayEnsure(c) \/ AnswerError(c) \/ Answer(c)
  <2>1. Leave(c) /\ UNCHANGED <<tenant, answered, fence>>
    BY <1>4 DEF Stop, ReplayEnsure, AnswerError, Answer, store
  <2>q. QED BY <1>1, <1>3, <2>1
<1>5. ASSUME pc[c] \notin {"idle", "requested"}, NEW l \in Places \ {"reconciled"}, Goto(c, l),
             UNCHANGED <<tenant, answered, fence>>,
             snap' = snap \/ \E t \in TenantRecords : snap' = [snap EXCEPT ![c] = t]
      PROVE  Quiet(c)
  BY <1>1, <1>5 DEF Goto, Quiet
<1>6. CASE Snapshot(c) \/ Observe(c)
  <2>1. /\ UNCHANGED <<tenant, answered, fence>> /\ pc[c] \notin {"idle", "requested"}
        /\ \E l \in Places \ {"reconciled"} : Goto(c, l)
        /\ snap' = snap \/ snap' = [snap EXCEPT ![c] = tenant]
    BY <1>6 DEF Snapshot, Observe, store, Places
  <2>q. QED BY <1>1, <1>5, <2>1 DEF IInv, TypeOK
<1>7. CASE Command(c) \/ CommandFails(c) \/ PostObserve(c)
  <2>1. /\ UNCHANGED <<tenant, answered, fence, snap>> /\ pc[c] \notin {"idle", "requested"}
        /\ \E l \in Places \ {"reconciled"} : Goto(c, l)
    BY <1>7 DEF Command, CommandFails, PostObserve, store, Places
  <2>q. QED BY <1>1, <1>5, <2>1
<1>q. QED BY <1>2, <1>4, <1>6, <1>7

\* A change of the desired state ends the claims of every call in flight: the
\* newest lease is no longer theirs.
LEMMA BriefKeepsAInv ==
    ASSUME IInv, AInv, BriefLease, tenant' \in TenantRecords,
           tenant'.observed = tenant.observed, tenant'.token = tenant.token,
           tenant'.observedGeneration = tenant.observedGeneration
    PROVE  AInv'
<1>1. fence \in Nat /\ lease \in [Calls -> Nat] /\ \A d \in Calls : lease[d] <= fence
  BY DEF IInv, TypeOK, LeasesIssued
<1>2. \A d \in Calls : ~Current(d)' BY <1>1 DEF BriefLease, Current, call
<1>3. LedgerBounded' /\ LiveStatesApplied'
  BY DEF AInv, LedgerBounded, LiveStatesApplied, BriefLease
<1>4. RequestInForce' /\ ResultInForce' BY <1>2 DEF RequestInForce, ResultInForce
<1>q. QED BY <1>3, <1>4 DEF AInv

\* Only one call holds the newest lease.
LEMMA OneCurrent ==
    ASSUME IInv, NEW c \in Calls, NEW d \in Calls, Current(c), pc[c] # "idle", Current(d)
    PROVE  c = d
BY DEF IInv, LeasesDistinct, LeasesIssued, Current

\* What a call under the newest lease does when it writes the record.
LEMMA WriteKeepsAInv ==
    ASSUME IInv, AInv, NEW c \in Calls, Current(c), pc[c] # "idle",
           fence' = fence, lease'[c] \in {lease[c], 0},
           \A d \in Calls \ {c} : lease'[d] = lease[d],
           tenant' \in TenantRecords, LiveStatesApplied',
           tenant'.observedGeneration >= tenant.observedGeneration,
           \A r \in answered' \ answered : r[1] <= tenant'.observedGeneration,
           answered' \subseteq Nat \X ObservedStates,
           Current(c)' /\ pc'[c] \notin {"idle", "requested"} /\ req'[c] # NoRequest =>
               tenant'.dsRequest = req'[c] /\ tenant'.desired = Mapped(req'[c]),
           pc'[c] = "reconciled" =>
               snap'[c] = tenant' /\ tenant'.observedGeneration = tenant'.generation
    PROVE  AInv'
<1>1. /\ tenant \in TenantRecords /\ answered \subseteq Nat \X ObservedStates
      /\ tenant.observedGeneration \in Nat /\ tenant'.observedGeneration \in Nat
  BY RecordTypes DEF IInv, TypeOK
<1>2. \A d \in Calls : Current(d)' => d = c
  BY OneCurrent DEF Current
<1>3. LedgerBounded'
  <2> SUFFICES ASSUME NEW r \in answered' PROVE r[1] <= tenant'.observedGeneration
    BY DEF LedgerBounded
  <2>1. r[1] \in Nat OBVIOUS
  <2>2. CASE r \in answered
    <3>1. r[1] <= tenant.observedGeneration BY <2>2 DEF AInv, LedgerBounded
    <3>q. QED BY <1>1, <2>1, <3>1
  <2>q. QED BY <2>2
<1>4. RequestInForce' BY <1>2 DEF RequestInForce
<1>5. ResultInForce' BY <1>2 DEF ResultInForce
<1>q. QED BY <1>3, <1>4, <1>5 DEF AInv

\* Accepting a command makes it the request in force.
LEMMA AcceptKeepsAInv == ASSUME IInv, AInv, NEW c \in Calls, Accept(c) PROVE AInv'
<1>0. TypeOK /\ HasRequest BY DEF IInv
<1>1. tenant \in TenantRecords /\ tenant.observedGeneration \in Nat BY <1>0, RecordTypes DEF TypeOK
<1>2. /\ tenant' \in TenantRecords /\ tenant'.dsRequest = req[c]
      /\ tenant'.desired = Mapped(req[c]) /\ tenant'.observed = tenant.observed
      /\ tenant'.token = tenant.token /\ tenant'.observedGeneration = tenant.observedGeneration
  BY <1>0, AcceptEffect
<1>3. /\ pc[c] = "requested" /\ Current(c) /\ pc' = [pc EXCEPT ![c] = "leased"]
      /\ UNCHANGED <<lease, req, fence, answered>>
  BY DEF Accept, Goto
<1>4. pc'[c] = "leased" BY <1>0, <1>3 DEF TypeOK
<1>5. LiveStatesApplied' BY <1>2 DEF AInv, LiveStatesApplied
<1>q. QED BY <1>0, <1>1, <1>2, <1>3, <1>4, <1>5, WriteKeepsAInv DEF TypeOK

\* A replayed or a confirmed result describes the record as it is.
LEMMA ResultKeepsAInv ==
    ASSUME IInv, AInv, NEW c \in Calls, Replayed(c) \/ Confirm(c)
    PROVE  AInv'
<1>0. TypeOK /\ TokensOrdered /\ LeasesIssued BY DEF IInv
<1>1. /\ tenant \in TenantRecords /\ tenant.observedGeneration \in Nat
      /\ tenant.generation \in Nat /\ tenant.observed \in ObservedStates
  BY <1>0, RecordTypes DEF TypeOK
<1>2. tenant.observedGeneration = tenant.generation
  <2>1. CASE Replayed(c)
    <3>1. tenant.generation <= tenant.observedGeneration
      BY <2>1 DEF Replayed, AInv, LedgerBounded
    <3>q. QED BY <1>0, <1>1, <3>1 DEF TokensOrdered
  <2>q. QED BY <2>1 DEF Confirm
<1>3. /\ pc[c] = "ready" /\ UNCHANGED <<tenant, fence>> /\ Finish(c, tenant)
      /\ answered' = answered
           \/ answered' = answered \cup {<<tenant.generation, tenant.observed>>}
  BY DEF Replayed, Confirm, store
<1>4. /\ \A d \in Calls \ {c} : lease'[d] = lease[d] /\ pc'[d] = pc[d]
                                /\ req'[d] = req[d] /\ snap'[d] = snap[d]
      /\ \/ pc'[c] = "idle" /\ lease'[c] = 0
         \/ /\ pc'[c] = "reconciled" /\ snap'[c] = tenant
            /\ lease'[c] = lease[c] /\ req'[c] = req[c]
  BY <1>0, <1>3 DEF TypeOK, Finish, Leave, Goto
<1>5. LedgerBounded'
  BY <1>1, <1>2, <1>3 DEF AInv, LedgerBounded
<1>6. LiveStatesApplied' BY <1>3 DEF AInv, LiveStatesApplied
<1>7. RequestInForce' BY <1>3, <1>4 DEF AInv, RequestInForce, Current
<1>8. ResultInForce' BY <1>2, <1>3, <1>4 DEF AInv, ResultInForce, Current
<1>q. QED BY <1>5, <1>6, <1>7, <1>8 DEF AInv

\* Prepare writes a pending state: no claim is made.
LEMMA PrepareKeepsAInv == ASSUME IInv, AInv, NEW c \in Calls, Prepare(c) PROVE AInv'
<1>0. TypeOK BY DEF IInv
<1>1. tenant \in TenantRecords /\ tenant.observedGeneration \in Nat BY <1>0, RecordTypes DEF TypeOK
<1>2. /\ tenant' \in TenantRecords /\ tenant'.dsRequest = tenant.dsRequest
      /\ tenant'.desired = tenant.desired /\ tenant'.observed = Pending(tenant)
      /\ tenant'.observedGeneration = tenant.observedGeneration
  BY <1>0, PrepareEffect
<1>3. /\ pc[c] = "ready" /\ Current(c) /\ pc' = [pc EXCEPT ![c] = "prepared"]
      /\ UNCHANGED <<lease, req, fence, answered>>
  BY DEF Prepare, Goto
<1>4. pc'[c] = "prepared" BY <1>0, <1>3 DEF TypeOK
<1>5. LiveStatesApplied' BY <1>1, <1>2, PendingIsNotFinal DEF LiveStatesApplied, FinalStates
<1>6. req[c] # NoRequest => tenant.dsRequest = req[c] /\ tenant.desired = Mapped(req[c])
  BY <1>3 DEF AInv, RequestInForce
<1>q. QED BY <1>0, <1>1, <1>2, <1>3, <1>4, <1>5, <1>6, WriteKeepsAInv DEF TypeOK

\* Persist answers the record it writes.
LEMMA PersistKeepsAInv == ASSUME IInv, AInv, NEW c \in Calls, Persist(c) PROVE AInv'
<1>0. TypeOK /\ TokensOrdered /\ LeasesIssued BY DEF IInv
<1>1. /\ tenant \in TenantRecords /\ tenant.observedGeneration \in Nat
      /\ tenant.generation \in Nat /\ tenant.observedGeneration <= tenant.generation
  BY <1>0, RecordTypes DEF TypeOK, TokensOrdered
<1>2. /\ tenant' \in TenantRecords /\ tenant'.dsRequest = tenant.dsRequest
      /\ tenant'.desired = tenant.desired /\ tenant'.token = lease[c]
      /\ tenant'.generation = tenant.generation
      /\ tenant'.observedGeneration = tenant.generation
  BY <1>0, PersistEffect
<1>3. /\ pc[c] = "observed" /\ Current(c) /\ Finish(c, tenant') /\ fence' = fence
      /\ answered' = answered \cup {<<tenant'.generation, tenant'.observed>>}
  BY DEF Persist
<1>4. /\ \A d \in Calls \ {c} : lease'[d] = lease[d]
      /\ \/ pc'[c] = "idle" /\ lease'[c] = 0
         \/ /\ pc'[c] = "reconciled" /\ snap'[c] = tenant'
            /\ lease'[c] = lease[c] /\ req'[c] = req[c]
  BY <1>0, <1>3 DEF TypeOK, Finish, Leave, Goto
<1>5. LiveStatesApplied' BY <1>0, <1>2, <1>3 DEF LiveStatesApplied, LeasesIssued
<1>6. req[c] # NoRequest => tenant.dsRequest = req[c] /\ tenant.desired = Mapped(req[c])
  BY <1>3 DEF AInv, RequestInForce
<1>7. answered' \subseteq Nat \X ObservedStates
  BY <1>0, <1>1, <1>2, <1>3, RecordTypes DEF TypeOK
<1>8. \A r \in answered' \ answered : r[1] <= tenant'.observedGeneration
  BY <1>1, <1>2, <1>3
<1>9. tenant'.observedGeneration >= tenant.observedGeneration BY <1>1, <1>2
<1>q. QED BY <1>0, <1>2, <1>3, <1>4, <1>5, <1>6, <1>7, <1>8, <1>9, WriteKeepsAInv

\* A recorded failure makes no claim.
LEMMA FailureKeepsAInv == ASSUME IInv, AInv, NEW c \in Calls, RecordFailure(c) PROVE AInv'
<1>0. TypeOK BY DEF IInv
<1>1. tenant \in TenantRecords /\ tenant.observedGeneration \in Nat BY <1>0, RecordTypes DEF TypeOK
<1>2. /\ tenant' \in TenantRecords /\ tenant'.dsRequest = tenant.dsRequest
      /\ tenant'.desired = tenant.desired /\ tenant'.observed = "ERROR"
      /\ tenant'.observedGeneration = tenant.observedGeneration
  BY <1>0, RecordFailureEffect
<1>3. /\ pc[c] \in {"rejected", "unconfirmed"} /\ Current(c)
      /\ Leave(c) \/ Goto(c, "failed")
      /\ UNCHANGED <<answered, fence>>
  BY DEF RecordFailure
<1>4. /\ \A d \in Calls \ {c} : lease'[d] = lease[d]
      /\ \/ pc'[c] = "idle" /\ lease'[c] = 0
         \/ pc'[c] = "failed" /\ lease'[c] = lease[c] /\ req'[c] = req[c]
  BY <1>0, <1>3 DEF TypeOK, Leave, Goto
<1>5. LiveStatesApplied' BY <1>2 DEF LiveStatesApplied
<1>6. req[c] # NoRequest => tenant.dsRequest = req[c] /\ tenant.desired = Mapped(req[c])
  BY <1>3 DEF AInv, RequestInForce
<1>q. QED BY <1>0, <1>1, <1>2, <1>3, <1>4, <1>5, <1>6, WriteKeepsAInv DEF TypeOK

\* Every step keeps the invariant of the answers.
LEMMA NextKeepsAInv == ASSUME IInv, AInv, [Next]_vars PROVE AInv'
<1>1. CASE LeaseLost \/ RuntimeTurns \/ UNCHANGED vars
  BY <1>1
  DEF LeaseLost, RuntimeTurns, vars, store, call, AInv, LedgerBounded, LiveStatesApplied,
      RequestInForce, ResultInForce, Current
<1>2. CASE Lifecycle
  <2>0. TypeOK BY DEF IInv
  <2>1. PICK role \in Roles :
           \/ \E d \in Requested : SetDesiredState(d, role)
           \/ \E p \in Plans : Upgrade(p, role) \/ Rollback(p, role)
    BY <1>2 DEF Lifecycle
  <2>2. CASE \E d \in Requested : SetDesiredState(d, role)
    BY <2>0, <2>2, SetDesiredStateEffect, BriefKeepsAInv DEF SetDesiredState
  <2>3. CASE \E p \in Plans : Upgrade(p, role) \/ Rollback(p, role)
    <3>1. BriefLease /\ \E p \in Plans, l \in {"UPGRADE", "ROLLBACK"} : SwitchPlan(p, l, role)
      BY <2>3 DEF Upgrade, Rollback
    <3>q. QED BY <2>0, <3>1, SwitchPlanEffect, BriefKeepsAInv
  <2>q. QED BY <2>1, <2>2, <2>3
<1>3. CASE \E c \in Calls : CallStep(c)
  <2>1. PICK c \in Calls : CallStep(c) BY <1>3
  <2>2. CASE Accept(c) BY <2>2, AcceptKeepsAInv
  <2>3. CASE Replayed(c) \/ Confirm(c) BY <2>3, ResultKeepsAInv
  <2>4. CASE Prepare(c) \/ Persist(c) \/ RecordFailure(c)
    BY <2>4, PrepareKeepsAInv, PersistKeepsAInv, FailureKeepsAInv
  <2>q. QED BY <2>1, <2>2, <2>3, <2>4, QuietSteps, QuietKeepsAInv DEF CallStep
<1>q. QED BY <1>1, <1>2, <1>3 DEF Next

\* An answer ACTIVE or SUSPENDED is backed when it is recorded.
LEMMA AnswerIsBacked ==
    ASSUME IInv, AInv, NEW c \in Calls, Answer(c),
           AnswerFor(req[c], snap[c].observed) \in {"ACTIVE", "SUSPENDED"}
    PROVE  /\ tenant.dsRequest = req[c] /\ tenant.desired = Mapped(req[c])
           /\ Settled(tenant) /\ runtime.op = OpKey(tenant)
<1>1. pc[c] = "reconciled" /\ Current(c) BY DEF Answer
<1>2. snap[c] = tenant /\ tenant.observedGeneration = tenant.generation
  BY <1>1 DEF AInv, ResultInForce
<1>3. req[c] \in Requests /\ req[c] # NoRequest
  BY <1>1 DEF IInv, HasRequest, Requests, NoRequest
<1>4. tenant.dsRequest = req[c] /\ tenant.desired = Mapped(req[c])
  BY <1>1, <1>3 DEF AInv, RequestInForce
<1>5. \/ req[c].desired = "ACTIVE" /\ tenant.observed = "PROVISIONED"
      \/ req[c].desired = "SUSPENDED" /\ tenant.observed = "SUSPENDED"
  BY <1>2 DEF AnswerFor
<1>6. Settled(tenant) BY <1>2, <1>4, <1>5 DEF Settled, Mapped, Final
<1>7. tenant.token # 0 BY <1>5 DEF AInv, LiveStatesApplied
<1>q. QED BY <1>4, <1>6, <1>7 DEF IInv, SettledIsBacked

\* DSaaS is told ACTIVE or SUSPENDED only while its own request is in force, the
\* record is settled as it asked and the runtime carries that operation.
THEOREM EnsureAnswersAreBacked == Spec => EnsureAnswerIsBacked
<1> DEFINE Backed ==
      \A c \in Calls :
         pc[c] = "reconciled" /\ ensured' # ensured /\ told'[c] # told[c]
           /\ told'[c] \in {"ACTIVE", "SUSPENDED"} =>
             /\ tenant.dsRequest = req[c]
             /\ tenant.desired = Mapped(req[c]) /\ Settled(tenant)
             /\ runtime.op = OpKey(tenant)
<1>1. ASSUME IInv, AInv, [Next]_vars PROVE [Backed]_vars
  <2> SUFFICES ASSUME NEW c \in Calls, ensured' # ensured, told'[c] # told[c],
                      told'[c] \in {"ACTIVE", "SUSPENDED"}
               PROVE  /\ tenant.dsRequest = req[c]
                      /\ tenant.desired = Mapped(req[c]) /\ Settled(tenant)
                      /\ runtime.op = OpKey(tenant)
    OBVIOUS
  <2>1. PICK d \in Calls : Answer(d)
    BY <1>1
    DEF Next, vars, store, LeaseLost, RuntimeTurns, Lifecycle, SetDesiredState, Upgrade,
        Rollback, BriefLease, CallStep, Begin, Stop, Accept, ReplayEnsure, Snapshot, Observe,
        Replayed, Confirm, Prepare, Command, CommandFails, PostObserve, Persist,
        RecordFailure, AnswerError
  <2>2. told \in [Calls -> Answers] BY <1>1 DEF IInv, TypeOK
  <2>3. told' = [told EXCEPT ![d] = AnswerFor(req[d], snap[d].observed)] BY <2>1 DEF Answer
  <2>4. c = d /\ told'[c] = AnswerFor(req[c], snap[c].observed) BY <2>2, <2>3
  <2>q. QED BY <1>1, <2>1, <2>4, AnswerIsBacked
<1>2. IInv /\ AInv /\ [Next]_vars => AInv' BY NextKeepsAInv
<1>3. Init => AInv BY InitAInv
<1>q. QED BY <1>1, <1>2, <1>3, InvariantHolds, PTL DEF Spec, EnsureAnswerIsBacked

-----------------------------------------------------------------------------
(* The desired state of a bound tenant                                     *)

\* None of the tenant's own lifecycle calls but the rollback moves the desired
\* state away from what DSaaS asked for.
LEMMA IntentKept ==
    ASSUME IInv, OnlyRollbackEscapes, [Next]_vars
    PROVE  OnlyRollbackEscapes'
<1>0. TypeOK /\ HasRequest BY DEF IInv
<1>1. CASE tenant' = tenant BY <1>1 DEF OnlyRollbackEscapes, Bound
<1>2. ASSUME NEW role \in Roles, NEW d \in Requested, SetDesiredState(d, role)
      PROVE  OnlyRollbackEscapes'
  <2>1. /\ tenant'.dsRequest = tenant.dsRequest
        /\ tenant'.overridden = tenant.overridden \cup Override(role, "NONE")
    BY <1>0, <1>2, SetDesiredStateEffect
  <2>2. Bound(tenant) => "admin" \in Override(role, "NONE")
    BY <1>2 DEF SetDesiredState, Override
  <2>q. QED BY <2>1, <2>2 DEF OnlyRollbackEscapes, Bound
<1>3. ASSUME NEW role \in Roles, NEW p \in Plans, Upgrade(p, role)
      PROVE  OnlyRollbackEscapes'
  <2>1. SwitchPlan(p, "UPGRADE", role) /\ tenant.desired = "PROVISIONED" BY <1>3 DEF Upgrade
  <2>2. /\ tenant'.dsRequest = tenant.dsRequest /\ tenant'.desired = "PROVISIONED"
        /\ tenant'.overridden = tenant.overridden \cup Override(role, "UPGRADE")
    BY <1>0, <2>1, SwitchPlanEffect
  <2>q. QED BY <2>1, <2>2 DEF OnlyRollbackEscapes, Bound
<1>4. ASSUME NEW role \in Roles, NEW p \in Plans, Rollback(p, role)
      PROVE  OnlyRollbackEscapes'
  <2>1. SwitchPlan(p, "ROLLBACK", role) BY <1>4 DEF Rollback
  <2>2. /\ tenant'.desired = "PROVISIONED"
        /\ tenant'.overridden = tenant.overridden \cup Override(role, "ROLLBACK")
    BY <1>0, <2>1, SwitchPlanEffect
  <2>3. \/ "admin" \in Override(role, "ROLLBACK")
        \/ "rollback" \in Override(role, "ROLLBACK")
    BY DEF Override
  <2>q. QED BY <2>2, <2>3 DEF OnlyRollbackEscapes
<1>5. ASSUME NEW c \in Calls, Accept(c) PROVE OnlyRollbackEscapes'
  BY <1>0, <1>5, AcceptEffect DEF OnlyRollbackEscapes
<1>6. ASSUME NEW c \in Calls, Prepare(c) \/ Persist(c) \/ RecordFailure(c)
      PROVE  OnlyRollbackEscapes'
  <2>1. /\ tenant'.dsRequest = tenant.dsRequest /\ tenant'.desired = tenant.desired
        /\ tenant'.overridden = tenant.overridden
    BY <1>0, <1>6, PrepareEffect, PersistEffect, RecordFailureEffect
  <2>q. QED BY <2>1 DEF OnlyRollbackEscapes, Bound
<1>7. \/ tenant' = tenant
      \/ \E role \in Roles, d \in Requested : SetDesiredState(d, role)
      \/ \E role \in Roles, p \in Plans : Upgrade(p, role) \/ Rollback(p, role)
      \/ \E c \in Calls : Accept(c) \/ Prepare(c) \/ Persist(c) \/ RecordFailure(c)
  BY DEF Next, vars, store, LeaseLost, RuntimeTurns, Lifecycle, CallStep, Begin, Stop,
         ReplayEnsure, Snapshot, Observe, Replayed, Confirm, Command, CommandFails,
         PostObserve, AnswerError, Answer
<1>q. QED BY <1>1, <1>2, <1>3, <1>4, <1>5, <1>6, <1>7

\* The desired state of a bound tenant is the one DSaaS asked for last, unless
\* the administrator overrode it or the tenant rolled its connector back, which
\* takes it to PROVISIONED: for every set of calls, plans and requested states.
THEOREM IntentEscapesByRollbackOnly == Spec => []OnlyRollbackEscapes
<1>1. Init => OnlyRollbackEscapes BY DEF Init, OnlyRollbackEscapes, Bound, Registered
<1>2. IInv /\ OnlyRollbackEscapes /\ [Next]_vars => OnlyRollbackEscapes' BY IntentKept
<1>q. QED BY <1>1, <1>2, InvariantHolds, PTL DEF Spec

====

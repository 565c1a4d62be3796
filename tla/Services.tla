------------------------------ MODULE Services ------------------------------
(* Workers and services that share nothing that is modelled, in one         *)
(* specification: a behaviour is of one of them, its part, and the variables*)
(* of the others keep None.  The variables without a part of their own are  *)
(* TransferJob's, which rests in its initial state.                         *)
EXTENDS TransferJob, Sequences, FiniteSets

CONSTANTS
    None,     \* no value
    \* ScopedCutover
    Scopes, Keys, Proven, Writers, Platform, NoScope, MaxVersion, MaxSeq,
    \* TenantStore
    Tenants, TenantCalls, TenantRequests, Consumers, MaxTime, MaxRev, Lease, MaxRevoked,
    \* FileState
    FileCalls, Swallows, MaxAudit, MaxClock,
    \* UsageMeter
    UsageRequests, Rebuilds, OperationOf, RangeOf, Hours, MaxAttempts,
    \* Scheduler
    Dataspaces, MaxPerTick,
    \* ControlServer
    HttpRequests, Writes, Principals, RightsOf, TenantOf, ReadsDrain, MaxStarts,
    \* ManagementClient
    Publishers, Malformed, Objects, Resources, ContentOf, Foreign, Nothing, Retries,
    Threshold, MaxTries,
    \* AddressPolicy
    WordBits, Words, Special4, Special6, Allocated6

VARIABLES
    part,
    \* ScopedCutover
    snapshot, projected, ledger, audit, scoped, registry, head, mode, role,
    conn, base, cut, file, map, ready, told,
    \* TenantStore
    now, binding, rows, message, chain, call,
    \* FileState
    onDisk, durable, lockFile, at, draft, answer,
    \* UsageMeter
    entries, rollup, outboxed, rebuilt, meterLock, step, hour, attempt, tally, recorder,
    \* Scheduler
    due, outcome, cursor, tick, running, aborted, failures, fatal, completed,
    lastList, waited, ill,
    \* ControlServer
    life, starts, cancelled, listening, up, closer, stores, ticking, who, place,
    known, severed, reply, applied, denied, metered,
    \* ManagementClient
    remote, doing, index, try, response, overdue, tries, circuit, counts, held, streak,
    \* AddressPolicy
    table4, table6, resolved, listed, environment, allowPrivate, verdict

cutover_vars == <<snapshot, projected, ledger, audit, scoped, registry, head, mode,
                  role, conn, base, cut, file, map, ready, told>>
store_vars == <<now, binding, rows, message, chain, call>>
file_vars == <<onDisk, durable, lockFile, at, draft, answer>>
meter_vars == <<entries, rollup, outboxed, rebuilt, meterLock, step, hour, attempt,
                tally, recorder>>
clock_vars == <<due, outcome, cursor, tick, running, aborted, failures, fatal,
                completed, lastList, waited, ill>>
server_vars == <<life, starts, cancelled, listening, up, closer, stores, ticking,
                 who, place, known, severed, reply, applied, denied, metered>>
client_vars == <<remote, doing, index, try, response, overdue, tries, circuit, counts,
                 held, streak>>
policy_vars == <<table4, table6, resolved, listed, environment, allowPrivate, verdict>>

\* A whole request and a rebuild of its hours never have the same name, in the
\* outbox neither; a rebuild asks for some hours (usage-meter.mjs).
ASSUME UsageAssumption ==
    /\ None \notin UsageRequests \cup Rebuilds
    /\ UsageRequests \cap (Rebuilds \cup {OperationOf[b] : b \in Rebuilds}) = {}
    /\ \A b \in Rebuilds : RangeOf[b] \subseteq Hours /\ RangeOf[b] # {}
    /\ MaxAttempts \in Nat \ {0}

\* The accounts of the platform and of nobody are no tenant's
\* (postgres-scoped-control-store.mjs, managementAccountingTenant).
ASSUME AccountsAssumption ==
    /\ \A r \in HttpRequests : TenantOf[r] \notin {None, "platform", "none"}
    /\ ReadsDrain \in BOOLEAN

\* What a request may ask: context and payload have been validated, and nothing
\* has been answered (postgres-tenant-store.mjs).
ASSUME TenantAssumption ==
    /\ TenantRequests \subseteq
         [at : {"idle"}, session : Tenants, mode : {"tenant", "service", "break-glass"},
          expires : Nat, of : Tenants,
          op : {"put", "bind", "overwrite", "read", "claim", "acknowledge"},
          expected : Nat, content : Consumers, clean : BOOLEAN, answer : {None}, when : Nat]
    /\ None \notin Tenants \cup {"served", "denied"}
    /\ MaxTime \in Nat /\ MaxRev \in Nat

\* The platform's scope is reserved, and nothing is told from a row that is not
\* there (postgres-scoped-control-store.mjs, scoped-cutover.mjs).
ASSUME CutoverAssumption ==
    /\ Platform \notin Scopes /\ NoScope \notin Scopes \cup {Platform}
    /\ None \notin [rev : Nat, res : [Scopes -> Nat], rec : [Keys -> Scopes \cup {NoScope}], seq : Nat]
    /\ MaxVersion \in Nat \ {0}

\* Identifiers can be put in order (scheduler.mjs).
ASSUME SchedulerAssumption ==
    IsFiniteSet(Dataspaces) /\ Dataspaces \subseteq Nat /\ MaxPerTick \in Nat

\* The holder of a lock file is told from a free and a stale one (store.mjs).
ASSUME FileAssumption == FileCalls \cap {"free", "stale"} = {} /\ MaxAudit \in Nat

\* A publication makes some objects, its contract definition last, which is no
\* policy or asset of another; an administrator makes others, and the circuit
\* opens after some failure (edc-v4-management-client.mjs, http-client.mjs).
ASSUME ClientAssumption ==
    /\ IsFiniteSet(Publishers) /\ Nothing \notin Publishers
    /\ \A p \in Publishers :
         /\ Resources[p] \in Seq(Objects) /\ Resources[p] # <<>>
         /\ \A o \in Objects : ContentOf[p][o] \notin {Nothing, Foreign}
    /\ \A p, q \in Publishers : \A i \in DOMAIN Resources[q] :
         Resources[q][i] = Resources[p][Len(Resources[p])] => i = Len(Resources[q])
    /\ Nothing # Foreign /\ Threshold \in Nat \ {0}

-----------------------------------------------------------------------------
(* The parts, beside TransferJob.                                           *)

Cutover == INSTANCE ScopedCutover WITH NoSnapshot <- None
Store   == INSTANCE TenantStore
    WITH Calls <- TenantCalls, Requests <- TenantRequests, Workers <- Consumers
File    == INSTANCE FileState WITH Calls <- FileCalls
Meter   == INSTANCE UsageMeter WITH Requests <- UsageRequests, Free <- None
Clock   == INSTANCE Scheduler
Server  == INSTANCE ControlServer
    WITH Requests <- HttpRequests, Nobody <- None, ready <- up, cut <- severed
Client  == INSTANCE ManagementClient
    WITH attempt <- try, reply <- response, late <- overdue, tally <- counts
Policy  == INSTANCE AddressPolicy WITH answer <- resolved

-----------------------------------------------------------------------------
OneInit ==
    /\ part \in {"transfer", "cutover", "tenants", "file", "meter", "scheduler", "server", "client", "address"}
    /\ Init
    /\ IF part = "cutover" THEN Cutover!Init
       ELSE /\ snapshot = None /\ projected = None /\ ledger = None /\ audit = None
            /\ scoped = None /\ registry = None /\ head = None /\ mode = None /\ role = None
            /\ conn = None /\ base = None /\ cut = None /\ file = None /\ map = None
            /\ ready = None /\ told = None
    /\ IF part = "tenants" THEN Store!Init
       ELSE /\ now = None /\ binding = None /\ rows = None /\ message = None
            /\ chain = None /\ call = None
    /\ IF part = "file" THEN File!Init
       ELSE /\ onDisk = None /\ durable = None /\ lockFile = None /\ at = None
            /\ draft = None /\ answer = None
    /\ IF part = "meter" THEN Meter!Init
       ELSE /\ entries = None /\ rollup = None /\ outboxed = None /\ rebuilt = None
            /\ meterLock = None /\ step = None /\ hour = None /\ attempt = None
            /\ tally = None /\ recorder = None
    /\ IF part = "scheduler" THEN Clock!Init
       ELSE /\ due = None /\ outcome = None /\ cursor = None /\ tick = None /\ running = None
            /\ aborted = None /\ failures = None /\ fatal = None /\ completed = None
            /\ lastList = None /\ waited = None /\ ill = None
    /\ IF part = "server" THEN Server!Init
       ELSE /\ life = None /\ starts = None /\ cancelled = None /\ listening = None /\ up = None
            /\ closer = None /\ stores = None /\ ticking = None /\ who = None /\ place = None
            /\ known = None /\ severed = None /\ reply = None /\ applied = None
            /\ denied = None /\ metered = None
    /\ IF part = "client" THEN Client!Init
       ELSE /\ remote = None /\ doing = None /\ index = None /\ try = None /\ response = None
            /\ overdue = None /\ tries = None /\ circuit = None /\ counts = None /\ held = None
            /\ streak = None
    /\ IF part = "address" THEN Policy!Init
       ELSE /\ table4 = None /\ table6 = None /\ resolved = None /\ listed = None
            /\ environment = None /\ allowPrivate = None /\ verdict = None

\* The other parts rest.
Only(p) ==
    /\ part = p /\ UNCHANGED part
    /\ IF p = "transfer"  THEN TRUE ELSE UNCHANGED vars
    /\ IF p = "cutover"   THEN TRUE ELSE UNCHANGED cutover_vars
    /\ IF p = "tenants"   THEN TRUE ELSE UNCHANGED store_vars
    /\ IF p = "file"      THEN TRUE ELSE UNCHANGED file_vars
    /\ IF p = "meter"     THEN TRUE ELSE UNCHANGED meter_vars
    /\ IF p = "scheduler" THEN TRUE ELSE UNCHANGED clock_vars
    /\ IF p = "server"    THEN TRUE ELSE UNCHANGED server_vars
    /\ IF p = "client"    THEN TRUE ELSE UNCHANGED client_vars
    /\ IF p = "address"   THEN TRUE ELSE UNCHANGED policy_vars

OneNext ==
    \/ Only("transfer")  /\ Next
    \/ Only("cutover")   /\ Cutover!Next
    \/ Only("tenants")   /\ Store!Next
    \/ Only("file")      /\ File!Next
    \/ Only("meter")     /\ Meter!Next
    \/ Only("scheduler") /\ Clock!Next
    \/ Only("server")    /\ Server!Next
    \/ Only("client")    /\ Client!Next
    \/ Only("address")   /\ Policy!Next

services_vars == <<part, vars, cutover_vars, store_vars, file_vars, meter_vars,
                   clock_vars, server_vars, client_vars, policy_vars>>

ServicesSpec == OneInit /\ [][OneNext]_services_vars

-----------------------------------------------------------------------------
\* The cutover keeps what the JSON store held and told: the roots of the scopes
\* agree with the registry, an acknowledged write is not lost, and the scoped
\* audit chain goes on from the last event (scoped-cutover.mjs).
CutoverIsSafe ==
    part = "cutover" =>
        Cutover!TypeOK /\ Cutover!RootsAgree /\ Cutover!ToldIsKept /\ Cutover!ChainContinues

\* No request reaches the rows of another tenant without an approval in force,
\* and its permit or denial is in the audit chain before it is answered
\* (postgres-tenant-store.mjs).
AccessIsAudited == part = "tenants" => Store!TypeOK /\ Store!AccessIsAudited

\* What a caller was told to be stored survives a power loss, and a call that was
\* aborted leaves nothing (caas/store.mjs, dsaas/store.mjs).
FileIsSafe ==
    part = "file" => File!TypeOK /\ File!CommittedIsDurable /\ File!AbortedLeavesNothing

\* The hourly rollup is what the events add up to, whatever rebuild runs beside
\* the recorder (usage-meter.mjs).
RollupAgrees == part = "meter" => Meter!TypeOK /\ Meter!RollupAgrees

\* Over an unchanged list of targets every target gets its turn within a round
\* (scheduler.mjs).
TurnsAreTaken == part = "scheduler" => Clock!TypeOK /\ Clock!TurnsAreTaken

\* After a tick the scheduler reports ready only when none of its reconciles failed
\* and no dataspace has had a failure on record ever since the tick began to read
\* the backlog, the ones the tick did not take included (scheduler.mjs).
ReadyHasNoBacklog ==
    [][part = "scheduler" /\ Clock!Report /\ Clock!Ready' =>
         ill = {} /\ ~tick.failed]_<<part, clock_vars>>

\* A server whose close() has returned takes and runs nothing more, and a client
\* that is refused finds its refusal in the audit (server.mjs of CaaS and DSaaS).
ServerIsSafe ==
    part = "server" => Server!TypeOK /\ Server!ClosedIsQuiet /\ Server!RefusalsAreAudited

\* A publication reported as done has all of its objects at the connector with
\* its own content, and the circuit opens after the threshold of failures
\* (edc-v4-management-client.mjs, http-client.mjs).
ClientIsSafe == part = "client" => Client!TypeOK /\ Client!OffersAreWhole /\ Client!BreakerOpens

\* The address a request is pinned to is one that the policy permits
\* (network-address-policy.mjs).
PinnedIsPermitted == part = "address" => Policy!TypeOK /\ Policy!PinnedIsPermitted
=============================================================================

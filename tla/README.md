# A verification model of the MOLIT data space control plane

The repository (`molit-dataspace/`) holds the control plane of a data space: a
Connector-as-a-Service (CaaS) and a Data-Space-as-a-Service (DSaaS) server over a
PostgreSQL control store, a Kubernetes provisioner, the runtimes that carry
catalogues and transfers to an EDC connector, and the tools that build, judge and
release the metadata profile.  This directory models their coordination logic in
TLA+, checks it with TLC and proves part of it with TLAPS.

## 1. Inventory

Paths are relative to `molit-dataspace/src/` unless they begin with `tools/`.

| Component | State it keeps | Operations | What is hard | What makes it correct |
| --- | --- | --- | --- | --- |
| Fenced control store (`control-store/postgres-json-store.mjs`, `postgres-scoped-control-store.mjs`) | state row with revision, `resource_fence` rows, advisory locks on lease connections, async-local lease | `withResourceLock`, `transact`/`transactScope`, `read`, pool handling | lost lease connections, lost COMMIT answers, aborts, a holder that goes on beside the next one | only the newest lease writes; a caller is told the truth; locks get free again |
| CaaS tenant service (`caas/service.mjs`, `caas/store.mjs`) | tenant record, idempotency ledger, audit | register, desired state, upgrade, rollback, reconcile, ensure | several transactions around external commands; stale calls; drift; lost answers; replays | a settled record is backed by the runtime; answers are true; DSaaS intent is kept, but for a tenant's rollback |
| Kubernetes provisioner, fencing webhook and admission policy (`caas/kubernetes-*.mjs`), orphan recovery (`caas/orphan-recovery.mjs`) | fencing record with its phase, namespaced objects with the command that wrote them, requests on the wire | claim, apply, migrate, receipt, observe, roll back, suspend, delete, scan and reclaim | objects are applied one at a time; rollback beside a newer command; late requests; a tenant registered while its namespace is reclaimed | an APPLIED receipt stands for exclusive objects; no older command removes a newer runtime |
| DSaaS service (`dsaas/service.mjs`), approval and service registries | dataspace, participants, desired and applied generation, retry, next check | desired state, submit, approve, reconcile (manual and scheduled), revoke | reconcile waits for CaaS while the dataspace changes; supersession; registries that change or are down | what a record reports is in place at CaaS; intent and revocation get there |
| DSaaS scheduler (`dsaas/scheduler.mjs`) | cursor, failures of the last tick | tick, abort, stop | the cursor is a position in a list that changes | every target gets its turn; ready means no backlog |
| Control servers (`caas/server.mjs`, `dsaas/server.mjs`, runtimes, authenticators) | life of the server, requests in flight | start, admit, authenticate, operate, audit, close, drain, expiry | start, serving and closing overlap at every await | a closed server is quiet; refusals are audited |
| File state stores (`caas/store.mjs`, `dsaas/store.mjs`) | state file, lock file, audit chain | transact with temporary file, rename and sync | power loss, aborts, a lock that stays | what was told stored is durable; an aborted call leaves nothing |
| Transactional outbox and dispatchers (`control-store/postgres-outbox.mjs`, `observability/*-outbox-dispatcher.mjs`) | events with attempts and claims, the WORM archive | claim, acknowledge, reject, append | crash after claim, late answers, lost COMMIT | published means delivered, archived once; no event is forgotten |
| Usage meter (`observability/usage-meter.mjs`, `management-usage.mjs`) | events, hourly rollups, rebuilds | record, reprocess, close | a rebuild beside a recorder, retries | rollup is the sum of the events |
| Scoped cutover (`control-store/scoped-cutover.mjs`, `normalized-projection.mjs`, migrations, role fences) | snapshot, projection, ledger, audit, scoped states, mode | projection, cutover, bootstrap | writers of the old store beside the migration | nothing acknowledged is lost; roots agree; the chain goes on |
| Tenant store (`control-store/postgres-tenant-store.mjs`) | rows of tenants, principal bindings, audit chains | authorize, read, put, claim, acknowledge, overwrite | an approval expires or a binding is revoked between the two gates | no foreign row without an approval in force; permits and denials are audited |
| Bridge worker and queue (`bridge-runtime/worker.mjs`, `durable-store.mjs`) | queue, checkpoints, dead letters in one locked file | poll, dispatch, heartbeat, ack, nack | lease expiry, stale checkpoints, lost answers | nothing polled is lost; completed means published |
| EDC management client, HTTP client, address policy (`bridge-runtime/edc-v4-management-client.mjs`, `http-client.mjs`, `network-address-policy.mjs`) | circuits | publish an offering, retry, resolve | a creation that was given up is carried out later; names resolve anew | a published offering is whole and its own; a pinned address is permitted |
| Provider transfer worker (`transfer-runtime/*.mjs`) | signed journal of phases, operation locks | process START/TERMINATION | crashes between platform, connector and journal | no access outlives a terminated transfer |
| Discovery synchronizer (`discovery/*.mjs`, `cli.mjs`) | records, approvals, outbox commands in one locked file | sync, reconcile, review | out-of-order versions, withdrawal, supersession, inputs read before the lock | the latest event wins; what a reviewer sees is pending, complete and approved |
| Profile validation (`profile/*.mjs`) | release directory and its lock | validate, publish-check in a worker | the release is read again by every worker while it is edited | a pass is one judgement of one document |
| Requirement evidence (`tools/profile/*requirement*`) | registers, mutation fixtures | build, verify | interrupted builders; edits between build and verification | what passes is evidenced by the files on disk |
| Release gate, artifact lock, engine runners, signature (`tools/release`, `tools/profile/run-rc-*`) | lock, reports, evidence, signature | gate, run, capture, sign, verify | four programs that read a directory that is edited meanwhile | evidence, verdict and signature are of one locked content |
| Provider authority (`governance/provider-authority.mjs`) | registry snapshots, receipts | resolve | old snapshots, old receipts, revocation | what was allowed was approved and in force, and attested |
| Telemetry, SLO and OTLP export; catalog projection, publication and attestation; identity and TLS runtimes; operations preflight and command lines | none, or caches | pure checks, I/O | - | - |

How they interact: the HTTP servers call the two services; every state change of
a service is a `transact` of the control store, inside a `withResourceLock` when
it spans external calls; the DSaaS service calls CaaS `ensure` over HTTP and is
driven by its scheduler; CaaS commands the provisioner with the fencing token of
its lease; state transactions append outbox events that dispatchers deliver, and
every management request is metered; the bridge and transfer workers stand apart
and talk to an EDC connector and to the platform.  The cutover replaces one
backend of the store by the other.  The profile tools share a release directory.

What composes with what: `CaasTenant` relies on `FencedStore` (a transaction
commits only under the newest lease) and on `FencedRuntime`, which
`KubernetesFence` implements; `DsaasReconcile` relies on `FencedStore` and on the
generation fence of `CaasTenant`; `Scheduler` drives `DsaasReconcile`'s calls.

## 2. Plan

Everything of the plan is written.  In the order in which it was:

1. `FencedStore`, `FencedRegister`, `FencedStoreProofs`: the store on which
   everything else rests, and the abstract register it implements.
2. `CaasTenant`, `CaasTenantProofs`: the tenant service over that store.
3. `TransferJob`, `TransferPromise`: the transfer worker, its crashes and retries, and
   what it promises.
4. `Outbox`, `OutboxProofs`; `BridgeQueue`; `Discovery`; `Queues`, `QueuesProofs`: the
   queue of the bridge, the archive and the discovery state file.
5. `KubernetesFence`, `FencedRuntime`, `KubernetesFenceProofs`: the adapter and the
   runtime contract of `CaasTenant` it implements.
6. `DsaasReconcile`, `DsaasReconcileProofs`, `Scheduler`, `ControlServer`: DSaaS from
   the request to CaaS.
7. `ManagementClient`, `AddressPolicy`.
8. `FileState`, `ScopedCutover`, `TenantStore`, `UsageMeter`: the other stores.
9. `ProfileValidation`, `NetworkReferences`, `RequirementEvidence`, `ReleaseGate`,
   `ProviderAuthority`: the judgements over a profile and its release.
10. `Services`, `ServicesProofs`: the services of 3 and 6 to 8 that share nothing, in
   one specification, and what each of them keeps.
11. `Profiles`, `ProfilesProofs`: the same for the judgements of 9.

What is left to prove: that the address classification allows nothing beyond the tables
(section 6).

## 3. Modules and the code

Each module has the values of its small instances in an `MC` module.  Operators
whose comment starts with "Mutant:" are not used by the specifications: each is a
definition changed the way a bug would change it, and shows that some property
would notice.

### FencedStore, FencedRegister

One resource of the control store: `row` is the state row, `fence` the row of
`resource_fence`, `lock` the session-level advisory lock, `sess[c]` the lease
connection of a call, `token[c]` its fencing token.  `TryLock`, `LockBusy`,
`TakeFence` and its failures are the acquisition in `withResourceLock`; `Select`,
`CheckFence`, `Commit`, `CommitUnknown`, `Rollback` are `transact` (JSON) or
`transactScope` (scoped); `Release`, `ReleaseNoRow`, `CleanupFails`, `Unlock`,
`CleanupBroken` are the two `finally` blocks.  `backend` is the store; they
differ in what happens to a connection whose cleanup failed (`Discards`).
`SessionLost` breaks a connection, which frees its lock while its process goes on.
`FencedRegister` is the promise: a write takes effect at most once and its caller
is told "ok" only if it did and "failed" only if it did not.

Left out: `holder_id` (the token alone decides), the statement timeouts (a
statement fails or not), a try-lock query that answers an error on a living
connection, and scoped transactions that change nothing, which skip the fence.
The fence upsert and its COMMIT are one step.

### CaasTenant

One tenant: its record, the results in the idempotency ledger, the connector
runtime and the calls in flight.  A state transaction is one step that needs the
newest token, which is what `FencedStore` proves of it; a call whose lease is lost
goes on (`LeaseLost`).  `SetDesiredState`, `Upgrade` and `Rollback` are the routes
of one transaction; `Accept`, `ReplayEnsure` and `Answer` are `ensureConnector`;
`Snapshot`, `Observe`, `Replayed`, `Confirm`, `Prepare`, `Command`,
`CommandFails`, `PostObserve`, `Persist`, `RecordFailure` and `AnswerError` are
`reconcile`.  `RuntimeTurns` makes the runtime ready or not at any time.

The runtime is a contract (`Admits`: it refuses tokens older than one it has
taken), which `KubernetesFence` keeps.  Registration, the intent-only
provisioner, secret checks and audit rows are left out; the DSaaS binding,
generation and digest of a tenant are one field, since one operation sets all
three; ledger keys are chosen by the caller, so a replay may meet any result that
was ever stored; DSaaS requests name one plan.  `MayUse` lets a tenant credential
call the routes `caas/server.mjs` gives it, the rollback of a bound tenant among
them: `OnlyRollbackEscapes` says that nothing else gets around the DSaaS intent.

### TransferJob, TransferPromise

One transfer: `phase` is its record in the signed journal, `lock` its operation
lock file, `connector` and `access` what the connector and the platform know.  The
places of `pc` follow `processStart` and `processTermination`; `Call` is any
request to the connector or platform, `Decide` a branch on what was read, the
`Write...` actions are the saves of the journal.  A request fails before or after
it took effect; with `LateRequests` it may take effect later (`LateEffect`).
`Crash` leaves the lock file, which `OperatorClears` removes.  `ConnectorEnds` is
the connector's own decision to end a transfer.  `TransferPromise` shows only
`connector` and `access`; it has one step that it would rather not have, `Revive`, the
grant that comes late.

The platform is idempotent by key, as its client requires; the connector moves by
acknowledgements and its own decision only; all processes share one host's lock
directory.  Signature checks, contract documents and the inbox scan are left out.

### Outbox

Events of one `control_outbox` table and the two dispatchers: `Emit` is the insert
of a state transaction, `Claim`, `Acknowledge`, `Reject` the methods of
`PostgresOutbox`, the rest is `runOnce` of `WormOutboxDispatcher` (with the
exporter's lookup, conditional append and read-back) when `Archive` holds and of
`UsageOutboxDispatcher` otherwise.  `Fault` loses an answer, with or without
effect; a crash loses the batch.

The scan of tenants is a choice of claimable events, an expired claim and an
elapsed delay are one flag `due`, the archive is the conditional append of its
backend contract, and an append does not take effect after its caller gave up.
`lastError`, health output and the shutdown deadline are left out: an abort is a
crash.

### BridgeQueue

The state file (`status`, `owner`, `attempts`, `due`, `checkpoint`), its lock
file, and processes that run `poll` and `dispatch` in turn.  `Lock` and `Commit`
are `withRuntimeLock`: a lock that is met is an error, a save may fail with the new
file in place or not, and the lock file may stay (`Gone`).  `Fetch` and `FetchRest`
are the pages of `HttpPlatformAdapter.poll`; between them the source may change.
`Store`, `Claim`, `Heartbeat`, `Ack`, `Nack` are the transactions, with the
operators `Enqueued`, `Expired`, `Holds` for `enqueue`, `recoverExpiredLeases`,
`requireLease`.  An error outside a delivery ends the process (`main`), and `Start`
is its next run under a new owner name.

The source's entity tag is taken to stand for the state of all its pages, and that
state never comes back.  The quarantine, which no code reads, dry runs, the
resources that make up one offering, and the size limit of the file are left out.

### KubernetesFence, FencedRuntime

One tenant at the API server.  `fence` is the fencing record, with the phase of its
receipt; `cell` the objects, grouped by what is applied alike (namespace, base,
workload, schema receipt, one migration Job per intent), each with the token and
the content it carries; `wire` the requests whose answer nobody waits for any more;
`call[c]` a provisioner call between two awaits.  `Claim`, `Apply`, `Synchronize`,
`AwaitSecret`, `AwaitMigration`, `Verify`, `Receipt` are `provision`; `Erase`,
`Confirm` the deletion; `Quiesce` the suspension; `Fail`, `Abort`, `Restore`,
`Stop`, `GiveUp`, `RecordFailure` the failure path and its rollback in reverse
order; `Observe` is `observe`; `Scan` and `Recover` are orphan recovery.
`CommandMatches`, `Exempt` and `Monotonic` are the webhook and the admission policy
under `deploy/kubernetes`, `Admit`, `Persist` and `Refuse` what the API server does
with a request.  `FencedRuntime` is the contract that `CaasTenant` states as
`Admits` and `Command`; `ImplementsRuntime` shows that the adapter keeps it.

Assumed: `assertFence` and the read that follows are one step; a namespace goes away
only after the requests admitted before; claim and receipt loops and `observe` are
one step each.  Left out: manifests (one content each), preflight, image evidence,
route probes, the report of orphan recovery.

### DsaasReconcile

One dataspace: `ds` its record, `part` the participants, `caas` what CaaS holds and
runs for each, `reg`, `svc` the two registries, `owner` the resource lease, `pc`,
`got` and `view` the calls between their awaits.  `Read`, `Supersede`,
`PrepareRevocation`, `PrepareServices`, `Command`, `CommandFails`, `Commit`,
`GiveUp` and `Fenced` are `reconcile` from its snapshot to its last transaction;
`SetDesiredState`, `SubmitParticipant` and `ApproveParticipant` are the routes that
write without the lease; `Begin` is a manual or a scheduled call.  `stale` stands
for the record's revision, which is only ever compared with that of a snapshot.

Left out: roles and actors, the idempotency ledger (a replayed key changes nothing),
uniqueness of technical identifiers, records older than `nextCheckAt`,
`lastKnownConnector`, and CaaS administrators who change a tenant behind DSaaS.

### Scheduler

`Scan` reads the due list and moves the cursor, `Reconcile` handles the targets one
by one; `ListBacklog` and `ReadRecord` are `reconciliationBacklog`, dataspace by
dataspace, while calls of the API go on (`ReconciledByCall`), and `Report` or
`BacklogFails` ends the tick; `Start`, `Stop`, `AbortTick` are the timer and
the shutdown.  A reconcile settles its dataspace or fails, with a trace in the record
(`outcome`, which a kept `caasRetry` is part of) or without one.  Of the failures only
whether there are any is kept, and of the blocked dataspaces, which do not count against
readiness, nothing.  For the properties only, `waited` counts the ticks a dataspace
spent in an unchanged list, and `ill` has those that fail ever since a backlog was
begun.  Over a list that
changes in every tick a target may wait for longer: the cursor is a position.

### FileState

One process per call: lock file, load, operation, temporary file, rename, directory
sync, unlock, with a crash or a power loss between any two.  `onDisk` is what
processes see, `durable` what a power loss leaves.  `Swallows` is the one difference
between the stores (CaaS fails a call whose lock cannot be removed, DSaaS ignores
it).  Two facts of the code that no property contradicts: a failed directory sync is
told as a failure although the rename has happened, and the lock stays when the
holder's name cannot be written into it.  The content rules are a predicate.

### ControlServer

The life of a server (`Start` to `BecomeReady`, `Close`, `Drained`, `Expire`,
`CloseRuntime`) beside its requests (`Arrive`, `Admit`, `Authenticate`, `Operate`,
`Deny`, `Answer`, `Account`, `CutOff`), at the grain of its awaits.  The constant
`ReadsDrain` tells CaaS, which goes on answering reads while it drains, from DSaaS.
Left out: health endpoints, rate limits, token verification.

### UsageMeter

`entries`, `rollup` and the outbox rows of one meter.  `Lock`, `InsertEvent`, `Ask`,
`Rebuild`, `Commit`, `Rollback` are the transactions of `record` and `reprocess`;
`Retry`, `Report`, `Close`, `Drained` are the recorder.  An event is its identity.

### ScopedCutover

Writers of the JSON store (`Connect`, `JsonSelect`, `JsonCommit`, ...), the fence of
the runtime role, the cutover as one SERIALIZABLE transaction (`CutBegin`,
`CutLock`, `CutCommit`), bootstrap and the first writes of the scoped store.  The
JSON writers never read `control_store_mode`: it is the fence and the bootstrap,
in the order of `deploy/kubernetes/control-store-migration-job.yaml` (:35, :101) and
`deploy/kubernetes/ha/apply.ps1` (:393), that keep them out.  The outbox rows and
the shape of records are left out.

### TenantStore

`Check` and `Reauthorize` are the gates of the store, `Execute` one statement under
the row policies of migration 002, `Refuse`, `PolicyDenies` and `RecordDenial` the
denials and their audit.  `Revoke` and `Tick` change bindings and the clock at any
time.  When the session's own binding was revoked, the audit of the denial is itself
refused: `AccessIsAudited` says which refusals are recorded.

### ManagementClient, AddressPolicy

`Publish` goes through the objects of an offering; `Send`, `Serve`, `SendAgain`,
`GiveUp`, `Receive`, `CarryOut` are one request and what becomes of it; `held` and
`circuit` are the breaker's state and the one in the client's Map.  Circuits of the
first concurrent requests to an origin count apart, which `BreakerOpens` allows for.
`AddressPolicy` compares the classification of addresses with the narrowest block of
the tables; addresses have words of `WordBits` bits.  With `allowPrivate` nothing is
judged (`http-client.mjs:30`): `Configure` is the check of a configuration, which refuses
that in production, and `PinnedIsPermitted` promises nothing elsewhere.

### Discovery

`file` is the state file, `run[r]` a command line between its steps: `Start` reads
the inputs, `WithStateLock` locks and loads, `Sync` and `Review` are
`synchronizeBatch` and `reviewPendingOutboxEvents` up to the rename, `Release`
removes the lock file, which a `Crash` leaves to `ClearLock`.  The loops over the records
(`ReconcileRecords`) and the events of a batch (`ApplyBatch`) are recursive functions of
the position; an event that fails the batch makes the state `failed`, and such a state
is never renamed into place.  A record's content is
one of `Kinds`, a digest the value it is the digest of.  Left out: capacity limits,
the check for clocks that are ahead, and path aliases.

### ProfileValidation, NetworkReferences

`ReadManifest`, `ReadLock`, `ReadArtifact` are the three readings of a release,
`Plan`, `Isolate`, `Worker_Post`, `Timer`, `Receive`, `Compose`, `Write` the
publication check with its workers; what a document raises under a shape graph is a
table.  The integrity of network references is only checked when SHACL raised
nothing (`validator.mjs:377`).  Left out: inventory additions, the values of the
limits, identities of blank nodes.  `NetworkReferences` has every rule of
`network-reference-integrity.mjs` but `validateStandardNodeLinkExtract`.

### RequirementEvidence

`Begin` to `NextPhase` are `build-requirement-evidence.mjs`, write by write;
`Interrupted` is its death, which may cut short any of the files it writes at once.
`ScanShapes` to `Pass` are `verify-requirement-traceability.mjs`, read by read: the
shapes, the register, the inventory, the clauses, the projection, the cases, the shapes
once more, and one fixture after the other; `check` is what it holds in memory, and
`check.clean` that nothing has changed since it began.  A finding ends a verification
(`Leave`), since nothing passes after one.  `Edit...` is what people do: between builds,
and between the reads of the verifier.  What a rule shows in its row, what a fixture
breaks, and what the verifier alone objects to in a constraint (`Flaws`: the severity, a
second ID that is no literal, a blank node of several shapes, a helper property, the JSON
Schema of a row), are tables: the builder has none of these checks, so that it may write a
register that cannot pass, and `BuiltVerifies` speaks of constraints without a flaw.
One step each: the builder's reads, of which it keeps nothing but what it writes, and
`VerifyUpstream`.  Left out: source overrides, several profiles, `--engines`,
`coverage-blockers.json`, the manifest's paths and versions, the limits on files and on
the number of validation results (which differ between the two programs), and the
serialization of a mutation.

### ReleaseGate

`Gate_...` is `release-gate-v2.mjs`, with its samples of lock and Git at start and
end, `Run_...`, `Matrix_...` and `Parity_...` the runners, `Payload_Start`,
`Sign_Finish`, `Verify_Finish` the signature, `Relock_...` the artifact lock, `Edit`,
`Restore`, `Commit` people.  The other commands succeed or fail at will.  One runner
at a time; gate, runner and signer are in behaviours of their own (`Plans`).

### ProviderAuthority

`Resolve` is `resolveProviderAuthority`, with its denials in order (`Answer`).  Around
it, external to the code: an issuer approves an authority for an interval and revokes it
(`Approve`, `Revoke`), a keeper publishes snapshots of what it knows (`Publish`), an
enforcement point dates a request (`Ask`), and receipts are signed (`Sign`), by the
verifier or by another, who may name the verifier all the same.  The keeper does not lie:
an entry has an interval that was proposed or approved, and says of its revocation what
was so at `checkedAt`; it may list an authority before it is approved, date a snapshot
ahead or publish an old check.  Requests may be dated ahead as well.  Among such snapshots
three checks of the code are redundant to the property: the one for revocation evidence
from the future, since the one for stale evidence and the snapshot's own dates do the
rest, the age of the receipt beside that of the evidence, and, as long as one snapshot is
published, the digest of the registry.

### Composite instances

`Queues`, `MCProgress`, `Services` and `Profiles` each hold instances of several
components that share nothing: a behaviour is of one part, whose variables move while
the others rest, so that the states add up and do not multiply, and one run can check
them all.  `Parts` names those a run of `Queues` or `Profiles` is about; the runs below check
them all.  `Queues`, `Services` and `Profiles` leave the parameters of their parts open,
with what the code says of them as assumptions (`...Assumption`), so that theorems can
be stated about them; `MCQueues`, `MCServices` and `MCProfiles` give them their small
values.

## 4. Runs

| Run | Instance | What it shows |
| --- | --- | --- |
| `store_fenced` | either backend, two leased and one unleased call, one transaction each, three tokens, nested locks up to 2, fair calls | answers are true; a living lease is the current one and no pooled JSON connection holds the lock; refinement of `FencedRegister`; the lock gets free again |
| `tenant_core` | two calls, two plans, three generations of the tenant, two of DSaaS, three leases, every route a tenant credential has | settled records are backed, ensure answers are true; only a rollback takes a bound tenant out of the state DSaaS asked for |
| `tenant_rollback` | one call, two plans, five generations, two of DSaaS, five leases | **violation** of `DsaasIntentHolds` |
| `kubernetes` | two calls on one tenant, commands of four kinds (plain, schema-bound, suspending, deleting), three tokens, one late request | APPLIED is exclusive, rollout follows migration; refinement of `FencedRuntime`, deletions of one's own |
| `dsaas` | two calls, two participants, three budgets of asks, registry changes and faults, fair scheduler | rest, revocation and applied generation are true of CaaS; intent and revocation reach it |
| `dsaas_blocked` | one call, three asks | **violation** of `SuspensionReaches` |
| `transfer_live` | two workers, three faults, late requests | authorized starts and terminations complete |
| `transfer_revival` | late requests | **violation** of `NoAccessAfterTermination` |
| `queues` | bridge: two processes, two items on two pages, two source states, one attempt, one fault; archive: two dispatchers, two events, batches of two, two attempts, two faults; discovery: two runs, two records, four batches, two registries, two configs, two instants, three commands | "not modified" hides nothing, completed is published, settled is final; published is archived, once; the state is loadable, reviewable, complete, of the latest events, listed commands are approved, applied and withdrawn stay |
| `progress` | usage log: as the archive, one event invalid; bridge: one process, two attempts, one fault | published is exported, answers count for their own attempt; no event with attempts left is forgotten; every item settles and the checkpoint catches up |
| `services` | transfer: two workers, three faults, late requests; cutover: two scopes, two keys, two writers, versions to 2; tenant store: two calls of twelve requests, break-glass to the last instant; file: two calls; meter: two requests, two rebuilds; scheduler: three dataspaces, two per tick; server: a write and a read, two starts; client: two publications that share a policy; addresses: 3-bit words, both environments, with and without `allowPrivate` | evidence, access revoked before a termination is reported, refinement of `TransferPromise`; and the property of each service of section 1 |
| `profiles` | network: three editions, three edits; validation: five documents, four artifacts, two edits; requirements: two constraints, one of them the owner of the other, four rules of which two show the same row and one has a flaw, two edits or interruptions; release: two edits, one commit, one run; authority: two authorities, two requests, age 1, one snapshot, one receipt, dates to 2 | an accepted graph is a history; a pass is one judgement; passed is evidenced, whatever passes was replayed, and what was built undisturbed passes; evidence, verdict and signature are of one lock; allowed was in force |

Why these bounds are enough to be interesting: two actors of each kind already
allow a stale one beside a current one, which is what fences, claims and leases are
about; three tokens let a call outlive its lease twice; two attempts have a retry
and a last one; one fault in the bridge hits any of its steps, two in the outbox
lose an answer and then the retry's.  Two edits of a release can change a file and
put it back.  Bounds that are smaller than in the code: `Discovery` keeps one
superseded command per chain (5 in the code) and lists two candidates (50);
`FileState` prunes its audit after four events; the client retries once.  Every
property fails for the bug named in its mutant, within these bounds.

Where the prover reaches (section 6) the safety properties hold without the bounds.

## 5. Fairness

Nothing is assumed fair that the code does not repeat by itself.

- `store_fenced`: each call takes its next step (a promise chain that is awaited).
- `transfer_live`: a living process takes its steps; the operator removes a lock
  file that stayed; the inbox delivers an event again and again, so that an action
  that is possible infinitely often is taken (strong fairness of `Begin`).
- `progress`, usage: the poll loop of a living dispatcher, and time.  Bridge: the
  loop of `main`, its supervisor, time, and the operator who removes a lock file that
  stayed.  One bridge process only, which is the documented deployment: two that
  meet each other's lock file may do so for ever.
- `dsaas`: a started call goes on, the scheduler ticks (`Begin("scheduled")`), retry
  and deadline times pass, CaaS works off what it has taken.  No operator has to call.

Faults and registry changes are finitely many in every liveness run: the properties
say what happens after they stop.

## 6. Proofs

Each `...Proofs` module proves its component's invariants for all values of the
constants, from the assumptions the component module names (which TLC evaluates).
Each has one inductive invariant `IInv`, the lemma that `Init` implies it, one
lemma per action (or per conjunct) that it is kept, and theorems that read the
properties off it.

- `FencedStoreProofs`: `IInv` adds who owns which session (`SessionInv`), that
  tokens are distinct and below the fence (`TokenInv`), what an open transaction
  has read and locked (`TransactionInv`), that a write not yet told is not in the
  row before its commit (`FreshInv`), and that a lock of the JSON store is held once,
  through a connection that is checked out (`PoolInv`).  From it: `TypeCorrect`,
  `LiveLeaseHolds`, `LocksHold`, `AnswersHold`, `WritesAreFenced`, and
  `StoreImplementsRegister`, the refinement, step by step.
- `CaasTenantProofs`: the core is `TokensOrdered` and `SentIsTaken` (what the
  runtime took was prepared under a lease whose token it has) and
  `PreparedIsPending` (the record is pending before a command is sent), which make
  `SettledIsBacked` inductive; `AInv` adds what an ensure call may rely on while
  its lease is the newest, for `EnsureAnswersAreBacked`.  `IntentEscapesByRollbackOnly`
  has every route open that the server gives a tenant credential; section 7 says
  what the rollback among them does.
- `OutboxProofs`: what a worker that stands somewhere knows of its event
  (`Places`), and that a claim it still holds is its last (`LastClaims`); hence
  `PublishedIsInTheSink`, `ArchivedOnce`, `AnswersAreForTheLastAttempt`.
- `QueuesProofs`: what a poll has read while the source is still in the state
  it saw first (`Polls`), that an acknowledgement follows a publication
  (`Deliveries`), and that items which are no dead letters have attempts left;
  hence `NothingStaysHidden`, `CompletedItemsArePublished`, and, from what every
  step keeps (`Kept`), `SettlementsAreFinal`.  `ArchiveStaysExact` instantiates
  `OutboxProofs` for the archive.
  - `DiscoveryInv`: the state file agrees with the registry, the config and the instant it
    names (`Agrees`).  For every record (`KeyIs`) what is shown and offered follows from its
    approval, the pending command of each family is the one that decision calls for, its
    gate is of the same grant (`GateIs`), and no command is of a later version than its
    record; every superseded command has a successor that is not older, which compaction
    therefore keeps whenever it keeps the command (`Boxed`, `CompactKeeps`).  A run that
    holds the lock works on the file as it is (`RunIs`).
  - A batch is a loop, so its step is an induction: `AppliedInTurn` and `ReconciledInTurn`
    say that the recursive functions are defined, and `BatchKeeps` and `RecordsKeep` take
    the least position at which the agreement would be lost.  While the records are
    reconciled, those already done agree with the new registry, the others with the old one.
    Hence `StateStaysSound` and `StateStaysKept`, for any batches and limits.
- `ServicesProofs`: a step of `Services` is a step of one part (`OnePartMoves`), so that
  each part has an inductive invariant of its own, `...Inv`, with the lemmas `...Starts`,
  `...Stays` and `...Implies`.
  - The transfer job has `Locked` (one worker past `Begin`), where a worker that starts or
    ends a transfer may stand relative to the journal and the connector, `Evidence` and
    the order of late requests.  `Revocation` says what has become of the access when the
    platform has answered a revocation: taken away, found absent, or given after that by a
    request that was on its way before (`Answered`).  Late requests are allowed in all three theorems,
    `StartedIsBacked`, `NoAccessOutlives` and `KeepsThePromise`, the refinement of
    `TransferPromise`.
  - `MeterInv`: whoever is past the advisory lock holds it, and an event, its outbox row
    and its hour's count are stored together; the count is a cardinality, which grows by
    one for an event that was not there.
  - `ServerInv`: a shutdown is seen by whatever starts after it (`ShutdownIsSeen`), nobody
    comes in while the server does not listen (`NobodyComesIn`), and what is known,
    applied, denied and metered follows from where a request stands (`RequestIsJudged`).
  - `StoreInv`: a call that was served was judged in the step that served it, its permit
    or denial was appended before, and audit chains only grow.
  - `ClientInv`: what a publication has found or made stays at the connector, which replaces
    nothing; whoever makes an object, late or not, had made the ones before it (`Sourced`,
    `Grounded`).  The breaker needs the streak of failures to be spread
    over the circuits that are held, which is a sum; it is bounded by telling the failures
    apart as pairs of a circuit and a count below the threshold.
  - `FileInv`: a call that runs holds the lock file, what it is about to write extends what
    is on disk, the file on disk extends the durable one, and the durable one every draft
    that was told committed.
  - `ClockInv`: between two ticks over one list, what a target has waited and how far it is
    ahead of the cursor are less than a round.  That a finite set of numbers has a sorted
    list at all is proved by ranks, since the library's induction cannot be used.
    `BacklogInv`: whatever fails ever since the backlog was listed is still to be read or
    has been counted; hence `ReadyIsEarned`.
  - `CutoverInv`: one session of the old store writes at a time, from the snapshot as it is;
    none is open while the cutover runs, which therefore moves what is there, and none can
    open after it (`Sessions`); what is told is kept by the store that is in force.
- `ProfilesProofs`: laid out like `ServicesProofs`.  Everybody here reads files that others
  change, so each invariant says what a program holds in memory was when it was read.
  - `ValidationInv`: what a worker's report says is true of the document and the shapes it
    names, whatever the release is by now (`ReportsAreGood`); every profile of the plan has
    reported before the reports are put together (`RoundsFollow`), and what is put together is
    of one plan and one document (`VerdictIsWhole`).  `PassedIsAcceptable` says that a scan
    which found nothing had nothing to find, whatever the limit on results.
  - `RequirementInv`: what the verifier holds in memory stands by itself (`ReadingStands`:
    the cases done were replayed on the shapes it loaded last), and while nothing has changed it is what the disk says (`ReadingIsOfDisk`).
    Nothing is promised of a build once something has changed; while nothing has, what the builder computed is what the verifier accepts (`OutputStands`: the
    builder's rows fit the shapes, each of its cases is replayed with the same decision,
    each row's links are cases) and what is still to be written is all that is missing
    (`BuildStands`).  That an accepted register is evidenced is `TraceableIsEvidenced`, and that
    any pass is of cases it has replayed `ReplayedIsEvidence`: a
    negative case breaks a constraint that carries the ID or is owned by the one that does.
  - `ReleaseInv`: evidence that the gate has not rejected, and the register it judges by, are
    of the lock it read first (`EvidenceStands`, `LockStands`), which follows from the order in
    which it reads (`StagesFollow`); the matrix of a run, on the shelves and in the commits
    has the bundle and the registry of its own lock (`RunStands`, `ShelvesAreLocked`); what
    is signed is what was locked (`SignatureStands`).
  - `AuthorityInv`: an entry listed as approved has the interval and the dates of an
    approval that was given, one listed as current was not revoked before it was checked
    (`RegistryIsTrue`), and what was allowed keeps what it was allowed on (`AllowedHolds`).
  - `NetworkInv`: the verdict follows from the graph it was given on (`VerdictsAreRight`).
    The checker compares an edition with its successor only (`FaultlessStands`); that whoever
    follows comes later (`FollowersAreLater`) is an induction over replacements, made by
    showing that no replacement leads out of the later editions.  So nobody follows itself,
    and a history ends: of all followers take one with the fewest followers
    (`HistoriesEnd`), which exists since numbers are well-founded.  `RefusedBreaks` goes
    through the faults in the order they are looked for: when a successor is at fault, no
    record is.
- `KubernetesFenceProofs`: neither of the two properties is inductive, because what
  can go wrong is on the wire.  `IInv` says whose each request is (`RequestInv`: one
  per call, one per command that did not begin to roll back), that a request older
  than the fence was computed from an earlier revision of whatever the current
  command has written (`CellInv`), that a namespace deletion that can still fit is of
  the command that wrote the namespace (`DeletionInv`), that no late creation brings
  the namespace back once the command has written it (`NamespaceInv`), that the
  current command owns every object behind the step it is at (`ProgressInv`), that a
  receipt leaves nothing of its command on the wire (`AppliedInv`), and how far a plan
  with a schema has come when its workload may run (`SchemaInv`).  `Kinds` reduces
  the 28 actions to six kinds of steps.  From it: `FenceIsKept`, and `RuntimeHolds`,
  which is the refinement of `FencedRuntime`, step by step, and `DeletesItsOwn`.
- `DsaasReconcileProofs`: the report of a call is true only because of what can no
  longer happen to CaaS behind it.  `IInv` says that nothing on its way is of a
  generation to come, that the snapshot of a call that is not stale is the record and
  its commands are those of the snapshot (`SnapshotIsTheRecord`), that an answer such a
  call got is a command in place which nothing on its way can displace
  (`AnswersAreInPlace`), and that whatever is newer than a revoked participant's
  suspension is a suspension too (`SuspensionsStay`), since a revocation outlives its
  generation.  The steps fall into nine kinds (`Kinds`), and each conjunct is kept over
  the kinds.  From it: `RecordIsKept`, for any number of calls and participants.

What the theorems on Discovery take from the code as assumptions: a batch has the
versions and contents that `validateBatch` lets pass, a grant has two instants, the state
lists every record, and what is absent is no digest, no Dataset ID and no lock owner.
What those of `ServicesProofs` take: a recorded
request and a rebuild never share an identifier; tenants are not called like the
platform's or nobody's account, which the scoped store reserves
(`postgres-scoped-control-store.mjs:546`); a request has been validated; the contract
definition is the last object of an offering and no policy or asset of another one;
identifiers can be ordered; the holder of a lock file is told from a free and a stale
one.  Those of `ProfilesProofs`: findings are texts and results have one of three
severities; the shapes of a profile are artifacts of the release; a requirement ID is
no name of a reviewed fixture, the first release uses each of them once or more, and a
mutation is a fixture; the policy's register has the items that stand for checks, all
of scope `profile-core`; a file that is missing or cut short is told from one that parses;
an IRI is listed once, dates are numbers, and a successor may be current, superseded or
withdrawn, as the policy's schema has it (`network-reference-policy.v1.schema.json:134`).
No other property of the tables is assumed: a fixture may break anything.

Only model-checked: every liveness property, which is beyond TLAPS, and
`PinnedIsPermitted`, whose blocks of addresses are powers of two: the provers know
nothing of exponentiation.

## 7. Where code and documents disagree

Three runs show a violation:

- `tenant_rollback`: the rollback route does not look at the DSaaS binding, so that a
  tenant credential takes a connector DSaaS has suspended back to `PROVISIONED`.
- `transfer_revival`: the operation lock is released with a timeout, while the
  request may still be on its way, so that access outlives the termination.
- `dsaas_blocked`: a reconcile that was superseded while an approval is revoked
  gives up, and the next scheduled one returns at once because the revocation is
  complete; a suspension that was asked for reaches nobody.

The others have a property in their module and no run of their own; TLC finds them
with the constants that are named here.

- `PooledConnectionHoldsNoLock` (FencedStore, `store_fenced`): the scoped store
  returns a lease connection to the pool although its cleanup is unconfirmed, and
  the advisory lock with it.  Fencing keeps the state right; the resource stays busy
  until the connection closes.
- `ExhaustedIsSeen` (Outbox, archive, two events, batches of two, no faults): an event
  that used up its attempts in a batch that was dropped is neither delivered nor a
  dead letter, and readiness does not see it.
- `GenerationIsOneCommand` (DsaasReconcile, `dsaas`): before the first observation of
  the services a change of their readiness changes the command of a generation.
- `SchemaEvidenceIsReal` (KubernetesFence, one call, `Intents` {"two"}, migrating,
  `MaxSecret` 2): a retry takes the Job of an interrupted attempt, which ran against
  an earlier Secret, for its own.
- `ConvergedIsTrue` (KubernetesFence, one call, `Intents` {"one", "two"}): a failure
  after the receipt restores the former workload, and when the FAILED receipt is lost
  an observation reports the command converged.
- `PassedIsIsolated` (RequirementEvidence), `ParityIsLocked` (ReleaseGate) and, with
  `MaxEdits` 3, `NetworkIsJudgedByThePlan` (ProfileValidation), on the instances of
  `MCProfiles`: a fixture that breaks a nested constraint counts for its owner; the
  parity runner does not compare the bundles it read one by one; a publication check
  names the digest of its plan beside the verdict of another network policy.

Read off the source rather than shown by a run: `withRuntimeLock` marks its lock
file "operator-only" and throws on one that it meets (`durable-store.mjs:85`, `:93`),
while `production-bridge-runtime.md:120` says that the next run takes back the lock
of a dead process.  `BridgeQueue` follows the source: without `OperatorClears` in
its fairness none of its liveness properties holds.
`deploy/control-store/postgres/README.md` (section 4) describes the cutover without
the role fence on which its safety rests.

The quotations are in `PROJECT.json` under "findings".

## 8. Not modelled

- Telemetry, SLO status and OTLP export: output that no other component reads, but
  for readiness flags.
- Catalog projection, publication and attestation: pure projections and a read-only
  server.
- Identity and TLS runtimes: cryptographic predicates and file reloads.
- Operations preflight and command lines: one-shot checks and parsing.
- RDF loading, SHACL evaluation, signatures and digests: data, as tables or values.
- What each modelled component leaves out is named in section 3 and, per component,
  in `PROJECT.json`.  Two things of the code are outside the models: a try-lock
  query that times out on the client and is granted on the server
  (`postgres-json-store.mjs:702`), and the 128 MiB limit of the queue file
  (`durable-store.mjs:56`).

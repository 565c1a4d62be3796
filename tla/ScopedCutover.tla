--------------------------- MODULE ScopedCutover ---------------------------
(***************************************************************************)
(* One component of the control plane moves from the JSON snapshot store   *)
(* (postgres-json-store.mjs with normalized-projection.mjs) to the scoped  *)
(* store (postgres-scoped-control-store.mjs).  The move is                 *)
(* scoped-cutover.mjs, run by an operator between two fences of the        *)
(* database roles: runtime-role-fence.sql before it takes the right to     *)
(* log in away and ends every session, runtime-role-bootstrap.sql after it *)
(* revokes every right on the snapshot table.                              *)
(*                                                                         *)
(* The stores share three tables, which is what makes the move delicate:   *)
(* idempotency_record (ledger), audit_event (audit) and the outbox, which  *)
(* holds exactly one row per audit event and is left out.  A transaction   *)
(* of the JSON store is two steps (the row is locked, the commit), one of  *)
(* the scoped store is one step, for it holds the mode row throughout; the *)
(* cutover is SERIALIZABLE: it sees the database as it was when it began.  *)
(* An audit event is named by the store that wrote it.                     *)
(***************************************************************************)
EXTENDS Naturals, Sequences, FiniteSets

CONSTANTS
    Scopes,      \* tenants of CaaS, or dataspaces of DSaaS
    Keys,        \* idempotency record keys
    Proven,      \* the keys whose record shows its scope; another one is
                 \* projected under the platform and needs the approved map
    Writers,     \* processes running the JSON store
    Platform,    \* the scope "molit-platform", not one of Scopes
    NoScope,     \* nor is this
    NoSnapshot,  \* no row in json_snapshot, or no legacy file
    MaxVersion,  \* bound: writes to one resource
    MaxSeq       \* bound: audit events

VARIABLES
    snapshot,   \* the json_snapshot row: revision, resources, records, audit length
    projected,  \* resource_state and projection_tenant_registry
    ledger,     \* idempotency_record: set of <<tenant, key>>
    audit,      \* audit_event: its events in order of sequence
    scoped,     \* scoped_control_state: the version of each resource, 0 absent
    registry,   \* control_scope_registry: revision, digest and count per scope
    head,       \* component_audit_head: sequence and state root
    mode,       \* control_store_mode: the mode and the state root
    role,       \* the runtime roles: may they log in, hold they snapshot grants
    conn,       \* JSON processes with a session
    base,       \* what a JSON transaction selected FOR UPDATE, if one is open
    cut,        \* the cutover transaction: its place, the database it sees
    file,       \* the approved legacy file, if the operator gives one
    map,        \* the approved scope map: the snapshot it is bound to, the keys
    ready,      \* has a process initialized the scoped store
    told        \* history: per scope the version, per key the scope, acknowledged

jsonTables   == <<snapshot, projected>>
scopedTables == <<scoped, registry, head>>
vars == <<snapshot, projected, ledger, audit, scoped, registry, head, mode, role,
          conn, base, cut, file, map, ready, told>>

-----------------------------------------------------------------------------
(* States of the old store                                                 *)

NoResources == [s \in Scopes |-> 0]
NoRecords   == [k \in Keys |-> NoScope]
Empty       == [rev |-> 1, res |-> NoResources, rec |-> NoRecords, seq |-> 0]

Present(res) == {s \in Scopes : res[s] > 0}
Recorded(rec) == {k \in Keys : rec[k] # NoScope}

\* The tenant a record is projected under: result.tenantId, else the platform.
Shown(k, s) == IF k \in Proven THEN s ELSE Platform

ProjectedLedger(rec) == {<<Shown(k, rec[k]), k>> : k \in Recorded(rec)}

\* Every tenant the projection has ever registered, and those of this state.
KnownTenants(state) == projected.tenants \cup Present(state.res) \cup {Platform}

\* The events of the state are in the table or can be appended to it.
AuditAgrees(state) == \A i \in 1..state.seq : i <= Len(audit) => audit[i] = "json"

\* NormalizedControlProjection.apply: rows of known tenants that the state
\* does not hold are deleted, a row under another tenant stays.
Project(state) ==
    /\ AuditAgrees(state)
    /\ projected' = [res |-> state.res, tenants |-> KnownTenants(state)]
    /\ ledger' = {row \in ledger : row[1] \notin KnownTenants(state)} \cup ProjectedLedger(state.rec)
    /\ audit' = audit \o [i \in 1..(IF state.seq > Len(audit) THEN state.seq - Len(audit) ELSE 0) |-> "json"]

RowLocked == cut.at = "locked" \/ \E w \in Writers : base[w] # NoSnapshot

-----------------------------------------------------------------------------
(* The JSON store.  Nothing in it reads control_store_mode.                *)

Connect(w) ==
    /\ role.login /\ w \notin conn
    /\ conn' = conn \cup {w}
    /\ UNCHANGED <<jsonTables, ledger, audit, scopedTables, mode, role, base, cut, file, map, ready, told>>

\* initialize: the row is inserted if there is none, and projected.
JsonInitialize(w) ==
    /\ w \in conn /\ role.grants /\ base[w] = NoSnapshot /\ ~RowLocked
    /\ snapshot' = IF snapshot = NoSnapshot THEN Empty ELSE snapshot
    /\ Project(snapshot')
    /\ UNCHANGED <<scopedTables, mode, role, conn, base, cut, file, map, ready, told>>

\* transact, up to SELECT ... FOR UPDATE.
JsonSelect(w) ==
    /\ w \in conn /\ role.grants /\ snapshot # NoSnapshot /\ ~RowLocked
    /\ base' = [base EXCEPT ![w] = snapshot]
    /\ UNCHANGED <<jsonTables, ledger, audit, scopedTables, mode, role, conn, cut, file, map, ready, told>>

\* A command on s: it is recorded under k, sealed by one audit event.
Written(state, s, k) ==
    [rev |-> state.rev + 1, res |-> [state.res EXCEPT ![s] = @ + 1],
     rec |-> [state.rec EXCEPT ![k] = s], seq |-> state.seq + 1]

\* transact, from the update to its COMMIT, with the projection in it.
JsonCommit(w, s, k) ==
    /\ base[w] # NoSnapshot /\ w \in conn
    /\ base[w].rec[k] = NoScope /\ told.rec[k] = NoScope
    /\ base[w].res[s] < MaxVersion /\ base[w].seq < MaxSeq
    /\ snapshot.rev = base[w].rev
    /\ snapshot' = Written(base[w], s, k)
    /\ Project(snapshot')
    /\ told' = [ver |-> [told.ver EXCEPT ![s] = snapshot'.res[s]],
                rec |-> [told.rec EXCEPT ![k] = s]]
    /\ base' = [base EXCEPT ![w] = NoSnapshot]
    /\ UNCHANGED <<scopedTables, mode, role, conn, cut, file, map, ready>>

\* The operation refuses, the projection conflicts, or the session breaks.
JsonRollback(w) ==
    /\ base[w] # NoSnapshot
    /\ base' = [base EXCEPT ![w] = NoSnapshot]
    /\ conn' \in {conn, conn \ {w}}
    /\ UNCHANGED <<jsonTables, ledger, audit, scopedTables, mode, role, cut, file, map, ready, told>>

-----------------------------------------------------------------------------
(* The operator                                                            *)

\* Mutant: the sessions that are open stay.
Fence_KeepsSessions ==
    /\ role' = [role EXCEPT !.login = FALSE]
    /\ ready' = FALSE
    /\ UNCHANGED <<jsonTables, ledger, audit, scopedTables, mode, conn, base, cut, file, map, told>>

\* runtime-role-fence.sql: NOLOGIN, and pg_terminate_backend on every session.
Fence ==
    /\ role' = [role EXCEPT !.login = FALSE]
    /\ conn' = {} /\ base' = [w \in Writers |-> NoSnapshot]
    /\ ready' = FALSE
    /\ UNCHANGED <<jsonTables, ledger, audit, scopedTables, mode, cut, file, map, told>>

\* The snapshot the cutover would start from.
Source(row) == IF row # NoSnapshot THEN row ELSE IF file # NoSnapshot THEN file ELSE Empty

\* A scope map is approved, bound to the snapshot's digest.
ApproveMap ==
    /\ map' = [of |-> Source(snapshot), keys |-> Recorded(Source(snapshot).rec) \ Proven]
    /\ map' # map
    /\ UNCHANGED <<jsonTables, ledger, audit, scopedTables, mode, role, conn, base, cut, file, ready, told>>

\* runtime-role-bootstrap.sql, then the operator's LOGIN.
Bootstrap ==
    /\ ~role.login /\ cut.at = "idle" /\ mode.at = "scoped"
    /\ role' = [login |-> TRUE, grants |-> FALSE]
    /\ UNCHANGED <<jsonTables, ledger, audit, scopedTables, mode, conn, base, cut, file, map, ready, told>>

\* The move is given up: the roles may log in again.
Unfence ==
    /\ ~role.login /\ cut.at = "idle" /\ mode.at = "projection"
    /\ role' = [role EXCEPT !.login = TRUE]
    /\ UNCHANGED <<jsonTables, ledger, audit, scopedTables, mode, conn, base, cut, file, map, ready, told>>

-----------------------------------------------------------------------------
(* The cutover                                                             *)

Idle == [at |-> "idle", row |-> NoSnapshot, ledger |-> {}, audit |-> <<>>, projected |-> [res |-> NoResources, tenants |-> {}]]

\* The transaction takes its snapshot of the database; the role is fenced.
CutBegin ==
    /\ ~role.login /\ cut.at = "idle" /\ mode.at = "projection"
    /\ cut' = [at |-> "begun", row |-> snapshot, ledger |-> ledger, audit |-> audit, projected |-> projected]
    /\ UNCHANGED <<jsonTables, ledger, audit, scopedTables, mode, role, conn, base, file, map, ready, told>>

\* SELECT ... FOR UPDATE of a row that has not changed since the snapshot.
CutLock ==
    /\ cut.at = "begun" /\ ~RowLocked
    /\ cut.row # NoSnapshot => snapshot = cut.row
    /\ cut' = [cut EXCEPT !.at = "locked"]
    /\ UNCHANGED <<jsonTables, ledger, audit, scopedTables, mode, role, conn, base, file, map, ready, told>>

NoResidue == cut.ledger = {} /\ cut.audit = <<>> /\ cut.projected.tenants = {}

MapKeys(state) == IF map.of = state THEN map.keys ELSE {}

\* Every record has one scope, shown by the record or by the approved map,
\* and a map that is given is bound to this very state.
Resolved(state) ==
    /\ map.keys # {} => map.of = state
    /\ \A k \in Recorded(state.rec) :
          /\ k \in Proven \cup MapKeys(state)
          /\ state.rec[k] \in Present(state.res)

\* verifyProjection: the tables say what the source says, or hold nothing.
Verified(state) ==
    IF cut.row # NoSnapshot
    THEN /\ file = NoSnapshot
         /\ cut.projected.res = state.res
         /\ cut.ledger = ProjectedLedger(state.rec)
         /\ Len(cut.audit) = state.seq /\ \A i \in DOMAIN cut.audit : cut.audit[i] = "json"
    ELSE NoResidue

\* control_scope_registry and its root after the cutover of a state.
ScopeRow(state, s) ==
    [rev |-> IF s = Platform THEN 0 ELSE state.rev,
     ver |-> IF s = Platform THEN 0 ELSE state.res[s],
     keys |-> {k \in Keys : state.rec[k] = s}]

Registered(state) == [s \in Present(state.res) \cup {Platform} |-> ScopeRow(state, s)]

HeadAfter(state) == [seq |-> state.seq, root |-> Registered(state)]

ReassignedLedger(state) == {<<state.rec[k], k>> : k \in Recorded(state.rec)}

\* The writes and the COMMIT.
CutCommit ==
    LET state == Source(cut.row) IN
    /\ cut.at = "locked" /\ Resolved(state) /\ Verified(state)
    /\ scoped' = state.res
    /\ registry' = Registered(state)
    /\ head' = HeadAfter(state)
    /\ mode' = [at |-> "scoped", root |-> Registered(state), first |-> Registered(state)]
    /\ ledger' = {row \in ledger : row[2] \notin Recorded(state.rec)} \cup ReassignedLedger(state)
    /\ audit' = IF cut.row = NoSnapshot THEN [i \in 1..state.seq |-> "file"] ELSE audit
    /\ cut' = Idle
    /\ UNCHANGED <<jsonTables, role, conn, base, file, map, ready, told>>

\* A check refuses, the serialization fails, or the process dies: ROLLBACK.
CutRollback ==
    /\ cut.at # "idle"
    /\ cut' = Idle
    /\ UNCHANGED <<jsonTables, ledger, audit, scopedTables, mode, role, conn, base, file, map, ready, told>>

-----------------------------------------------------------------------------
(* The scoped store                                                        *)

ScopedInitialize ==
    /\ role.login /\ ~role.grants /\ ~ready
    /\ mode.at = "scoped" /\ Platform \in DOMAIN registry /\ head.root = mode.root
    /\ ready' = TRUE
    /\ UNCHANGED <<jsonTables, ledger, audit, scopedTables, mode, role, conn, base, cut, file, map, told>>

\* The registry once scope s is at its next version with the keys of the ledger.
Advanced(s, rows) ==
    LET rev == IF s \in DOMAIN registry THEN registry[s].rev ELSE 0
    IN  [t \in DOMAIN registry \cup {s} |->
            IF t = s THEN [rev |-> rev + 1, ver |-> scoped[s] + 1, keys |-> {k \in Keys : <<s, k>> \in rows}]
            ELSE registry[t]]

\* createScope or transactScope: the domain event and the state commit are the
\* next two of the chain (their sequence must be free), and both roots follow.
ScopedTransact(s, k) ==
    /\ ready /\ role.login /\ mode.at = "scoped"
    /\ told.rec[k] = NoScope /\ scoped[s] < MaxVersion
    /\ Len(audit) = head.seq /\ head.seq + 2 <= MaxSeq
    /\ scoped' = [scoped EXCEPT ![s] = @ + 1]
    /\ ledger' = ledger \cup {<<s, k>>}
    /\ registry' = Advanced(s, ledger')
    /\ audit' = audit \o <<"scoped", "scoped">>
    /\ head' = [seq |-> head.seq + 2, root |-> registry']
    /\ mode' = [mode EXCEPT !.root = registry']
    /\ told' = [ver |-> [told.ver EXCEPT ![s] = scoped'[s]], rec |-> [told.rec EXCEPT ![k] = s]]
    /\ UNCHANGED <<jsonTables, role, conn, base, cut, file, map, ready>>

\* appendPlatformAudit: one event of the platform; the root stays.
PlatformAudit ==
    /\ ready /\ role.login /\ mode.at = "scoped"
    /\ Len(audit) = head.seq /\ head.seq < MaxSeq /\ head.root = mode.root
    /\ audit' = Append(audit, "scoped")
    /\ head' = [head EXCEPT !.seq = @ + 1]
    /\ UNCHANGED <<jsonTables, ledger, scoped, registry, mode, role, conn, base, cut, file, map, ready, told>>

-----------------------------------------------------------------------------

\* A file as an older release of the component left it.
LegacyFiles ==
    {NoSnapshot} \cup {Written(Empty, s, k) : s \in Scopes, k \in Keys}

Init ==
    /\ snapshot = NoSnapshot
    /\ projected = [res |-> NoResources, tenants |-> {}]
    /\ ledger = {} /\ audit = <<>>
    /\ scoped = NoResources /\ registry = <<>> /\ head = [seq |-> 0, root |-> <<>>]
    /\ mode = [at |-> "projection", root |-> <<>>, first |-> <<>>]
    /\ role = [login |-> TRUE, grants |-> TRUE]
    /\ conn = {} /\ base = [w \in Writers |-> NoSnapshot]
    /\ cut = Idle
    /\ file \in LegacyFiles
    /\ map = [of |-> NoSnapshot, keys |-> {}]
    /\ ready = FALSE
    /\ told = IF file = NoSnapshot THEN [ver |-> NoResources, rec |-> NoRecords]
              ELSE [ver |-> file.res, rec |-> file.rec]

Next ==
    \/ \E w \in Writers : Connect(w) \/ JsonInitialize(w) \/ JsonSelect(w) \/ JsonRollback(w)
    \/ \E w \in Writers, s \in Scopes, k \in Keys : JsonCommit(w, s, k)
    \/ Fence \/ ApproveMap \/ Bootstrap \/ Unfence
    \/ CutBegin \/ CutLock \/ CutCommit \/ CutRollback
    \/ ScopedInitialize \/ PlatformAudit
    \/ \E s \in Scopes, k \in Keys : ScopedTransact(s, k)

Spec == Init /\ [][Next]_vars

-----------------------------------------------------------------------------
(* Properties                                                              *)

TypeOK ==
    /\ ledger \subseteq (Scopes \cup {Platform}) \X Keys
    /\ audit \in Seq({"json", "file", "scoped"})
    /\ scoped \in [Scopes -> 0..MaxVersion]
    /\ DOMAIN registry \subseteq Scopes \cup {Platform}
    /\ mode.at \in {"projection", "scoped"}
    /\ cut.at \in {"idle", "begun", "locked"}
    /\ conn \subseteq Writers
    /\ ready \in BOOLEAN

\* The registry as the tables of the scoped store stand.
Current ==
    [s \in DOMAIN registry |->
        [rev |-> registry[s].rev,
         ver |-> IF s = Platform THEN 0 ELSE scoped[s],
         keys |-> {k \in Keys : <<s, k>> \in ledger}]]

\* The current state root of the mode row is the root of the audit head and
\* that of the rows themselves, so that no restart and no second cutover is
\* refused (deploy/control-store/postgres/README.md:83).
RootsAgree ==
    mode.at = "scoped" =>
        /\ mode.root = head.root
        /\ mode.root = registry
        /\ registry = Current

\* What the old stores hold: the row, and the file that was not taken over.
OldSources == {snapshot, file} \ {NoSnapshot}

\* Nothing a caller was told is lost by the move: after it the scoped store
\* holds every acknowledged version, and finds every acknowledged record under
\* the scope a retry would look in; before it an old store does.
ToldIsKept ==
    IF mode.at = "scoped"
    THEN /\ \A s \in Scopes : told.ver[s] <= scoped[s]
         /\ \A k \in Recorded(told.rec) : <<told.rec[k], k>> \in ledger
    ELSE /\ \A s \in Present(told.ver) : \E old \in OldSources : told.ver[s] <= old.res[s]
         /\ \A k \in Recorded(told.rec) : \E old \in OldSources : told.rec[k] = old.rec[k]

\* One audit chain runs through both stores: the scoped store appends where the
\* table ends, and no store ever writes after another took over.
ChainContinues ==
    /\ mode.at = "scoped" => head.seq = Len(audit)
    /\ \A i, j \in DOMAIN audit : i < j /\ audit[i] = "scoped" => audit[j] = "scoped"
=============================================================================

----------------------------- MODULE Discovery -----------------------------
(***************************************************************************)
(* The discovery synchronizer (src/discovery) behind its command line      *)
(* (src/cli.mjs).                                                          *)
(*                                                                         *)
(* `sync' applies one batch of source events to a state file: it           *)
(* re-evaluates the stored records when the approval registry, the         *)
(* projection config or a deadline changed, applies the events in order,   *)
(* and queues commands for a human reviewer.  `review' lists the pending   *)
(* commands that may be reviewed.  Both read their inputs first, then take *)
(* a lock file, load the state, and replace the file atomically; a batch   *)
(* is applied as a whole or not at all.                                    *)
(*                                                                         *)
(* A record's content is one of Kinds, a governance grant is a record with *)
(* a validity interval, a Dataset ID is the namespace of the config that   *)
(* made it, and a digest is the value it is the digest of.  A platform     *)
(* record that is no Dataset behaves like an incomplete one.  Reading the  *)
(* inputs, taking the lock and loading the state, computing and renaming,  *)
(* and removing the lock file are steps of their own.                      *)
(***************************************************************************)
EXTENDS Integers, FiniteSets, Sequences

CONSTANTS
  Keys,          \* source records (sourceSystemId, recordId)
  Order,         \* the order in which the state lists them
  Batches,       \* the batches the source sends: sequences of Events
  Inputs,        \* the [registry, config] files a run may be given
  Registries,    \* approval registries
  GrantOf,       \* [Registries -> [Keys \X versions -> grants or NoGrant]]
  Configs,       \* projection configs
  NamespaceOf,   \* [Configs -> namespaces]: the part Dataset IDs depend on
  MaxTime,       \* bound on the processing clock
  Kept,          \* superseded commands kept per chain (5 in the code)
  MaxCandidates, \* Dataset IDs remembered per record (50 in the code)
  MaxCommands,   \* bound on the outbox sequence
  Runs,          \* processes running the command line
  NoGrant, NoRun, Orphan

Times == 0..MaxTime
Never == MaxTime + 1
None == "none"

Kinds == {"offering", "incomplete", "restricted", "excluded", "broken", "deleted"}
Protective == {"DISCOVERY_DELETE", "CONNECTOR_REGISTRATION_REVIEW_WITHDRAW"}

Event(id, key, ver, what) == [id |-> id, key |-> key, ver |-> ver, what |-> what]

-----------------------------------------------------------------------------
(* Approval, decision and projection of one record.                        *)

\* A tombstone and a record that fails normalisation have no canonical form.
HasCanonical(entry) == entry.what \notin {"none", "broken", "deleted"}

Unverified(due) == [verified |-> FALSE, due |-> due, grant |-> NoGrant]

ResolveApproval(registry, key, ver, at) ==
  LET grant == GrantOf[registry][<<key, ver>>]
  IN  IF grant = NoGrant         THEN Unverified(Never)
      ELSE IF at < grant.from    THEN Unverified(grant.from)
      ELSE IF at > grant.until   THEN Unverified(Never)
      ELSE [verified |-> TRUE, due |-> Never, grant |-> grant]

DecideOffering(what, approval) ==
  IF what = "deleted" THEN "WITHDRAWN"
  ELSE IF what \in {"broken", "excluded"} THEN "QUARANTINED"
  ELSE IF /\ what = "offering" /\ approval.verified
          /\ approval.grant.public /\ approval.grant.offering THEN "APPROVED"
  ELSE "PENDING_EVIDENCE"

IsPublic(what, approval) ==
  what \in {"offering", "incomplete"} /\ approval.verified /\ approval.grant.public

\* The discovery record shows the decision; the Offering candidate holds the
\* Dataset ID and the approval itself.
Projection(what, approval) ==
  IF IsPublic(what, approval) THEN DecideOffering(what, approval) ELSE None

Candidate(what, approval, config) ==
  IF DecideOffering(what, approval) = "APPROVED"
  THEN [id |-> NamespaceOf[config], grant |-> approval.grant]
  ELSE [id |-> None, grant |-> NoGrant]

Offers(entry) == entry.candidate.id # None

-----------------------------------------------------------------------------
(* The state file.                                                         *)

Absent ==
  [ver |-> -1, what |-> "none", approval |-> Unverified(Never), shown |-> None,
   wasShown |-> FALSE, candidate |-> [id |-> None, grant |-> NoGrant], ids |-> {}]

EmptyState ==
  [records |-> [k \in Keys |-> Absent], seen |-> {}, outbox |-> {}, next |-> 1,
   registry |-> None, config |-> None, evaluated |-> -1, reviewed |-> -1,
   failed |-> FALSE]

Pending(st) == {c \in st.outbox : c.by = 0}
Chain(st, c) == {d \in st.outbox : d.key = c.key /\ d.family = c.family}

Watermark(st) == IF st.evaluated > st.reviewed THEN st.evaluated ELSE st.reviewed

Fail(st) == [st EXCEPT !.failed = TRUE]

\* A new command supersedes the pending one of its record and family.
AddOutbox(st, family, type, key, ver, payload, gate) ==
  LET Supersede(c) == IF c.key = key /\ c.family = family /\ c.by = 0
                      THEN [c EXCEPT !.by = st.next] ELSE c
  IN  [st EXCEPT
        !.next = @ + 1,
        !.outbox = {Supersede(c) : c \in @} \union
          {[seq |-> st.next, family |-> family, type |-> type, key |-> key,
            ver |-> ver, payload |-> payload, gate |-> gate, by |-> 0]}]

\* The superseded commands of a chain that come before one of its commands.
Newer(st, c) ==
  {d \in Chain(st, c) : d.by # 0 /\ (d.ver > c.ver \/ (d.ver = c.ver /\ d.seq > c.seq))}

\* Of every chain the superseded commands of the highest versions are kept.
CompactOutbox(st) ==
  [st EXCEPT !.outbox = {c \in @ : c.by = 0 \/ Cardinality(Newer(st, c)) < Kept}]

\* What a gate pins: the registry and config in force, the approval, the time.
Gate(registry, config, approval, ver, at) ==
  [registry |-> registry, config |-> config, grant |-> approval.grant,
   ver |-> ver, at |-> at]
NoGate == [registry |-> None, config |-> None, grant |-> NoGrant, ver |-> -1, at |-> -1]

KnownIds(entry) == entry.ids \union (IF Offers(entry) THEN {entry.candidate.id} ELSE {})
KnownIdsWith(entry, candidate) ==
  KnownIds(entry) \union (IF candidate.id # None THEN {candidate.id} ELSE {})

\* The review of a candidate replaces the Dataset IDs it does not use itself.
ReviewType(previous, candidate) ==
  IF KnownIds(previous) \subseteq {candidate.id}
  THEN "CONNECTOR_REGISTRATION_REVIEW" ELSE "CONNECTOR_REGISTRATION_REVIEW_REPLACE"

Delete(st, key, ver) ==
  AddOutbox(st, "discovery", "DISCOVERY_DELETE", key, ver, {}, NoGate)

Withdraw(st, key, ver, previous) ==
  AddOutbox(st, "connector-review", "CONNECTOR_REGISTRATION_REVIEW_WITHDRAW", key, ver,
            KnownIds(previous), NoGate)

Show(st, key, ver, shown, gate) ==
  AddOutbox(st, "discovery", "DISCOVERY_UPSERT", key, ver, {shown}, gate)

Offer(st, key, ver, previous, candidate, gate) ==
  AddOutbox(st, "connector-review", ReviewType(previous, candidate), key, ver,
            <<candidate, KnownIds(previous) \ {candidate.id}>>, gate)

\* What is asked of the state whenever it is read: unique sequences below the
\* next one, one pending command per record and family, a successor for every
\* superseded command in its own chain, and the current Dataset ID remembered.
Loadable(st) ==
  /\ \A c, d \in st.outbox : c.seq = d.seq => c = d
  /\ \A c \in st.outbox : c.seq < st.next
  /\ \A c, d \in Pending(st) : c.key = d.key /\ c.family = d.family => c = d
  /\ \A c \in st.outbox \ Pending(st) :
       \E d \in Chain(st, c) : d.seq = c.by /\ d.seq > c.seq
  /\ \A k \in Keys : Offers(st.records[k]) => st.records[k].candidate.id \in st.records[k].ids

SetRecord(st, key, entry) ==
  IF Cardinality(entry.ids) > MaxCandidates THEN Fail(st)
  ELSE [st EXCEPT !.records[key] = entry]

-----------------------------------------------------------------------------
(* Re-evaluation of the stored records.                                    *)

ApprovalChanged(st, registry) == st.registry # None /\ st.registry # registry
ConfigChanged(st, config) == st.config # None /\ st.config # config

ApprovalDue(st, at) ==
  \E k \in Keys : LET approval == st.records[k].approval IN
    /\ HasCanonical(st.records[k])
    /\ \/ approval.verified /\ at > approval.grant.until
       \/ at >= approval.due

\* Mutant: a changed registry does not renew the gates of unchanged commands.
GateContextChanged_ConfigOnly(st, registry, config) == ConfigChanged(st, config)

GateContextChanged(st, registry, config) ==
  ApprovalChanged(st, registry) \/ ConfigChanged(st, config)

ReconcileRecord(st, key, renewed, registry, config, at) ==
  LET previous  == st.records[key]
      ver       == previous.ver
      approval  == ResolveApproval(registry, key, ver, at)
      shown     == Projection(previous.what, approval)
      candidate == Candidate(previous.what, approval, config)
      gate      == Gate(registry, config, approval, ver, at)
      discovery ==
        IF shown # None /\ (shown # previous.shown \/ renewed) THEN Show(st, key, ver, shown, gate)
        ELSE IF shown = None /\ previous.shown # None THEN Delete(st, key, ver)
        ELSE st
      connector ==
        IF candidate.id # None /\ (candidate # previous.candidate \/ renewed)
        THEN Offer(discovery, key, ver, previous, candidate, gate)
        ELSE IF candidate.id = None /\ KnownIds(previous) # {}
        THEN Withdraw(discovery, key, ver, previous)
        ELSE discovery
  IN  IF ~HasCanonical(previous) THEN st
      ELSE SetRecord(connector, key,
             [previous EXCEPT !.approval = approval, !.shown = shown,
                              !.candidate = candidate,
                              !.wasShown = @ \/ shown # None,
                              !.ids = KnownIdsWith(previous, candidate)])

ReconcileRecords(st, renewed, registry, config, at) ==
  LET after[i \in 0..Len(Order)] ==
        IF i = 0 THEN st
        ELSE ReconcileRecord(after[i - 1], Order[i], renewed, registry, config, at)
  IN  after[Len(Order)]

ReconcileStoredRecords(st, registry, config, at) ==
  LET renewed == GateContextChanged(st, registry, config)
      done    == IF \/ ApprovalChanged(st, registry) \/ ConfigChanged(st, config)
                    \/ ApprovalDue(st, at)
                 THEN ReconcileRecords(st, renewed, registry, config, at)
                 ELSE st
  IN  [done EXCEPT !.registry = registry, !.config = config]

-----------------------------------------------------------------------------
(* One event of a batch.                                                   *)

\* A tombstone or a broken record: only the history is kept, and everything
\* that was ever shown or offered is taken back.
Protect(st, event, previous) ==
  LET bare == [Absent EXCEPT !.ver = event.ver, !.what = event.what, !.ids = KnownIds(previous),
                             !.wasShown = previous.wasShown]
      marked == [st EXCEPT !.records[event.key] = bare]
      closed == IF previous.wasShown \/ previous.shown # None
                THEN Delete(marked, event.key, event.ver) ELSE marked
  IN  IF KnownIds(previous) # {} THEN Withdraw(closed, event.key, event.ver, previous) ELSE closed

Accept(st, event, previous, registry, config, at) ==
  LET key       == event.key
      approval  == ResolveApproval(registry, key, event.ver, at)
      shown     == Projection(event.what, approval)
      candidate == Candidate(event.what, approval, config)
      gate      == Gate(registry, config, approval, event.ver, at)
      stored    == SetRecord(st, key,
                     [ver |-> event.ver, what |-> event.what, approval |-> approval,
                      shown |-> shown, wasShown |-> previous.wasShown \/ shown # None,
                      candidate |-> candidate, ids |-> KnownIdsWith(previous, candidate)])
      discovery ==
        IF shown # None THEN Show(stored, key, event.ver, shown, gate)
        ELSE IF previous.wasShown THEN Delete(stored, key, event.ver)
        ELSE stored
  IN  IF candidate.id # None THEN Offer(discovery, key, event.ver, previous, candidate, gate)
      ELSE IF KnownIds(previous) # {} THEN Withdraw(discovery, key, event.ver, previous)
      ELSE discovery

\* A withdrawn record needs a new recordId to come back.
IsRevival(event, previous) == previous.what = "deleted" /\ event.what # "deleted"

IsStale(event, previous) == event.ver < previous.ver

\* The first of: an event seen before (or its id reused), an older version,
\* the same version (or its content changed), a revival, the event itself.
ApplyEvent(st, event, registry, config, at) ==
  LET previous == st.records[event.key]
      noted    == [st EXCEPT !.seen = @ \union {event}]
      Changed  == IF event.what \in {"deleted", "broken"}
                  THEN Protect(noted, event, previous)
                  ELSE Accept(noted, event, previous, registry, config, at)
  IN  IF st.failed \/ event \in st.seen THEN st
      ELSE IF \E e \in st.seen : e.id = event.id THEN Fail(st)
      ELSE IF IsStale(event, previous) THEN noted
      ELSE IF event.ver = previous.ver
      THEN IF event.what = previous.what THEN noted ELSE Fail(st)
      ELSE IF IsRevival(event, previous) THEN Fail(st)
      ELSE Changed

ApplyBatch(st, batch, registry, config, at) ==
  LET after[i \in 0..Len(batch)] ==
        IF i = 0 THEN st
        ELSE ApplyEvent(after[i - 1], batch[i], registry, config, at)
  IN  after[Len(batch)]

SynchronizeBatch(st, batch, registry, config, at) ==
  LET reconciled == ReconcileStoredRecords(st, registry, config, at)
      applied    == ApplyBatch(reconciled, batch, registry, config, at)
      compacted  == CompactOutbox(applied)
  IN  IF at < Watermark(st) THEN Fail(st) ELSE [compacted EXCEPT !.evaluated = at]

-----------------------------------------------------------------------------
(* The review of the pending commands.                                     *)

ProtectiveHolds(st, c) ==
  LET entry == st.records[c.key] IN
  /\ entry.ver = c.ver
  /\ IF c.type = "DISCOVERY_DELETE" THEN entry.wasShown /\ entry.shown = None
     ELSE ~Offers(entry) /\ KnownIds(entry) # {} /\ c.payload = KnownIds(entry)

IsBlocked(st, c, registry, at) ==
  c.type \notin Protective /\ ~ResolveApproval(registry, c.key, c.ver, at).verified

GateHolds(st, c, registry, config, at) ==
  LET entry    == st.records[c.key]
      approval == ResolveApproval(registry, c.key, entry.ver, at)
      expected == Candidate(entry.what, approval, config)
  IN  /\ entry.ver = c.ver /\ c.gate.ver = entry.ver
      /\ c.gate.registry = st.registry /\ c.gate.config = st.config
      /\ c.gate.grant = approval.grant /\ c.gate.grant = entry.approval.grant
      /\ c.gate.at \in approval.grant.from..approval.grant.until
      /\ c.gate.at <= st.evaluated /\ c.gate.at <= at
      /\ DecideOffering(entry.what, approval) = DecideOffering(entry.what, entry.approval)
      /\ IF c.type = "DISCOVERY_UPSERT"
         THEN entry.shown = Projection(entry.what, approval) /\ c.payload = {entry.shown}
         ELSE /\ expected = entry.candidate /\ expected.id # None
              /\ c.payload = <<expected, KnownIds(entry) \ {expected.id}>>

Passes(st, c, registry, config, at) ==
  IF c.type \in Protective THEN ProtectiveHolds(st, c)
  ELSE IsBlocked(st, c, registry, at) \/ GateHolds(st, c, registry, config, at)

Reviewable(st, registry, at) == {c \in Pending(st) : ~IsBlocked(st, c, registry, at)}

ReviewAdmits(st, registry, config, at) ==
  /\ st.registry = registry /\ st.config = config
  /\ at >= Watermark(st) /\ st.evaluated >= 0

-----------------------------------------------------------------------------
VARIABLES
  file,   \* the state file
  lock,   \* the lock file: NoRun, the run that made it, or Orphan of a crash
  run     \* [Runs -> what the process is doing and has read]

vars == <<file, lock, run>>

Idle == [pc |-> "idle", cmd |-> "sync", batch |-> <<>>, registry |-> None, config |-> None,
         state |-> EmptyState, at |-> -1, listed |-> {}]

Init ==
  /\ file = EmptyState
  /\ lock = NoRun
  /\ run = [r \in Runs |-> Idle]

\* The inputs are read before the lock is taken: they may be older than those
\* of a run that commits in between.
Start(r, cmd, batch, input) ==
  /\ run[r].pc = "idle"
  /\ cmd = "review" => batch = <<>>
  /\ run' = [run EXCEPT ![r] = [Idle EXCEPT !.pc = "read", !.cmd = cmd, !.batch = batch,
                                  !.registry = input.registry, !.config = input.config]]
  /\ UNCHANGED <<file, lock>>

\* Mutant: the lock file is overwritten.
IsFree_Always == TRUE

IsFree == lock = NoRun

\* The lock file is created exclusively and never stolen; under it the state is
\* loaded and validated.
WithStateLock(r) ==
  /\ run[r].pc = "read"
  /\ IF IsFree
     THEN /\ lock' = r
          /\ run' = [run EXCEPT ![r].pc = IF Loadable(file) THEN "locked" ELSE "done",
                                ![r].state = IF Loadable(file) THEN file ELSE EmptyState]
     ELSE UNCHANGED lock /\ run' = [run EXCEPT ![r] = Idle]
  /\ UNCHANGED file

Refuse(r) ==
  /\ run' = [run EXCEPT ![r].pc = "done", ![r].state = EmptyState]
  /\ UNCHANGED <<file, lock>>

Sync(r, at) ==
  LET result == SynchronizeBatch(run[r].state, run[r].batch, run[r].registry, run[r].config, at) IN
  /\ run[r].pc = "locked" /\ run[r].cmd = "sync"
  /\ IF result.failed THEN Refuse(r)
     ELSE /\ result.next <= MaxCommands + 1
          /\ file' = result
          /\ run' = [run EXCEPT ![r].pc = "done", ![r].state = EmptyState]
          /\ UNCHANGED lock

Review(r, at) ==
  LET st == run[r].state IN
  /\ run[r].pc = "locked" /\ run[r].cmd = "review"
  /\ IF /\ ReviewAdmits(st, run[r].registry, run[r].config, at)
        /\ \A c \in Pending(st) : Passes(st, c, run[r].registry, run[r].config, at)
     THEN /\ file' = [st EXCEPT !.reviewed = at]
          /\ run' = [run EXCEPT ![r].pc = "done", ![r].at = at, ![r].state = EmptyState,
                                ![r].listed = Reviewable(st, run[r].registry, at)]
          /\ UNCHANGED lock
     ELSE Refuse(r)

\* The lock file is removed, then the report is written and the run ends.
Release(r) ==
  /\ run[r].pc = "done"
  /\ lock' = NoRun
  /\ run' = [run EXCEPT ![r] = Idle]
  /\ UNCHANGED file

\* The process dies before or after the rename; its lock file stays.
Crash(r) ==
  /\ run[r].pc \in {"locked", "done"}
  /\ lock' = Orphan
  /\ run' = [run EXCEPT ![r] = Idle]
  /\ UNCHANGED file

\* Manual recovery: the operator has verified that the owner is gone.
ClearLock ==
  /\ lock = Orphan
  /\ lock' = NoRun
  /\ UNCHANGED <<file, run>>

Next ==
  \/ \E r \in Runs :
       \/ \E input \in Inputs :
            \/ \E batch \in Batches : Start(r, "sync", batch, input)
            \/ Start(r, "review", <<>>, input)
       \/ WithStateLock(r)
       \/ \E at \in Times : Sync(r, at) \/ Review(r, at)
       \/ Release(r)
       \/ Crash(r)
  \/ ClearLock

Spec == Init /\ [][Next]_vars

-----------------------------------------------------------------------------
(* Properties.                                                             *)

TypeOK ==
  /\ lock \in Runs \union {NoRun, Orphan}
  /\ file.next \in 1..(MaxCommands + 1) /\ ~file.failed
  /\ \A r \in Runs : run[r].pc \in {"idle", "read", "locked", "done"}

\* The state file always passes the validation every later run makes before it
\* does anything (validateState): one pending command per record and family, and
\* compaction leaves every superseded command its successor in the same chain.
StateIsLoadable == Loadable(file)

\* With the inputs the state was reconciled with, a review at any later time
\* lists or blocks every pending command and fails on none
\* (reviewPendingOutboxEvents): no command is left behind whose record,
\* approval, config or replacement scope has moved on.
PendingIsReviewable ==
  \A c \in Pending(file) : \A at \in Watermark(file)..MaxTime :
    Passes(file, c, file.registry, file.config, at)

\* What was ever shown or offered and is not any more has its protective command
\* pending, over quarantine, deletion, expiry and compaction; what is shown or
\* offered has its own.
NothingStaysOut ==
  \A k \in Keys : LET entry == file.records[k]
                      Waits(types) == \E c \in Pending(file) : c.key = k /\ c.type \in types
    IN /\ entry.shown = None /\ entry.wasShown => Waits({"DISCOVERY_DELETE"})
       /\ entry.shown # None => Waits({"DISCOVERY_UPSERT"})
       /\ ~Offers(entry) /\ entry.ids # {} => Waits({"CONNECTOR_REGISTRATION_REVIEW_WITHDRAW"})
       /\ Offers(entry) => Waits({"CONNECTOR_REGISTRATION_REVIEW",
                                  "CONNECTOR_REGISTRATION_REVIEW_REPLACE"})

\* Whatever the order and the repetitions of the deliveries, a record holds the
\* event of the highest version applied so far (synchronizeBatch).
LatestEventWins ==
  \A k \in Keys : LET entry == file.records[k] IN
    \A e \in file.seen : e.key = k =>
      e.ver <= entry.ver /\ (e.ver = entry.ver => e.what = entry.what)

\* No run undoes what another one committed: an applied event stays applied
\* (withStateLock: two runs may not both load the state before one renames).
AppliedIsKept == [][file.seen \subseteq file'.seen]_vars

\* A withdrawn record is never shown or offered again under the same recordId
\* (TERMINAL_RECORD_REVIVAL).
WithdrawnIsFinal ==
  [][\A k \in Keys : file.records[k].what = "deleted" => file'.records[k].what = "deleted"]_vars

\* The commands a review lists are approved by the registry this review read,
\* although it read it before the lock and another run may have reconciled the
\* state with other inputs in between (RECONCILIATION_REQUIRED).
ListedIsApproved ==
  \A r \in Runs : \A c \in run[r].listed : c.type \notin Protective =>
    /\ c.gate.registry = run[r].registry /\ c.gate.config = run[r].config
    /\ LET approval == ResolveApproval(run[r].registry, c.key, c.ver, run[r].at)
       IN  approval.verified /\ approval.grant = c.gate.grant
=============================================================================

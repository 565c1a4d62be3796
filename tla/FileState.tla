----------------------------- MODULE FileState -----------------------------
(***************************************************************************)
(* The state file of a single-node control service: FileCaasStore          *)
(* (caas/store.mjs) and FileDsaasStore (dsaas/store.mjs).  Both keep one   *)
(* JSON file with an audit chain and an integrity block, take a lock file  *)
(* with O_EXCL for a transaction, write the next state to a temporary file *)
(* and rename it over the old one.  They differ in one place: when the     *)
(* lock cannot be given back CaaS fails the call, DSaaS ignores it.        *)
(*                                                                         *)
(* The mutable state is the set of calls that wrote to it, so a digest of  *)
(* it is the set itself.  The file is what the processes see, the durable  *)
(* copy what a power loss leaves: a rename lasts once the directory has    *)
(* been synced.  A file system that cannot sync a directory (EINVAL,       *)
(* ENOTSUP, EPERM are ignored by the code) is not considered.              *)
(***************************************************************************)
EXTENDS Naturals, Sequences, FiniteSets

CONSTANTS
    Calls,      \* transactions, each run once by a process of its own
    Swallows,   \* DSaaS: an error while the lock is given back is ignored
    MaxAudit,   \* maxAuditEvents
    MaxClock    \* bound: readings of the clock

VARIABLES
    onDisk,    \* the state file, as the processes read it
    durable,   \* the state file a power loss leaves
    lockFile,  \* "free", the call that created the lock file, or "stale"
    at,        \* where each call is
    draft,     \* the state each call has in memory
    answer     \* what each caller was told

vars == <<onDisk, durable, lockFile, at, draft, answer>>

-----------------------------------------------------------------------------
(* The state and its audit chain                                           *)

EmptyState == [value |-> {}, audit |-> <<>>, snap |-> {}, upto |-> 0]

LastTime(state) ==
    IF state.audit = <<>> THEN 0 ELSE state.audit[Len(state.audit)].time

(* The chain is in order of time, the integrity block is bound to its last *)
(* event and to the state, and that event commits the state.               *)
Valid(state) ==
    /\ \A i \in 2..Len(state.audit) : state.audit[i - 1].time <= state.audit[i].time
    /\ state.snap = state.value /\ state.upto = Len(state.audit)
    /\ state.value # {} => state.audit # <<>>
    /\ state.audit # <<>> =>
         /\ state.audit[Len(state.audit)].by = "store"
         /\ state.audit[Len(state.audit)].snap = state.value

(* A full chain and a clock that went back both refuse an event.  A call   *)
(* writes under its own name, the store commits the state it sees.         *)
CanAppend(state, time) == Len(state.audit) < MaxAudit /\ time >= LastTime(state)

Appended(state, by, time) ==
    [state EXCEPT !.audit = Append(@, [by |-> by, time |-> time,
        snap |-> IF by = "store" THEN state.value ELSE {}])]

Unchanged(state) == state.snap = state.value /\ state.upto = Len(state.audit)

Seal(state, time) ==
    IF Unchanged(state) THEN state
    ELSE [Appended(state, "store", time) EXCEPT
            !.snap = state.value, !.upto = Len(state.audit) + 1]

Init ==
    /\ onDisk = EmptyState /\ durable = EmptyState
    /\ lockFile = "free"
    /\ at = [c \in Calls |-> "idle"]
    /\ draft = [c \in Calls |-> EmptyState]
    /\ answer = [c \in Calls |-> "none"]

Goes(c, place) == at' = [at EXCEPT ![c] = place]
Told(c, what) == answer' = [answer EXCEPT ![c] = what]

-----------------------------------------------------------------------------
(* The transaction of one call                                             *)

(* An error while the holder writes its name leaves the lock file behind.  *)
AcquireLock(c) ==
    /\ at[c] = "idle"
    /\ \/ /\ lockFile # "free"
          /\ Goes(c, "done") /\ Told(c, "locked") /\ UNCHANGED lockFile
       \/ /\ lockFile = "free"
          /\ lockFile' = c /\ Goes(c, "loading") /\ UNCHANGED answer
       \/ /\ lockFile = "free"
          /\ lockFile' = "stale" /\ Goes(c, "done") /\ Told(c, "failed")
    /\ UNCHANGED <<onDisk, durable, draft>>

(* The file is read; the operation writes and reports it, or only reports  *)
(* what it refused, or does nothing; the result is sealed.  The operation  *)
(* may fail or be aborted, and an event may not fit.                       *)
Operate(c) ==
    /\ at[c] = "loading"
    /\ \E time \in 1..MaxClock :
         \/ \E writes \in BOOLEAN :
              LET changed == IF writes THEN [onDisk EXCEPT !.value = @ \cup {c}] ELSE onDisk
                  audited == Appended(changed, c, time)
                  sealed  == Seal(audited, time)
              IN /\ CanAppend(changed, time)
                 /\ CanAppend(audited, time)
                 /\ Valid(sealed)
                 /\ draft' = [draft EXCEPT ![c] = sealed] /\ Goes(c, "saving")
         \/ draft' = [draft EXCEPT ![c] = Seal(onDisk, time)] /\ Goes(c, "saving")
    /\ UNCHANGED <<onDisk, durable, lockFile, answer>>

OperateFails(c) ==
    /\ at[c] = "loading"
    /\ Goes(c, "unlocking") /\ \E why \in {"failed", "aborted"} : Told(c, why)
    /\ UNCHANGED <<onDisk, durable, lockFile, draft>>

(* The temporary file is complete and synced; the abort gate and the       *)
(* rename are one step.                                                    *)
Replace(c) ==
    /\ at[c] = "saving"
    /\ \/ /\ onDisk' = draft[c] /\ Goes(c, "syncing") /\ UNCHANGED answer
       \/ /\ Goes(c, "unlocking")
          /\ \E why \in {"failed", "aborted"} : Told(c, why)
          /\ UNCHANGED onDisk
    /\ UNCHANGED <<durable, lockFile, draft>>

\* Mutant: the directory is not synced.
SyncDirectory_Skipped(c) ==
    /\ at[c] = "syncing" /\ Goes(c, "unlocking") /\ Told(c, "committed")
    /\ UNCHANGED <<onDisk, durable, lockFile, draft>>

(* When the sync fails the caller is told so, but the rename has happened. *)
SyncDirectory(c) ==
    /\ at[c] = "syncing"
    /\ \/ durable' = onDisk /\ Told(c, "committed")
       \/ Told(c, "failed") /\ UNCHANGED durable
    /\ Goes(c, "unlocking")
    /\ UNCHANGED <<onDisk, lockFile, draft>>

(* The lock file is removed, or stays when it cannot be closed or removed. *)
ReleaseLock(c) ==
    /\ at[c] = "unlocking"
    /\ \/ lockFile' = "free" /\ UNCHANGED answer
       \/ /\ lockFile' = "stale"
          /\ IF Swallows THEN UNCHANGED answer ELSE Told(c, "failed")
    /\ Goes(c, "done")
    /\ UNCHANGED <<onDisk, durable, draft>>

-----------------------------------------------------------------------------
(* What the processes do not decide                                        *)

Running(c) == at[c] \in {"loading", "saving", "syncing", "unlocking"}

(* The lock file of a dead process stays.                                  *)
Crash(c) ==
    /\ Running(c)
    /\ Goes(c, "dead")
    /\ lockFile' = IF lockFile = c THEN "stale" ELSE lockFile
    /\ UNCHANGED <<onDisk, durable, draft, answer>>

PowerLoss ==
    /\ \E c \in Calls : Running(c)
    /\ at' = [c \in Calls |-> IF Running(c) THEN "dead" ELSE at[c]]
    /\ onDisk' \in {onDisk, durable} /\ durable' = onDisk'
    /\ lockFile' \in IF lockFile = "free" THEN {"free"} ELSE {"free", "stale"}
    /\ UNCHANGED <<draft, answer>>

(* Manual recovery: the operator removes a lock file nobody runs under.    *)
RemoveLock ==
    /\ lockFile = "stale" /\ lockFile' = "free"
    /\ UNCHANGED <<onDisk, durable, at, draft, answer>>

Next ==
    \/ \E c \in Calls :
         \/ AcquireLock(c) \/ Operate(c) \/ OperateFails(c)
         \/ Replace(c) \/ SyncDirectory(c) \/ ReleaseLock(c)
         \/ Crash(c)
    \/ PowerLoss
    \/ RemoveLock

Spec == Init /\ [][Next]_vars

-----------------------------------------------------------------------------
(* Properties                                                              *)

Events == [by : Calls \cup {"store"}, snap : SUBSET Calls, time : 1..MaxClock]
States == [value : SUBSET Calls, audit : Seq(Events), snap : SUBSET Calls, upto : 0..MaxAudit]

(* Every variable keeps its type.                                          *)
TypeOK ==
    /\ onDisk \in States /\ durable \in States
    /\ lockFile \in {"free", "stale"} \cup Calls
    /\ at \in [Calls -> {"idle", "loading", "saving", "syncing", "unlocking", "done", "dead"}]
    /\ draft \in [Calls -> States]
    /\ answer \in [Calls -> {"none", "locked", "failed", "aborted", "committed"}]

(* The file the service finds, now or after a power loss, passes the       *)
(* validation every start and every read makes (validateCaasState,         *)
(* validateDsaasState), and what a caller was told is committed is in it   *)
(* and in its audit chain, whatever the other callers did since.           *)
CommittedIsDurable ==
    /\ Valid(onDisk) /\ Valid(durable)
    /\ \A c \in Calls : answer[c] = "committed" =>
         \A state \in {onDisk, durable} :
           /\ draft[c].value \subseteq state.value
           /\ Len(draft[c].audit) <= Len(state.audit)
           /\ SubSeq(state.audit, 1, Len(draft[c].audit)) = draft[c].audit

(* store.mjs: "The synchronous replace is the transaction linearization    *)
(* point": a call that ended with an abort left nothing in the file.       *)
AbortedLeavesNothing ==
    \A c \in Calls : answer[c] = "aborted" => c \notin onDisk.value \cup durable.value

=============================================================================

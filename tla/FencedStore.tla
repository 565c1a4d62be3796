---------------------------- MODULE FencedStore ----------------------------
(***************************************************************************)
(* The PostgreSQL control store, seen from one resource (one CaaS tenant   *)
(* or one DSaaS dataspace): one authoritative state row, one row of        *)
(* resource_fence, one advisory lock.  Two backends share the design:      *)
(*                                                                         *)
(*   "json"    postgres-json-store.mjs            (transact)               *)
(*   "scoped"  postgres-scoped-control-store.mjs  (transactScope)          *)
(*                                                                         *)
(* A leased client runs withResourceLock: it takes a session of the lease  *)
(* pool, the session-level advisory lock, a new fencing token, and then    *)
(* any number of state transactions before it cleans up.  Any other client *)
(* runs one state transaction without a lease (DSaaS setDesiredState).     *)
(* A session can break at any time; PostgreSQL then frees its advisory     *)
(* lock at once, while the process learns of it later or never, so that    *)
(* the old holder may go on working beside a new one.                      *)
(***************************************************************************)
EXTENDS Naturals, FiniteSets

CONSTANTS
    Clients,     \* calls in flight, over all instances of the control plane
    Leased,      \* those that run inside withResourceLock
    Sessions,    \* connections of the lease pools
    NoSession,   \* "no connection"
    MaxWrites,   \* bound: state transactions one call attempts
    MaxToken,    \* bound: fencing tokens issued
    MaxDepth     \* bound: nested acquisitions of the lock by one session

ASSUME ClientsAssumption  == Leased \subseteq Clients
ASSUME SessionsAssumption == NoSession \notin Sessions
ASSUME BoundsAssumption   == MaxWrites \in Nat /\ MaxToken \in Nat /\ MaxDepth \in Nat

VARIABLES
    row,      \* the state row: its revision, the writes it contains, and the
              \* fencing token of its last leased writer (history)
    fence,    \* the resource_fence row
    lock,     \* the advisory lock: owning session and depth
    pc,       \* where each call stands
    sess,     \* the lease-pool session a call has checked out
    token,    \* the fencing token in its lease; 0 is null
    aborted,  \* has its AbortSignal fired
    base,     \* the row as SELECT ... FOR UPDATE returned it
    tried,    \* transactions the call has finished
    outcome,  \* what the caller of each transaction was told
    backend   \* the store of this deployment: "json" or "scoped"

vars == <<row, fence, lock, pc, sess, token, aborted, base, tried, outcome, backend>>
connection == <<fence, lock, sess, token>>

Writes == Clients \X (1..MaxWrites)

Idle == {"idle", "done"}
PCs  == Idle \cup {"locked", "working", "selected", "checked", "cleanup", "released"}

-----------------------------------------------------------------------------
(* Locks PostgreSQL holds, and the condition a fenced write has to meet.   *)

\* A pooled connection no call has checked out.
Pooled(s) == \A c \in Clients : sess[c] # s

\* SELECT ... FOR UPDATE on the state row lasts to the end of the transaction.
RowLocked == \E c \in Clients : pc[c] \in {"selected", "checked"}

\* FOR SHARE on the fence row, likewise; only leased calls take it.
FenceShared == \E c \in Leased : pc[c] = "checked"

FenceCurrent(c) == fence.token = token[c] /\ ~fence.released

\* Mutant: a connection is destroyed only when the signal has fired.
Discards_OnAbortOnly(c) == aborted[c]

\* Is the connection destroyed, rather than pooled, when cleanup cannot
\* confirm the release?
Discards(c) == backend = "json" \/ aborted[c]

\* The advisory lock once session s is closed.
Freed(s) == IF lock.owner = s THEN [owner |-> NoSession, depth |-> 0] ELSE lock

-----------------------------------------------------------------------------
(* withResourceLock: acquisition                                           *)

\* Mutant: pg_try_advisory_lock_shared.
TryLock_Shared(c, s) ==
    /\ c \in Leased /\ pc[c] = "idle" /\ Pooled(s)
    /\ lock.depth < MaxDepth
    /\ lock' = [owner |-> s, depth |-> lock.depth + 1]
    /\ sess' = [sess EXCEPT ![c] = s]
    /\ pc'   = [pc EXCEPT ![c] = "locked"]
    /\ UNCHANGED <<row, fence, token, aborted, base, tried, outcome>>

\* pg_try_advisory_lock on a pooled session; the owner may take it again.
TryLock(c, s) ==
    /\ c \in Leased /\ pc[c] = "idle" /\ Pooled(s)
    /\ lock.owner \in {NoSession, s} /\ lock.depth < MaxDepth
    /\ lock' = [owner |-> s, depth |-> lock.depth + 1]
    /\ sess' = [sess EXCEPT ![c] = s]
    /\ pc'   = [pc EXCEPT ![c] = "locked"]
    /\ UNCHANGED <<row, fence, token, aborted, base, tried, outcome>>

\* pg_try_advisory_lock answers false: the call fails, the session is pooled.
LockBusy(c, s) ==
    /\ c \in Leased /\ pc[c] = "idle" /\ Pooled(s)
    /\ lock.owner \notin {NoSession, s}
    /\ pc' = [pc EXCEPT ![c] = "done"]
    /\ UNCHANGED <<row, connection, aborted, base, tried, outcome>>

Bumped == [token |-> fence.token + 1, released |-> FALSE]

\* The upsert of resource_fence and its COMMIT.  It waits for FOR SHARE locks.
TakeFence(c) ==
    /\ pc[c] = "locked" /\ sess[c] # NoSession
    /\ ~FenceShared /\ fence.token < MaxToken
    /\ fence' = Bumped
    /\ token' = [token EXCEPT ![c] = fence.token + 1]
    /\ pc'    = [pc EXCEPT ![c] = "working"]
    /\ UNCHANGED <<row, lock, sess, aborted, base, tried, outcome>>

\* lock_timeout, statement_timeout or an abort: no token, on to cleanup.
FenceFails(c) ==
    /\ pc[c] = "locked"
    /\ pc' = [pc EXCEPT ![c] = "cleanup"]
    /\ UNCHANGED <<row, connection, aborted, base, tried, outcome>>

\* The connection breaks while the upsert commits: the token may be spent.
FenceUnknown(c) ==
    /\ pc[c] = "locked" /\ sess[c] # NoSession
    /\ ~FenceShared /\ fence.token < MaxToken
    /\ fence' = Bumped
    /\ lock'  = Freed(sess[c])
    /\ sess'  = [sess EXCEPT ![c] = NoSession]
    /\ pc'    = [pc EXCEPT ![c] = "cleanup"]
    /\ UNCHANGED <<row, token, aborted, base, tried, outcome>>

-----------------------------------------------------------------------------
(* transact / transactScope                                                *)

Select(c) ==
    /\ pc[c] = IF c \in Leased THEN "working" ELSE "idle"
    /\ ~aborted[c] /\ ~RowLocked /\ tried[c] < MaxWrites
    /\ base' = [base EXCEPT ![c] = row]
    /\ pc'   = [pc EXCEPT ![c] = "selected"]
    /\ UNCHANGED <<row, connection, aborted, tried, outcome>>

\* Mutant: the fence is not compared again before the write.
CheckFence_Skipped(c) ==
    /\ pc[c] = "selected" /\ ~aborted[c]
    /\ pc' = [pc EXCEPT ![c] = "checked"]
    /\ UNCHANGED <<row, connection, aborted, base, tried, outcome>>

\* After the operation on the decoded state; a call without a lease skips it.
CheckFence(c) ==
    /\ pc[c] = "selected" /\ ~aborted[c]
    /\ c \in Leased => FenceCurrent(c)
    /\ pc' = [pc EXCEPT ![c] = "checked"]
    /\ UNCHANGED <<row, connection, aborted, base, tried, outcome>>

RevisionCurrent(c) == row.revision = base[c].revision

Write(c) == <<c, tried[c] + 1>>

Written(c) == [revision |-> base[c].revision + 1,
               content  |-> base[c].content \cup {Write(c)},
               token    |-> IF c \in Leased THEN token[c] ELSE base[c].token]

\* Where a call goes once its transaction is over.
AfterTransaction(c) == IF c \in Leased THEN "working" ELSE "done"

EndTransaction(c, told) ==
    /\ outcome' = [outcome EXCEPT ![Write(c)] = told]
    /\ tried'   = [tried EXCEPT ![c] = @ + 1]
    /\ pc'      = [pc EXCEPT ![c] = AfterTransaction(c)]
    /\ UNCHANGED <<connection, aborted, base>>

Commit(c) ==
    /\ pc[c] = "checked" /\ ~aborted[c] /\ RevisionCurrent(c)
    /\ row' = Written(c)
    /\ EndTransaction(c, "ok")

\* Mutant: commitStarted is forgotten, a failed COMMIT reads as a failure.
CommitUnknown_ToldFailed(c) ==
    /\ pc[c] = "checked" /\ ~aborted[c] /\ RevisionCurrent(c)
    /\ row' \in {row, Written(c)}
    /\ EndTransaction(c, "failed")

\* COMMIT was sent and no answer came: the store may have applied it.
CommitUnknown(c) ==
    /\ pc[c] = "checked" /\ ~aborted[c] /\ RevisionCurrent(c)
    /\ row' \in {row, Written(c)}
    /\ EndTransaction(c, "unknown")

\* Abort, lost fence, lost revision, timeout: ROLLBACK, and the call is told.
Rollback(c) ==
    /\ pc[c] \in {"selected", "checked"}
    /\ EndTransaction(c, "failed")
    /\ UNCHANGED row

-----------------------------------------------------------------------------
(* withResourceLock: cleanup                                               *)

\* The operation has returned or thrown.
EndOperation(c) ==
    /\ pc[c] = "working"
    /\ pc' = [pc EXCEPT ![c] = "cleanup"]
    /\ UNCHANGED <<row, connection, aborted, base, tried, outcome>>

\* The session goes back to the pool, or is destroyed and its lock with it.
GiveBack(c, discard) ==
    /\ lock' = IF discard THEN Freed(sess[c]) ELSE lock
    /\ sess' = [sess EXCEPT ![c] = NoSession]
    /\ pc'   = [pc EXCEPT ![c] = "done"]
    /\ UNCHANGED <<row, token, aborted, base, tried, outcome>>

\* UPDATE resource_fence SET released_at ... matches this call's lease.
Release(c) ==
    /\ pc[c] = "cleanup" /\ sess[c] # NoSession /\ FenceCurrent(c)
    /\ fence' = [token |-> fence.token, released |-> TRUE]
    /\ pc'    = [pc EXCEPT ![c] = "released"]
    /\ UNCHANGED <<row, lock, sess, token, aborted, base, tried, outcome>>

\* ... or it matches no row.  "json" still unlocks; "scoped" asserts and skips
\* the unlock.
ReleaseNoRow(c) ==
    /\ pc[c] = "cleanup" /\ sess[c] # NoSession /\ ~FenceCurrent(c)
    /\ \/ /\ backend = "json"
          /\ pc' = [pc EXCEPT ![c] = "released"]
          /\ UNCHANGED <<row, connection, aborted, base, tried, outcome>>
       \/ /\ backend = "scoped"
          /\ GiveBack(c, Discards(c))
          /\ UNCHANGED fence

\* A cleanup statement fails or exceeds cleanupTimeoutMs.
CleanupFails(c) ==
    /\ pc[c] \in {"cleanup", "released"} /\ sess[c] # NoSession
    /\ GiveBack(c, Discards(c))
    /\ UNCHANGED fence

\* pg_advisory_unlock, and the connection is pooled.
Unlock(c) ==
    /\ pc[c] = "released" /\ sess[c] # NoSession
    /\ lock' = [owner |-> IF lock.depth = 1 THEN NoSession ELSE lock.owner,
                depth |-> lock.depth - 1]
    /\ sess' = [sess EXCEPT ![c] = NoSession]
    /\ pc'   = [pc EXCEPT ![c] = "done"]
    /\ UNCHANGED <<row, fence, token, aborted, base, tried, outcome>>

\* Cleanup on a connection that is gone.
CleanupBroken(c) ==
    /\ pc[c] \in {"cleanup", "released"} /\ sess[c] = NoSession
    /\ pc' = [pc EXCEPT ![c] = "done"]
    /\ UNCHANGED <<row, connection, aborted, base, tried, outcome>>

-----------------------------------------------------------------------------
(* The environment                                                         *)

\* The lease connection breaks; the process does not know it yet.
SessionLost(c) ==
    /\ sess[c] # NoSession
    /\ lock' = Freed(sess[c])
    /\ sess' = [sess EXCEPT ![c] = NoSession]
    /\ UNCHANGED <<row, fence, pc, token, aborted, base, tried, outcome>>

\* The connection's error event, the caller's signal, or close().  "json"
\* destroys the lease connection at once (onAbort, #forceReleaseActive).
Abort(c) ==
    /\ pc[c] \notin Idle /\ ~aborted[c]
    /\ aborted' = [aborted EXCEPT ![c] = TRUE]
    /\ IF backend = "json"
          THEN /\ lock' = Freed(sess[c])
               /\ sess' = [sess EXCEPT ![c] = NoSession]
          ELSE UNCHANGED <<lock, sess>>
    /\ UNCHANGED <<row, fence, token, pc, base, tried, outcome>>

\* The process dies: its transaction is rolled back, its session is closed.
Crash(c) ==
    /\ pc[c] \notin Idle
    /\ lock' = Freed(sess[c])
    /\ sess' = [sess EXCEPT ![c] = NoSession]
    /\ pc'   = [pc EXCEPT ![c] = "done"]
    /\ UNCHANGED <<row, fence, token, aborted, base, tried, outcome>>

\* The pool closes a connection that stayed idle for idleTimeoutMs.
IdleClose(s) ==
    /\ Pooled(s) /\ lock.owner = s
    /\ lock' = Freed(s)
    /\ UNCHANGED <<row, fence, pc, sess, token, aborted, base, tried, outcome>>

Finished == (\A c \in Clients : pc[c] \in Idle) /\ UNCHANGED vars

-----------------------------------------------------------------------------
Init ==
    /\ row     = [revision |-> 0, content |-> {}, token |-> 0]
    /\ fence   = [token |-> 0, released |-> TRUE]
    /\ lock    = [owner |-> NoSession, depth |-> 0]
    /\ pc      = [c \in Clients |-> "idle"]
    /\ sess    = [c \in Clients |-> NoSession]
    /\ token   = [c \in Clients |-> 0]
    /\ aborted = [c \in Clients |-> FALSE]
    /\ base    = [c \in Clients |-> row]
    /\ tried   = [c \in Clients |-> 0]
    /\ outcome = [w \in Writes |-> "pending"]
    /\ backend \in {"json", "scoped"}

Transact(c) == Select(c) \/ CheckFence(c) \/ Commit(c) \/ CommitUnknown(c) \/ Rollback(c)

Acquire(c) == \/ \E s \in Sessions : TryLock(c, s) \/ LockBusy(c, s)
              \/ TakeFence(c) \/ FenceFails(c) \/ FenceUnknown(c)

Cleanup(c) == \/ EndOperation(c) \/ Release(c) \/ ReleaseNoRow(c)
              \/ CleanupFails(c) \/ Unlock(c) \/ CleanupBroken(c)

Step(c) == Acquire(c) \/ Transact(c) \/ Cleanup(c)

Next ==
    /\ \/ \E c \in Clients : Step(c) \/ SessionLost(c) \/ Abort(c) \/ Crash(c)
       \/ \E s \in Sessions : IdleClose(s)
       \/ Finished
    /\ UNCHANGED backend

Spec == Init /\ [][Next]_vars

\* Every query has a timeout and every call cleans up, so a call that can take
\* a step takes one; nothing is assumed of the environment.
FairSpec == Spec /\ \A c \in Clients : WF_vars(Step(c) /\ UNCHANGED backend)
-----------------------------------------------------------------------------
(* Properties                                                              *)

TypeOK ==
    /\ row \in [revision : Nat, content : SUBSET Writes, token : 0..MaxToken]
    /\ fence \in [token : 0..MaxToken, released : BOOLEAN]
    /\ lock \in [owner : Sessions \cup {NoSession}, depth : 0..MaxDepth]
    /\ (lock.owner = NoSession) <=> (lock.depth = 0)
    /\ pc \in [Clients -> PCs]
    /\ sess \in [Clients -> Sessions \cup {NoSession}]
    /\ token \in [Clients -> 0..MaxToken]
    /\ aborted \in [Clients -> BOOLEAN]
    /\ base \in [Clients -> [revision : Nat, content : SUBSET Writes, token : 0..MaxToken]]
    /\ tried \in [Clients -> 0..MaxWrites]
    /\ outcome \in [Writes -> {"pending", "ok", "failed", "unknown"}]
    /\ backend \in {"json", "scoped"}

\* A call that still owns its lease connection holds the current token: no
\* other call was granted the resource, and nobody closed its fence row
\* (withResourceLock, the advisory lock and the upsert taken together).
LiveLeaseIsCurrent ==
    \A c \in Leased :
        pc[c] \in {"working", "selected", "checked"} /\ sess[c] # NoSession
            => FenceCurrent(c)

\* What the caller of transact was told is what happened: an acknowledged
\* write is in the row for ever, a write reported as failed never is; only
\* commitUnknown leaves it open.
AnswersAreTrue ==
    \A w \in Writes :
        /\ outcome[w] = "ok"     => w \in row.content
        /\ outcome[w] = "failed" => w \notin row.content

\* A write made inside withResourceLock reaches the row only while its lease is
\* still the newest and open: when a new lease has been granted, no holder of
\* an older one, noticed or not, changes the state any more.
WrittenUnderCurrentLease ==
    [][\A w \in row'.content \ row.content : w[1] \in Leased => FenceCurrent(w[1])]_vars

\* A connection in the pool holds no advisory lock.  "connection 오류, 정리
\* timeout 또는 fence row 변경으로 결과를 확인할 수 없으면 connection을 pool에
\* 되돌리지 않고 폐기한다" (docs/04-implementation/dsaas-control-plane.md:382).
PooledConnectionHoldsNoLock ==
    \A s \in Sessions : Pooled(s) => lock.owner # s

\* The JSON store keeps to that.
JsonPoolHoldsNoLock == backend = "json" => PooledConnectionHoldsNoLock

\* A lease that is still owned is the current one, whatever became of its
\* connection, and no connection of the JSON store goes back to the pool with a
\* lock on it (withResourceLock).
LocksAreSound == TypeOK /\ LiveLeaseIsCurrent /\ JsonPoolHoldsNoLock

\* Whatever calls and connections of the JSON store do, the resource becomes free
\* again.
LockIsFreedEventually ==
    backend = "json" /\ lock.owner # NoSession ~> lock.owner = NoSession

\* The store implements the fenced register.
Register == INSTANCE FencedRegister WITH
    content <- row.content, newest <- row.token, told <- outcome
ImplementsRegister == Register!RegSpec
=============================================================================

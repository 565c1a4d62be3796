------------------------- MODULE FencedStoreProofs -------------------------
(***************************************************************************)
(* Proofs about FencedStore, for any number of calls, connections, writes  *)
(* and tokens, and for both backends.                                      *)
(***************************************************************************)
EXTENDS FencedStore, TLAPS

InTransaction == {"selected", "checked"}

-----------------------------------------------------------------------------
(* The inductive invariant                                                 *)

\* One lease connection at most is both checked out and alive, and it owns the
\* advisory lock.
SessionInv ==
    /\ \A c \in Clients : sess[c] # NoSession =>
          /\ c \in Leased
          /\ pc[c] \notin Idle
          /\ lock.owner = sess[c]
    /\ \A c, d \in Clients : sess[c] # NoSession /\ sess[d] # NoSession => c = d

\* Tokens are issued once, and none is newer than the fence row's.
TokenInv ==
    /\ fence.token = 0 => fence.released
    /\ row.token <= fence.token
    /\ \A c \in Clients : token[c] <= fence.token
    /\ \A c \in Clients : pc[c] \in {"idle", "locked"} => token[c] = 0
    /\ \A c, d \in Leased : token[c] = token[d] /\ token[c] # 0 => c = d

\* One transaction at most is past its SELECT ... FOR UPDATE, it read the row
\* as it still is, and once its fence was compared the fence stays.
TransactionInv ==
    /\ \A c, d \in Clients : pc[c] \in InTransaction /\ pc[d] \in InTransaction => c = d
    /\ \A c \in Clients : pc[c] \in InTransaction => base[c] = row /\ tried[c] < MaxWrites
    /\ \A c \in Leased : pc[c] = "checked" => FenceCurrent(c)

\* A write that has not been tried is nowhere.
FreshInv ==
    \A w \in Writes : w[2] > tried[w[1]] => w \notin row.content /\ outcome[w] = "pending"

\* A lock of the JSON store is held once, through a connection that is checked out.
PoolInv ==
    backend = "json" =>
        /\ lock.depth <= 1
        /\ lock.owner # NoSession => \E c \in Clients : sess[c] = lock.owner

IInv == /\ TypeOK /\ SessionInv /\ TokenInv /\ TransactionInv /\ FreshInv
        /\ LiveLeaseIsCurrent /\ AnswersAreTrue /\ PoolInv

-----------------------------------------------------------------------------
(* How a step preserves each part of it                                    *)

\* Unlock leaves a legal depth, because the lock still has its owner; a
\* transaction finishes within MaxWrites.
LEMMA TypeStep == IInv /\ [Next]_vars => TypeOK'
<1> SUFFICES ASSUME IInv, [Next]_vars PROVE TypeOK'
  OBVIOUS
<1> backend' = backend
  BY DEF Next, vars
<1> USE ClientsAssumption, SessionsAssumption, BoundsAssumption
<1>1. ASSUME NEW c \in Clients, NEW s \in Sessions, TryLock(c, s) PROVE TypeOK'
  BY <1>1 DEF TryLock, IInv, TypeOK, SessionInv, TransactionInv,
     InTransaction, Writes, PCs, Idle
<1>2. ASSUME NEW c \in Clients, NEW s \in Sessions, LockBusy(c, s) PROVE TypeOK'
  BY <1>2 DEF LockBusy, connection, IInv, TypeOK, SessionInv,
     TransactionInv, InTransaction, Writes, PCs, Idle
<1>3. ASSUME NEW c \in Clients, TakeFence(c) PROVE TypeOK'
  BY <1>3 DEF TakeFence, Bumped, IInv, TypeOK, SessionInv, TransactionInv,
     InTransaction, Writes, PCs, Idle
<1>4. ASSUME NEW c \in Clients, FenceFails(c) PROVE TypeOK'
  BY <1>4 DEF FenceFails, connection, IInv, TypeOK, SessionInv,
     TransactionInv, InTransaction, Writes, PCs, Idle
<1>5. ASSUME NEW c \in Clients, FenceUnknown(c) PROVE TypeOK'
  BY <1>5 DEF FenceUnknown, Bumped, Freed, IInv, TypeOK, SessionInv,
     TransactionInv, InTransaction, Writes, PCs, Idle
<1>6. ASSUME NEW c \in Clients, Select(c) PROVE TypeOK'
  BY <1>6 DEF Select, RowLocked, connection, IInv, TypeOK, SessionInv,
     TransactionInv, InTransaction, Writes, PCs, Idle
<1>7. ASSUME NEW c \in Clients, CheckFence(c) PROVE TypeOK'
  BY <1>7 DEF CheckFence, connection, IInv, TypeOK, SessionInv,
     TransactionInv, InTransaction, Writes, PCs, Idle
<1>8. ASSUME NEW c \in Clients, Commit(c) PROVE TypeOK'
  BY <1>8 DEF Commit, RevisionCurrent, Written, Write, EndTransaction,
     AfterTransaction, connection, IInv, TypeOK, SessionInv, TransactionInv,
     InTransaction, Writes, PCs, Idle
<1>9. ASSUME NEW c \in Clients, CommitUnknown(c) PROVE TypeOK'
  BY <1>9 DEF CommitUnknown, RevisionCurrent, Written, Write,
     EndTransaction, AfterTransaction, connection, IInv, TypeOK, SessionInv,
     TransactionInv, InTransaction, Writes, PCs, Idle
<1>10. ASSUME NEW c \in Clients, Rollback(c) PROVE TypeOK'
  BY <1>10 DEF Rollback, Write, EndTransaction, AfterTransaction,
     connection, IInv, TypeOK, SessionInv, TransactionInv, InTransaction,
     Writes, PCs, Idle
<1>11. ASSUME NEW c \in Clients, EndOperation(c) PROVE TypeOK'
  BY <1>11 DEF EndOperation, connection, IInv, TypeOK, SessionInv,
     TransactionInv, InTransaction, Writes, PCs, Idle
<1>12. ASSUME NEW c \in Clients, Release(c) PROVE TypeOK'
  BY <1>12 DEF Release, IInv, TypeOK, SessionInv, TransactionInv,
     InTransaction, Writes, PCs, Idle
<1>13. ASSUME NEW c \in Clients, ReleaseNoRow(c) PROVE TypeOK'
  <2>1. CASE /\ pc' = [pc EXCEPT ![c] = "released"]
             /\ UNCHANGED <<row, connection, aborted, base, tried, outcome>>
    BY <2>1 DEF connection, IInv, TypeOK, PCs
  <2>2. CASE GiveBack(c, Discards(c)) /\ UNCHANGED fence
    BY <2>2 DEF GiveBack, Freed, IInv, TypeOK, PCs, Idle
  <2> QED
    BY <1>13, <2>1, <2>2 DEF ReleaseNoRow
<1>14. ASSUME NEW c \in Clients, CleanupFails(c) PROVE TypeOK'
  BY <1>14 DEF CleanupFails, GiveBack, Freed, IInv, TypeOK, SessionInv,
     TransactionInv, InTransaction, Writes, PCs, Idle
<1>15. ASSUME NEW c \in Clients, Unlock(c) PROVE TypeOK'
  <2>1. lock.owner \in Sessions /\ lock.depth \in 1..MaxDepth
    BY <1>15 DEF Unlock, IInv, TypeOK, SessionInv
  <2>2. /\ lock' \in [owner : Sessions \cup {NoSession}, depth : 0..MaxDepth]
        /\ lock'.owner = NoSession <=> lock'.depth = 0
    BY <1>15, <2>1 DEF Unlock
  <2>3. pc' \in [Clients -> PCs] /\ sess' \in [Clients -> Sessions \cup {NoSession}]
    BY <1>15 DEF Unlock, IInv, TypeOK, PCs, Idle
  <2> QED
    BY <1>15, <2>2, <2>3 DEF Unlock, IInv, TypeOK
<1>16. ASSUME NEW c \in Clients, CleanupBroken(c) PROVE TypeOK'
  BY <1>16 DEF CleanupBroken, connection, IInv, TypeOK, SessionInv,
     TransactionInv, InTransaction, Writes, PCs, Idle
<1>17. ASSUME NEW c \in Clients, SessionLost(c) PROVE TypeOK'
  BY <1>17 DEF SessionLost, Freed, IInv, TypeOK, SessionInv, TransactionInv,
     InTransaction, Writes, PCs, Idle
<1>18. ASSUME NEW c \in Clients, Abort(c) PROVE TypeOK'
  BY <1>18 DEF Abort, Freed, IInv, TypeOK, SessionInv, TransactionInv,
     InTransaction, Writes, PCs, Idle
<1>19. ASSUME NEW c \in Clients, Crash(c) PROVE TypeOK'
  BY <1>19 DEF Crash, Freed, IInv, TypeOK, SessionInv, TransactionInv,
     InTransaction, Writes, PCs, Idle
<1>20. ASSUME NEW s \in Sessions, IdleClose(s) PROVE TypeOK'
  BY <1>20 DEF IdleClose, Pooled, Freed, IInv, TypeOK, SessionInv,
     TransactionInv, InTransaction, Writes, PCs, Idle
<1>21. CASE UNCHANGED vars
  BY <1>21 DEF vars, IInv, TypeOK, SessionInv, TransactionInv,
     InTransaction, Writes, PCs, Idle
<1> QED
  BY <1>1, <1>2, <1>3, <1>4, <1>5, <1>6, <1>7, <1>8, <1>9, <1>10, <1>11,
     <1>12, <1>13, <1>14, <1>15, <1>16, <1>17, <1>18, <1>19, <1>20, <1>21
     DEF Next, Step, Acquire, Transact, Cleanup, Finished

\* Only TryLock gives a call a connection, and it takes one from the pool under
\* an advisory lock that nobody else owns.
LEMMA SessionStep == IInv /\ [Next]_vars => SessionInv'
<1> SUFFICES ASSUME IInv, [Next]_vars PROVE SessionInv'
  OBVIOUS
<1> USE ClientsAssumption, SessionsAssumption
<1>1. ASSUME NEW c \in Clients, NEW s \in Sessions, TryLock(c, s) PROVE SessionInv'
  BY <1>1 DEF TryLock, IInv, TypeOK, SessionInv, Pooled, PCs, Idle
<1>2. ASSUME NEW c \in Clients, NEW s \in Sessions, LockBusy(c, s) PROVE SessionInv'
  BY <1>2 DEF LockBusy, connection, IInv, TypeOK, SessionInv, Pooled, PCs,
     Idle
<1>3. ASSUME NEW c \in Clients, TakeFence(c) PROVE SessionInv'
  BY <1>3 DEF TakeFence, Bumped, IInv, TypeOK, SessionInv, Pooled, PCs, Idle
<1>4. ASSUME NEW c \in Clients, FenceFails(c) PROVE SessionInv'
  BY <1>4 DEF FenceFails, connection, IInv, TypeOK, SessionInv, Pooled, PCs,
     Idle
<1>5. ASSUME NEW c \in Clients, FenceUnknown(c) PROVE SessionInv'
  BY <1>5 DEF FenceUnknown, Bumped, Freed, IInv, TypeOK, SessionInv, Pooled,
     PCs, Idle
<1>6. ASSUME NEW c \in Clients, ReleaseNoRow(c) PROVE SessionInv'
  BY <1>6 DEF ReleaseNoRow, GiveBack, Freed, connection, IInv, TypeOK,
     SessionInv, Pooled, PCs, Idle
<1>7. ASSUME NEW c \in Clients, CleanupFails(c) PROVE SessionInv'
  BY <1>7 DEF CleanupFails, GiveBack, Freed, IInv, TypeOK, SessionInv,
     Pooled, PCs, Idle
<1>8. ASSUME NEW c \in Clients, Unlock(c) PROVE SessionInv'
  BY <1>8 DEF Unlock, IInv, TypeOK, SessionInv, Pooled, PCs, Idle
<1>9. ASSUME NEW c \in Clients, CleanupBroken(c) PROVE SessionInv'
  BY <1>9 DEF CleanupBroken, connection, IInv, TypeOK, SessionInv, Pooled,
     PCs, Idle
<1>10. ASSUME NEW c \in Clients, SessionLost(c) PROVE SessionInv'
  BY <1>10 DEF SessionLost, Freed, IInv, TypeOK, SessionInv, Pooled, PCs,
     Idle
<1>11. ASSUME NEW c \in Clients, Abort(c) PROVE SessionInv'
  BY <1>11 DEF Abort, Freed, IInv, TypeOK, SessionInv, Pooled, PCs, Idle
<1>12. ASSUME NEW c \in Clients, Crash(c) PROVE SessionInv'
  BY <1>12 DEF Crash, Freed, IInv, TypeOK, SessionInv, Pooled, PCs, Idle
<1>13. ASSUME NEW c \in Clients, Select(c) \/ CheckFence(c) \/ Commit(c) \/
       CommitUnknown(c) \/ Rollback(c) \/ EndOperation(c) \/ Release(c) PROVE
       SessionInv'
  BY <1>13 DEF Select, RowLocked, connection, CheckFence, Commit,
     RevisionCurrent, Written, Write, EndTransaction, AfterTransaction,
     CommitUnknown, Rollback, EndOperation, Release, IInv, TypeOK,
     SessionInv, Pooled, PCs, Idle
<1>14. ASSUME NEW s \in Sessions, IdleClose(s) PROVE SessionInv'
  BY <1>14 DEF IdleClose, Pooled, Freed, IInv, TypeOK, SessionInv, PCs, Idle
<1>15. CASE UNCHANGED vars
  BY <1>15 DEF vars, IInv, TypeOK, SessionInv, Pooled, PCs, Idle
<1> QED
  BY <1>1, <1>2, <1>3, <1>4, <1>5, <1>6, <1>7, <1>8, <1>9, <1>10, <1>11,
     <1>12, <1>13, <1>14, <1>15 DEF Next, Step, Acquire, Transact, Cleanup,
     Finished

\* A token is the fence row's next number; a leased write carries the token the
\* fence row had when it was compared.
LEMMA TokenStep == IInv /\ [Next]_vars => TokenInv'
<1> SUFFICES ASSUME IInv, [Next]_vars PROVE TokenInv'
  OBVIOUS
<1> USE ClientsAssumption, BoundsAssumption
<1>1. ASSUME NEW c \in Clients, NEW s \in Sessions, TryLock(c, s) PROVE TokenInv'
  BY <1>1 DEF TryLock, IInv, TypeOK, TokenInv, TransactionInv,
     InTransaction, FenceCurrent, PCs, Idle
<1>2. ASSUME NEW c \in Clients, NEW s \in Sessions, LockBusy(c, s) PROVE TokenInv'
  BY <1>2 DEF LockBusy, connection, IInv, TypeOK, TokenInv, TransactionInv,
     InTransaction, FenceCurrent, PCs, Idle
<1>3. ASSUME NEW c \in Clients, TakeFence(c) PROVE TokenInv'
  BY <1>3 DEF TakeFence, Bumped, IInv, TypeOK, TokenInv, TransactionInv,
     InTransaction, FenceCurrent, PCs, Idle
<1>4. ASSUME NEW c \in Clients, FenceUnknown(c) PROVE TokenInv'
  BY <1>4 DEF FenceUnknown, Bumped, Freed, IInv, TypeOK, TokenInv,
     TransactionInv, InTransaction, FenceCurrent, PCs, Idle
<1>5. ASSUME NEW c \in Clients, Commit(c) PROVE TokenInv'
  BY <1>5 DEF Commit, RevisionCurrent, Written, Write, EndTransaction,
     AfterTransaction, connection, IInv, TypeOK, TokenInv, TransactionInv,
     InTransaction, FenceCurrent, PCs, Idle
<1>6. ASSUME NEW c \in Clients, CommitUnknown(c) PROVE TokenInv'
  BY <1>6 DEF CommitUnknown, RevisionCurrent, Written, Write,
     EndTransaction, AfterTransaction, connection, IInv, TypeOK, TokenInv,
     TransactionInv, InTransaction, FenceCurrent, PCs, Idle
<1>7. ASSUME NEW c \in Clients, Release(c) PROVE TokenInv'
  BY <1>7 DEF Release, IInv, TypeOK, TokenInv, TransactionInv,
     InTransaction, FenceCurrent, PCs, Idle
<1>8. ASSUME NEW c \in Clients, FenceFails(c) \/ Select(c) \/ CheckFence(c) \/
       Rollback(c) \/ EndOperation(c) \/ ReleaseNoRow(c) \/ CleanupFails(c) \/
       Unlock(c) \/ CleanupBroken(c) \/ SessionLost(c) \/ Abort(c) \/ Crash(c)
       PROVE TokenInv'
  BY <1>8 DEF FenceFails, connection, Select, RowLocked, CheckFence,
     Rollback, Write, EndTransaction, AfterTransaction, EndOperation,
     ReleaseNoRow, GiveBack, Freed, CleanupFails, Unlock, CleanupBroken,
     SessionLost, Abort, Crash, IInv, TypeOK, TokenInv, TransactionInv,
     InTransaction, FenceCurrent, PCs, Idle
<1>9. ASSUME NEW s \in Sessions, IdleClose(s) PROVE TokenInv'
  BY <1>9 DEF IdleClose, Pooled, Freed, IInv, TypeOK, TokenInv,
     TransactionInv, InTransaction, FenceCurrent, PCs, Idle
<1>10. CASE UNCHANGED vars
  BY <1>10 DEF vars, IInv, TypeOK, TokenInv, TransactionInv, InTransaction,
     FenceCurrent, PCs, Idle
<1> QED
  BY <1>1, <1>2, <1>3, <1>4, <1>5, <1>6, <1>7, <1>8, <1>9, <1>10 DEF Next,
     Step, Acquire, Transact, Cleanup, Finished

\* The row lock keeps the row, the share lock on the fence row keeps the fence.
LEMMA TransactionStep == IInv /\ [Next]_vars => TransactionInv'
<1> SUFFICES ASSUME IInv, [Next]_vars PROVE TransactionInv'
  OBVIOUS
<1> USE ClientsAssumption, BoundsAssumption
<1>1. ASSUME NEW c \in Clients, NEW s \in Sessions, TryLock(c, s) PROVE TransactionInv'
  BY <1>1 DEF TryLock, IInv, TypeOK, TransactionInv, InTransaction,
     TokenInv, FenceShared, FenceCurrent, PCs, Idle
<1>2. ASSUME NEW c \in Clients, NEW s \in Sessions, LockBusy(c, s) PROVE TransactionInv'
  BY <1>2 DEF LockBusy, connection, IInv, TypeOK, TransactionInv,
     InTransaction, TokenInv, FenceShared, FenceCurrent, PCs, Idle
<1>3. ASSUME NEW c \in Clients, TakeFence(c) PROVE TransactionInv'
  BY <1>3 DEF TakeFence, Bumped, IInv, TypeOK, TransactionInv,
     InTransaction, TokenInv, FenceShared, FenceCurrent, PCs, Idle
<1>4. ASSUME NEW c \in Clients, FenceUnknown(c) PROVE TransactionInv'
  BY <1>4 DEF FenceUnknown, Bumped, Freed, IInv, TypeOK, TransactionInv,
     InTransaction, TokenInv, FenceShared, FenceCurrent, PCs, Idle
<1>5. ASSUME NEW c \in Clients, Select(c) PROVE TransactionInv'
  BY <1>5 DEF Select, RowLocked, connection, IInv, TypeOK, TransactionInv,
     InTransaction, TokenInv, FenceShared, FenceCurrent, PCs, Idle
<1>6. ASSUME NEW c \in Clients, CheckFence(c) PROVE TransactionInv'
  BY <1>6 DEF CheckFence, connection, IInv, TypeOK, TransactionInv,
     InTransaction, TokenInv, FenceShared, FenceCurrent, PCs, Idle
<1>7. ASSUME NEW c \in Clients, Commit(c) PROVE TransactionInv'
  BY <1>7 DEF Commit, RevisionCurrent, Written, Write, EndTransaction,
     AfterTransaction, connection, IInv, TypeOK, TransactionInv,
     InTransaction, TokenInv, FenceShared, FenceCurrent, PCs, Idle
<1>8. ASSUME NEW c \in Clients, CommitUnknown(c) PROVE TransactionInv'
  BY <1>8 DEF CommitUnknown, RevisionCurrent, Written, Write,
     EndTransaction, AfterTransaction, connection, IInv, TypeOK,
     TransactionInv, InTransaction, TokenInv, FenceShared, FenceCurrent,
     PCs, Idle
<1>9. ASSUME NEW c \in Clients, Rollback(c) PROVE TransactionInv'
  BY <1>9 DEF Rollback, Write, EndTransaction, AfterTransaction, connection,
     IInv, TypeOK, TransactionInv, InTransaction, TokenInv, FenceShared,
     FenceCurrent, PCs, Idle
<1>10. ASSUME NEW c \in Clients, Release(c) PROVE TransactionInv'
  <2>1. c \in Leased /\ token[c] # 0
    BY <1>10 DEF Release, FenceCurrent, IInv, SessionInv, TokenInv
  <2>2. \A d \in Leased : pc[d] # "checked"
    BY <1>10, <2>1 DEF Release, FenceCurrent, IInv, TokenInv, TransactionInv
  <2> QED
    BY <1>10, <2>2 DEF Release, FenceCurrent, IInv, TypeOK, TransactionInv,
       InTransaction
<1>11. ASSUME NEW c \in Clients, FenceFails(c) \/ EndOperation(c) \/
       ReleaseNoRow(c) \/ CleanupFails(c) \/ Unlock(c) \/ CleanupBroken(c) \/
       SessionLost(c) \/ Abort(c) \/ Crash(c) PROVE TransactionInv'
  <2>1. UNCHANGED <<row, fence, token, base, tried>>
    BY <1>11 DEF FenceFails, connection, EndOperation, ReleaseNoRow, GiveBack,
       CleanupFails, Unlock, CleanupBroken, SessionLost, Abort, Crash
  <2>2. pc' = pc \/ \E l \in {"cleanup", "released", "done"} : pc' = [pc EXCEPT ![c] = l]
    BY <1>11 DEF FenceFails, EndOperation, ReleaseNoRow, GiveBack, CleanupFails,
       Unlock, CleanupBroken, SessionLost, Abort, Crash
  <2>3. \A d \in Clients : pc'[d] \in InTransaction => pc'[d] = pc[d]
    BY <2>2 DEF IInv, TypeOK, InTransaction
  <2> QED
    BY <2>1, <2>3 DEF IInv, TransactionInv, InTransaction, FenceCurrent
<1>12. ASSUME NEW s \in Sessions, IdleClose(s) PROVE TransactionInv'
  BY <1>12 DEF IdleClose, Pooled, Freed, IInv, TypeOK, TransactionInv,
     InTransaction, TokenInv, FenceShared, FenceCurrent, PCs, Idle
<1>13. CASE UNCHANGED vars
  BY <1>13 DEF vars, IInv, TypeOK, TransactionInv, InTransaction, TokenInv,
     FenceShared, FenceCurrent, PCs, Idle
<1> QED
  BY <1>1, <1>2, <1>3, <1>4, <1>5, <1>6, <1>7, <1>8, <1>9, <1>10, <1>11,
     <1>12, <1>13 DEF Next, Step, Acquire, Transact, Cleanup, Finished

\* Each transaction that ends settles exactly one new write.
LEMMA FreshStep == IInv /\ [Next]_vars => FreshInv'
<1> SUFFICES ASSUME IInv, [Next]_vars PROVE FreshInv'
  OBVIOUS
<1> USE ClientsAssumption, BoundsAssumption
<1>1. ASSUME NEW c \in Clients, NEW s \in Sessions, TryLock(c, s) PROVE FreshInv'
  BY <1>1 DEF TryLock, IInv, TypeOK, TransactionInv, InTransaction,
     FreshInv, Writes
<1>2. ASSUME NEW c \in Clients, NEW s \in Sessions, LockBusy(c, s) PROVE FreshInv'
  BY <1>2 DEF LockBusy, connection, IInv, TypeOK, TransactionInv,
     InTransaction, FreshInv, Writes
<1>3. ASSUME NEW c \in Clients, Commit(c) PROVE FreshInv'
  BY <1>3 DEF Commit, RevisionCurrent, Written, Write, EndTransaction,
     AfterTransaction, connection, IInv, TypeOK, TransactionInv,
     InTransaction, FreshInv, Writes
<1>4. ASSUME NEW c \in Clients, CommitUnknown(c) PROVE FreshInv'
  BY <1>4 DEF CommitUnknown, RevisionCurrent, Written, Write,
     EndTransaction, AfterTransaction, connection, IInv, TypeOK,
     TransactionInv, InTransaction, FreshInv, Writes
<1>5. ASSUME NEW c \in Clients, Rollback(c) PROVE FreshInv'
  BY <1>5 DEF Rollback, Write, EndTransaction, AfterTransaction, connection,
     IInv, TypeOK, TransactionInv, InTransaction, FreshInv, Writes
<1>6. ASSUME NEW c \in Clients, TakeFence(c) \/ FenceFails(c) \/
       FenceUnknown(c) \/ Select(c) \/ CheckFence(c) \/ EndOperation(c) \/
       Release(c) \/ ReleaseNoRow(c) \/ CleanupFails(c) \/ Unlock(c) \/
       CleanupBroken(c) \/ SessionLost(c) \/ Abort(c) \/ Crash(c) PROVE
       FreshInv'
  BY <1>6 DEF TakeFence, Bumped, FenceFails, connection, FenceUnknown,
     Freed, Select, RowLocked, CheckFence, EndOperation, Release,
     ReleaseNoRow, GiveBack, CleanupFails, Unlock, CleanupBroken,
     SessionLost, Abort, Crash, IInv, TypeOK, TransactionInv, InTransaction,
     FreshInv, Writes
<1>7. ASSUME NEW s \in Sessions, IdleClose(s) PROVE FreshInv'
  BY <1>7 DEF IdleClose, Pooled, Freed, IInv, TypeOK, TransactionInv,
     InTransaction, FreshInv, Writes
<1>8. CASE UNCHANGED vars
  BY <1>8 DEF vars, IInv, TypeOK, TransactionInv, InTransaction, FreshInv,
     Writes
<1> QED
  BY <1>1, <1>2, <1>3, <1>4, <1>5, <1>6, <1>7, <1>8 DEF Next, Step, Acquire,
     Transact, Cleanup, Finished

\* A new token is given to the owner of the advisory lock only.
LEMMA LeaseStep == IInv /\ [Next]_vars => LiveLeaseIsCurrent'
<1> SUFFICES ASSUME IInv, [Next]_vars PROVE LiveLeaseIsCurrent'
  OBVIOUS
<1> USE ClientsAssumption, SessionsAssumption, BoundsAssumption
<1>1. ASSUME NEW c \in Clients, NEW s \in Sessions, TryLock(c, s) PROVE LiveLeaseIsCurrent'
  BY <1>1 DEF TryLock, IInv, TypeOK, SessionInv, LiveLeaseIsCurrent,
     FenceCurrent, PCs, Idle
<1>2. ASSUME NEW c \in Clients, NEW s \in Sessions, LockBusy(c, s) PROVE LiveLeaseIsCurrent'
  BY <1>2 DEF LockBusy, connection, IInv, TypeOK, SessionInv,
     LiveLeaseIsCurrent, FenceCurrent, PCs, Idle
<1>3. ASSUME NEW c \in Clients, TakeFence(c) PROVE LiveLeaseIsCurrent'
  BY <1>3 DEF TakeFence, Bumped, IInv, TypeOK, SessionInv,
     LiveLeaseIsCurrent, FenceCurrent, PCs, Idle
<1>4. ASSUME NEW c \in Clients, FenceUnknown(c) PROVE LiveLeaseIsCurrent'
  BY <1>4 DEF FenceUnknown, Bumped, Freed, IInv, TypeOK, SessionInv,
     LiveLeaseIsCurrent, FenceCurrent, PCs, Idle
<1>5. ASSUME NEW c \in Clients, Release(c) PROVE LiveLeaseIsCurrent'
  BY <1>5 DEF Release, IInv, TypeOK, SessionInv, LiveLeaseIsCurrent,
     FenceCurrent, PCs, Idle
<1>6. ASSUME NEW c \in Clients, FenceFails(c) \/ Select(c) \/ CheckFence(c) \/
       Commit(c) \/ CommitUnknown(c) \/ Rollback(c) \/ EndOperation(c) \/
       ReleaseNoRow(c) \/ CleanupFails(c) \/ Unlock(c) \/ CleanupBroken(c) \/
       SessionLost(c) \/ Abort(c) \/ Crash(c) PROVE LiveLeaseIsCurrent'
  BY <1>6 DEF FenceFails, connection, Select, RowLocked, CheckFence, Commit,
     RevisionCurrent, Written, Write, EndTransaction, AfterTransaction,
     CommitUnknown, Rollback, EndOperation, ReleaseNoRow, GiveBack, Freed,
     CleanupFails, Unlock, CleanupBroken, SessionLost, Abort, Crash, IInv,
     TypeOK, SessionInv, LiveLeaseIsCurrent, FenceCurrent, PCs, Idle
<1>7. ASSUME NEW s \in Sessions, IdleClose(s) PROVE LiveLeaseIsCurrent'
  BY <1>7 DEF IdleClose, Pooled, Freed, IInv, TypeOK, SessionInv,
     LiveLeaseIsCurrent, FenceCurrent, PCs, Idle
<1>8. CASE UNCHANGED vars
  BY <1>8 DEF vars, IInv, TypeOK, SessionInv, LiveLeaseIsCurrent,
     FenceCurrent, PCs, Idle
<1> QED
  BY <1>1, <1>2, <1>3, <1>4, <1>5, <1>6, <1>7, <1>8 DEF Next, Step, Acquire,
     Transact, Cleanup, Finished

\* The row a transaction overwrites is the one it read.
LEMMA AnswerStep == IInv /\ [Next]_vars => AnswersAreTrue'
<1> SUFFICES ASSUME IInv, [Next]_vars PROVE AnswersAreTrue'
  OBVIOUS
<1> USE ClientsAssumption, BoundsAssumption
<1>1. ASSUME NEW c \in Clients, NEW s \in Sessions, TryLock(c, s) PROVE AnswersAreTrue'
  BY <1>1 DEF TryLock, IInv, TypeOK, TransactionInv, InTransaction,
     FreshInv, AnswersAreTrue, Writes
<1>2. ASSUME NEW c \in Clients, NEW s \in Sessions, LockBusy(c, s) PROVE AnswersAreTrue'
  BY <1>2 DEF LockBusy, connection, IInv, TypeOK, TransactionInv,
     InTransaction, FreshInv, AnswersAreTrue, Writes
<1>3. ASSUME NEW c \in Clients, Commit(c) PROVE AnswersAreTrue'
  BY <1>3 DEF Commit, RevisionCurrent, Written, Write, EndTransaction,
     AfterTransaction, connection, IInv, TypeOK, TransactionInv,
     InTransaction, FreshInv, AnswersAreTrue, Writes
<1>4. ASSUME NEW c \in Clients, CommitUnknown(c) PROVE AnswersAreTrue'
  BY <1>4 DEF CommitUnknown, RevisionCurrent, Written, Write,
     EndTransaction, AfterTransaction, connection, IInv, TypeOK,
     TransactionInv, InTransaction, FreshInv, AnswersAreTrue, Writes
<1>5. ASSUME NEW c \in Clients, Rollback(c) PROVE AnswersAreTrue'
  BY <1>5 DEF Rollback, Write, EndTransaction, AfterTransaction, connection,
     IInv, TypeOK, TransactionInv, InTransaction, FreshInv, AnswersAreTrue,
     Writes
<1>6. ASSUME NEW c \in Clients, TakeFence(c) \/ FenceFails(c) \/
       FenceUnknown(c) \/ Select(c) \/ CheckFence(c) \/ EndOperation(c) \/
       Release(c) \/ ReleaseNoRow(c) \/ CleanupFails(c) \/ Unlock(c) \/
       CleanupBroken(c) \/ SessionLost(c) \/ Abort(c) \/ Crash(c) PROVE
       AnswersAreTrue'
  BY <1>6 DEF TakeFence, Bumped, FenceFails, connection, FenceUnknown,
     Freed, Select, RowLocked, CheckFence, EndOperation, Release,
     ReleaseNoRow, GiveBack, CleanupFails, Unlock, CleanupBroken,
     SessionLost, Abort, Crash, IInv, TypeOK, TransactionInv, InTransaction,
     FreshInv, AnswersAreTrue, Writes
<1>7. ASSUME NEW s \in Sessions, IdleClose(s) PROVE AnswersAreTrue'
  BY <1>7 DEF IdleClose, Pooled, Freed, IInv, TypeOK, TransactionInv,
     InTransaction, FreshInv, AnswersAreTrue, Writes
<1>8. CASE UNCHANGED vars
  BY <1>8 DEF vars, IInv, TypeOK, TransactionInv, InTransaction, FreshInv,
     AnswersAreTrue, Writes
<1> QED
  BY <1>1, <1>2, <1>3, <1>4, <1>5, <1>6, <1>7, <1>8 DEF Next, Step, Acquire,
     Transact, Cleanup, Finished

-----------------------------------------------------------------------------
(* The theorems                                                            *)

\* Whatever the cleanup cannot confirm is destroyed, so that the lock goes with its
\* connection; a pooled connection is never its owner, so nobody takes it twice.
LEMMA PoolStep == IInv /\ [Next]_vars => PoolInv'
<1> SUFFICES ASSUME IInv, [Next]_vars, backend = "json" PROVE PoolInv'
  BY DEF PoolInv, Next, vars
<1> USE SessionsAssumption
<1> USE DEF PoolInv
<1>1. lock.depth <= 1 /\ (lock.owner # NoSession => \E c \in Clients : sess[c] = lock.owner)
  BY DEF IInv
<1>2. ASSUME NEW c \in Clients, NEW s \in Sessions, TryLock(c, s) PROVE PoolInv'
  BY <1>1, <1>2 DEF IInv, TypeOK, TryLock, Pooled
<1>3. ASSUME NEW c \in Clients, Unlock(c) PROVE PoolInv'
  <2>1. lock.owner = sess[c]
    BY <1>3 DEF Unlock, IInv, SessionInv
  <2>2. lock.depth \in Nat /\ lock.depth # 0
    BY <1>3, <2>1, BoundsAssumption DEF Unlock, IInv, TypeOK
  <2>3. lock.depth = 1
    BY <1>1, <2>2
  <2> QED
    BY <1>3, <2>3 DEF Unlock
<1>4. ASSUME NEW c \in Clients, lock' = Freed(sess[c]), sess' = [sess EXCEPT ![c] = NoSession]
      PROVE  PoolInv'
  BY <1>1, <1>4 DEF Freed, IInv, TypeOK
<1>5. ASSUME NEW c \in Clients, \/ FenceUnknown(c) \/ CleanupFails(c) \/ SessionLost(c)
                               \/ Abort(c) \/ Crash(c)
      PROVE  PoolInv'
  BY <1>4, <1>5 DEF FenceUnknown, CleanupFails, GiveBack, Discards, SessionLost, Abort, Crash
<1>6. ASSUME NEW s \in Sessions, IdleClose(s) PROVE PoolInv'
  BY <1>1, <1>6 DEF IdleClose, Freed
<1>7. ASSUME UNCHANGED <<lock, sess>> PROVE PoolInv'
  BY <1>1, <1>7
<1>8. ASSUME NEW c \in Clients, NEW s \in Sessions, LockBusy(c, s) PROVE PoolInv'
  BY <1>7, <1>8 DEF LockBusy, connection
<1>9. ASSUME NEW c \in Clients,
             \/ TakeFence(c) \/ FenceFails(c) \/ Transact(c) \/ EndOperation(c)
             \/ Release(c) \/ ReleaseNoRow(c) \/ CleanupBroken(c)
      PROVE  PoolInv'
  BY <1>7, <1>9 DEF TakeFence, FenceFails, Transact, Select, CheckFence, Commit, CommitUnknown,
       Rollback, EndTransaction, EndOperation, Release, ReleaseNoRow, CleanupBroken, connection
<1> QED
  BY <1>2, <1>3, <1>5, <1>6, <1>7, <1>8, <1>9
     DEF Next, Step, Acquire, Cleanup, Finished, vars

LEMMA InitHolds == Init => IInv
  BY ClientsAssumption, SessionsAssumption, BoundsAssumption
     DEF Init, IInv, TypeOK, SessionInv, TokenInv, TransactionInv, FreshInv,
         LiveLeaseIsCurrent, AnswersAreTrue, PoolInv, InTransaction, FenceCurrent,
         Writes, PCs, Idle

LEMMA StepPreserves == IInv /\ [Next]_vars => IInv'
  BY TypeStep, SessionStep, TokenStep, TransactionStep, FreshStep, LeaseStep,
     AnswerStep, PoolStep
     DEF IInv

THEOREM InvariantHolds == Spec => []IInv
  BY InitHolds, StepPreserves, PTL DEF Spec

\* Every reachable state has the declared types: in particular the advisory
\* lock never has a depth without an owner, however sessions end.
THEOREM TypeCorrect == Spec => []TypeOK
<1>1. IInv => TypeOK
  BY DEF IInv
<1> QED
  BY <1>1, InvariantHolds, PTL

\* withResourceLock: a call whose lease connection is alive holds the newest
\* fencing token and an open fence row.
THEOREM LiveLeaseHolds == Spec => []LiveLeaseIsCurrent
<1>1. IInv => LiveLeaseIsCurrent
  BY DEF IInv
<1> QED
  BY <1>1, InvariantHolds, PTL

\* transact, transactScope: an acknowledged write stays in the row, a write
\* reported as failed is never in it.
THEOREM AnswersHold == Spec => []AnswersAreTrue
<1>1. IInv => AnswersAreTrue
  BY DEF IInv
<1> QED
  BY <1>1, InvariantHolds, PTL

\* No interleaving of cleanups that fail, aborts and lost connections leaves a
\* lease that is not the current one, or a lock on a pooled connection of the JSON
\* store.
THEOREM LocksHold == Spec => []LocksAreSound
<1>1. IInv => JsonPoolHoldsNoLock
  BY SessionsAssumption DEF IInv, PoolInv, JsonPoolHoldsNoLock, PooledConnectionHoldsNoLock, Pooled
<1>2. IInv => LocksAreSound
  BY <1>1 DEF IInv, LocksAreSound
<1> QED
  BY <1>2, InvariantHolds, PTL

LEMMA WriteStep ==
  IInv /\ [Next]_vars =>
     [\A w \in row'.content \ row.content : w[1] \in Leased => FenceCurrent(w[1])]_vars
<1> SUFFICES ASSUME IInv, Next,
                    NEW w \in row'.content, w \notin row.content, w[1] \in Leased
             PROVE  FenceCurrent(w[1])
  BY DEF vars
<1>1. PICK c \in Clients : Commit(c) \/ CommitUnknown(c)
  BY DEF Next, Step, Acquire, Transact, Cleanup, Finished, vars, TryLock, LockBusy,
     TakeFence, FenceFails, FenceUnknown, Select, CheckFence, Rollback, EndOperation,
     Release, ReleaseNoRow, GiveBack, CleanupFails, Unlock, CleanupBroken,
     SessionLost, Abort, Crash, IdleClose
<1>2. pc[c] = "checked" /\ base[c] = row /\ row'.content \subseteq row.content \cup {Write(c)}
  BY <1>1 DEF Commit, CommitUnknown, Written, IInv, TransactionInv, InTransaction
<1>3. w[1] = c
  BY <1>2 DEF Write
<1> QED
  BY <1>2, <1>3 DEF IInv, TransactionInv

\* A leased write takes effect only under the newest, open lease: the lock the
\* transaction keeps on the fence row holds back every newer lease until COMMIT.
THEOREM WritesAreFenced == Spec => WrittenUnderCurrentLease
  BY InvariantHolds, WriteStep, PTL DEF Spec, WrittenUnderCurrentLease

-----------------------------------------------------------------------------
(* The store implements FencedRegister: a commit is Take of its write, a   *)
(* rollback or a lost COMMIT is Refuse, everything else is a stutter.      *)

\* The token of a write: a leased one was compared with the fence row, any
\* other keeps the token it read.
LEMMA WrittenToken ==
  ASSUME IInv, NEW c \in Clients, pc[c] = "checked"
  PROVE  Written(c).token \in Nat /\ Written(c).token >= row.token
<1>1. base[c] = row
  BY DEF IInv, TransactionInv, InTransaction
<1>2. CASE c \in Leased
  <2>1. token[c] = fence.token
    BY <1>2 DEF IInv, TransactionInv, FenceCurrent
  <2> QED
    BY <1>2, <2>1, BoundsAssumption DEF Written, IInv, TypeOK, TokenInv
<1>3. CASE c \notin Leased
  BY <1>1, <1>3, BoundsAssumption DEF Written, IInv, TypeOK
<1> QED
  BY <1>2, <1>3

\* The write a transaction settles is one of Writes and was never settled.
LEMMA WriteIsFresh ==
  ASSUME IInv, NEW c \in Clients, pc[c] \in InTransaction
  PROVE  /\ Write(c) \in Writes
         /\ Write(c) \notin row.content
         /\ outcome[Write(c)] = "pending"
         /\ base[c] = row
<1>1. tried[c] < MaxWrites /\ tried[c] \in Nat /\ base[c] = row
  BY BoundsAssumption DEF IInv, TypeOK, TransactionInv
<1>2. Write(c) \in Writes
  BY <1>1, BoundsAssumption DEF Write, Writes
<1> QED
  BY <1>1, <1>2 DEF Write, IInv, FreshInv

LEMMA CommitTakes ==
  ASSUME IInv, NEW c \in Clients, Commit(c)
  PROVE  Register!Take(Write(c))
<1>1. pc[c] = "checked" /\ row' = Written(c)
      /\ outcome' = [outcome EXCEPT ![Write(c)] = "ok"]
  BY DEF Commit, EndTransaction
<1> QED
  BY <1>1, WrittenToken, WriteIsFresh DEF Register!Take, Written, InTransaction

LEMMA CommitUnknownTakesOrRefuses ==
  ASSUME IInv, NEW c \in Clients, CommitUnknown(c)
  PROVE  Register!Take(Write(c)) \/ Register!Refuse(Write(c))
<1>1. pc[c] = "checked" /\ row' \in {row, Written(c)}
      /\ outcome' = [outcome EXCEPT ![Write(c)] = "unknown"]
  BY DEF CommitUnknown, EndTransaction
<1>2. CASE row' = row
  BY <1>1, <1>2, WriteIsFresh DEF Register!Refuse, InTransaction
<1>3. CASE row' = Written(c)
  BY <1>1, <1>3, WrittenToken, WriteIsFresh DEF Register!Take, Written, InTransaction
<1> QED
  BY <1>1, <1>2, <1>3

LEMMA RollbackRefuses ==
  ASSUME IInv, NEW c \in Clients, Rollback(c)
  PROVE  Register!Refuse(Write(c))
<1>1. pc[c] \in InTransaction /\ row' = row
      /\ outcome' = [outcome EXCEPT ![Write(c)] = "failed"]
  BY DEF Rollback, EndTransaction, InTransaction
<1> QED
  BY <1>1, WriteIsFresh DEF Register!Refuse

LEMMA StepRefines == IInv /\ [Next]_vars => [Register!RegNext]_(Register!regVars)
<1> SUFFICES ASSUME IInv, [Next]_vars PROVE Register!RegNext \/ UNCHANGED <<row, outcome>>
  BY DEF Register!regVars
<1>1. ASSUME NEW c \in Clients, Commit(c) \/ CommitUnknown(c) \/ Rollback(c)
      PROVE  Register!RegNext
  <2>1. Write(c) \in Writes
    BY <1>1, WriteIsFresh DEF Commit, CommitUnknown, Rollback, InTransaction
  <2> QED
    BY <1>1, <2>1, CommitTakes, CommitUnknownTakesOrRefuses, RollbackRefuses
       DEF Register!RegNext
<1>2. CASE ~\E c \in Clients : Commit(c) \/ CommitUnknown(c) \/ Rollback(c)
  BY <1>2 DEF Next, Step, Acquire, Transact, Cleanup, Finished, vars, TryLock, LockBusy,
     TakeFence, FenceFails, FenceUnknown, Select, CheckFence, EndOperation, Release,
     ReleaseNoRow, GiveBack, CleanupFails, Unlock, CleanupBroken, SessionLost, Abort,
     Crash, IdleClose
<1> QED
  BY <1>1, <1>2

\* transact and transactScope implement the fenced register: whatever locks,
\* sessions and processes do, a reader of the row sees writes that take effect
\* one at a time under tokens that never go back, and truthful answers.
THEOREM StoreImplementsRegister == Spec => ImplementsRegister
<1>1. Init => Register!RegInit
  BY DEF Init, Register!RegInit
<1> QED
  BY <1>1, InvariantHolds, StepRefines, PTL DEF Spec, ImplementsRegister, Register!RegSpec
=============================================================================

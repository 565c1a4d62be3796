----------------------------- MODULE QueuesProofs -----------------------------
(***************************************************************************)
(* What the bridge queue guarantees for any items, source states, pages,   *)
(* processes and faults.  The argument: a poll whose validator is still    *)
(* that of the source has read all of its records, because the state of    *)
(* the source does not come back; the checkpoint takes that validator only *)
(* with all of them in the queue; and an item that was queued stays known. *)
(* What the archive beside it keeps follows from OutboxProofs.             *)
(*                                                                         *)
(* Last, the state file of Discovery, for any records, batches, registries *)
(* and limits: it agrees with the registry, the config and the instant it  *)
(* names.  Operation by operation a record keeps the pending commands its  *)
(* decision calls for; the loops over records and events are inductions on *)
(* the position; and the lock leaves the file to one run at a time.        *)
(***************************************************************************)
EXTENDS Queues, FiniteSetTheorems, WellFoundedInduction, TLAPS

-----------------------------------------------------------------------------
(* The inductive invariant                                                 *)

\* What a poll has read, while the source is still in the state it saw first.
Polls ==
    /\ checkpoint <= source
    /\ \A w \in Workers :
          /\ seen[w] <= source
          /\ pc[w] = "rest" /\ seen[w] = source => Offered[source] \cap FirstPage \subseteq records[w]
          /\ pc[w] \in {"assess", "store"} /\ seen[w] = source => Offered[source] \subseteq records[w]

\* A process that delivers has an item, and acknowledges what it published.
Deliveries ==
    \A w \in Workers :
        /\ pc[w] \in {"check", "publish", "ack", "nack"} => item[w] \in Items
        /\ beat[w] => pc[w] \in {"check", "publish"}
        /\ pc[w] = "ack" => item[w] \in published

\* An item that is not a dead letter has an attempt left.
AttemptsLeft == \A i \in Items : status[i] # "dead" => attempts[i] < MaxAttempts

IInv == TypeOK /\ Polls /\ Deliveries /\ AttemptsLeft /\ NothingIsHidden /\ CompletedIsPublished

\* A step forgets no item and takes back no settlement.
Kept == \A i \in Items : /\ status[i] # "absent" => status'[i] # "absent"
                         /\ status[i] \in {"completed", "dead"} => status'[i] = status[i]

-----------------------------------------------------------------------------
(* Every action keeps the invariant and the settlements                    *)

\* No transaction has begun.
LEMMA LockKeeps ==
    ASSUME IInv, NEW p \in Workers, Lock(p)
    PROVE  IInv' /\ Kept
<1> USE DEF IInv, Lock, Met, OnError, Goto, Fault, file, local, world
<1>1. TypeOK'
  <2>1. FileTypes'
    BY WorkersAssumption, VersionsAssumption, AttemptsAssumption
    DEF TypeOK, FileTypes, ProcessTypes, Deliveries, AttemptsLeft, Statuses, Transactions
  <2>2. ProcessTypes'
    BY VersionsAssumption, PagesAssumption
    DEF TypeOK, FileTypes, ProcessTypes, WorldTypes, Places, Transactions, NoItem
  <2>3. WorldTypes'
    BY WorkersAssumption, VersionsAssumption, FaultsAssumption
    DEF TypeOK, WorldTypes, Deliveries, Transactions
  <2>4. QED BY <2>1, <2>2, <2>3 DEF TypeOK
<1>2. Polls'
  BY VersionsAssumption
  DEF TypeOK, FileTypes, ProcessTypes, WorldTypes, Polls, Transactions, Places
<1>3. Deliveries'
  BY WorkersAssumption DEF TypeOK, ProcessTypes, WorldTypes, Deliveries, Transactions, Places
<1>4. AttemptsLeft'
  BY AttemptsAssumption DEF TypeOK, FileTypes, AttemptsLeft, Deliveries, Statuses
<1>5. Kept
  BY DEF TypeOK, FileTypes, Kept, Deliveries, Statuses
<1>6. NothingIsHidden'
  BY <1>5, VersionsAssumption DEF TypeOK, FileTypes, WorldTypes, Kept, NothingIsHidden, Polls
<1>7. CompletedIsPublished'
  BY DEF TypeOK, FileTypes, WorldTypes, CompletedIsPublished, Deliveries, Statuses
<1>8. QED BY <1>1, <1>2, <1>3, <1>4, <1>5, <1>6, <1>7

\* The checkpoint is not ahead of the source.
LEMMA ReadCheckpointKeeps ==
    ASSUME IInv, NEW p \in Workers, ReadCheckpoint(p)
    PROVE  IInv' /\ Kept
<1> USE DEF IInv, ReadCheckpoint, Commit, OnError, Goto, Fault, file, local, world
<1>1. TypeOK'
  <2>1. FileTypes'
    BY WorkersAssumption, VersionsAssumption, AttemptsAssumption
    DEF TypeOK, FileTypes, ProcessTypes, Deliveries, AttemptsLeft, Statuses, Transactions
  <2>2. ProcessTypes'
    <3>1. pc' \in [Workers -> Places]
      BY DEF TypeOK, FileTypes, ProcessTypes, WorldTypes, Places, Transactions
    <3>2. seen' \in [Workers -> 0..Versions]
      BY VersionsAssumption DEF TypeOK, FileTypes, ProcessTypes, WorldTypes
    <3>3. records' \in [Workers -> SUBSET Items]
      BY VersionsAssumption, PagesAssumption DEF TypeOK, FileTypes, ProcessTypes, WorldTypes
    <3>4. accepted' \in [Workers -> SUBSET Items]
      BY DEF TypeOK, FileTypes, ProcessTypes, WorldTypes
    <3>5. item' \in [Workers -> Items \cup {NoItem}]
      BY DEF TypeOK, FileTypes, ProcessTypes, WorldTypes, NoItem
    <3>6. beat' \in [Workers -> BOOLEAN]
      BY DEF TypeOK, FileTypes, ProcessTypes, WorldTypes
    <3>7. QED BY <3>1, <3>2, <3>3, <3>4, <3>5, <3>6 DEF ProcessTypes
  <2>3. WorldTypes'
    BY WorkersAssumption, VersionsAssumption, FaultsAssumption
    DEF TypeOK, WorldTypes, Deliveries, Transactions
  <2>4. QED BY <2>1, <2>2, <2>3 DEF TypeOK
<1>2. Polls'
  BY VersionsAssumption
  DEF TypeOK, FileTypes, ProcessTypes, WorldTypes, Polls, Transactions, Places
<1>3. Deliveries'
  BY WorkersAssumption DEF TypeOK, ProcessTypes, WorldTypes, Deliveries, Transactions, Places
<1>4. AttemptsLeft'
  BY AttemptsAssumption DEF TypeOK, FileTypes, AttemptsLeft, Deliveries, Statuses
<1>5. Kept
  BY DEF TypeOK, FileTypes, Kept, Deliveries, Statuses
<1>6. NothingIsHidden'
  BY <1>5, VersionsAssumption DEF TypeOK, FileTypes, WorldTypes, Kept, NothingIsHidden, Polls
<1>7. CompletedIsPublished'
  BY DEF TypeOK, FileTypes, WorldTypes, CompletedIsPublished, Deliveries, Statuses
<1>8. QED BY <1>1, <1>2, <1>3, <1>4, <1>5, <1>6, <1>7

\* The first page belongs to the validator.
LEMMA FetchKeeps ==
    ASSUME IInv, NEW p \in Workers, Fetch(p)
    PROVE  IInv' /\ Kept
<1> USE DEF IInv, Fetch, Outside, Goto, Fault, file, local, world
<1>1. TypeOK'
  <2>1. FileTypes'
    BY WorkersAssumption, VersionsAssumption, AttemptsAssumption
    DEF TypeOK, FileTypes, ProcessTypes, Deliveries, AttemptsLeft, Statuses, Transactions
  <2>2. ProcessTypes'
    <3>1. pc' \in [Workers -> Places]
      BY DEF TypeOK, FileTypes, ProcessTypes, WorldTypes, Places, Transactions
    <3>2. seen' \in [Workers -> 0..Versions]
      BY VersionsAssumption DEF TypeOK, FileTypes, ProcessTypes, WorldTypes
    <3>3. records' \in [Workers -> SUBSET Items]
      <4>1. Offered[source] \subseteq Items
        BY VersionsAssumption DEF TypeOK, WorldTypes
      <4>2. QED BY <4>1 DEF TypeOK, ProcessTypes
    <3>4. accepted' \in [Workers -> SUBSET Items]
      BY DEF TypeOK, FileTypes, ProcessTypes, WorldTypes
    <3>5. item' \in [Workers -> Items \cup {NoItem}]
      BY DEF TypeOK, FileTypes, ProcessTypes, WorldTypes, NoItem
    <3>6. beat' \in [Workers -> BOOLEAN]
      BY DEF TypeOK, FileTypes, ProcessTypes, WorldTypes
    <3>7. QED BY <3>1, <3>2, <3>3, <3>4, <3>5, <3>6 DEF ProcessTypes
  <2>3. WorldTypes'
    BY WorkersAssumption, VersionsAssumption, FaultsAssumption
    DEF TypeOK, WorldTypes, Deliveries, Transactions
  <2>4. QED BY <2>1, <2>2, <2>3 DEF TypeOK
<1>2. Polls'
  <2>1. checkpoint' <= source'
    BY VersionsAssumption DEF TypeOK, FileTypes, ProcessTypes, WorldTypes, Polls
  <2>2. source \in Nat /\ source # 0 /\ \A q \in Workers : seen[q] \in Nat
    BY VersionsAssumption DEF TypeOK, ProcessTypes, WorldTypes
  <2>3. ASSUME NEW q \in Workers PROVE seen'[q] <= source'
    <3>1. seen' = [seen EXCEPT ![p] = 0] \/ seen' = [seen EXCEPT ![p] = source] \/ seen' = seen
      OBVIOUS
    <3>2. source' = source /\ seen[q] <= source /\ seen \in [Workers -> 0..Versions]
      BY DEF TypeOK, FileTypes, ProcessTypes, WorldTypes, Polls
    <3>3. QED BY <2>2, <3>1, <3>2
  <2>4. ASSUME NEW q \in Workers, pc'[q] = "rest", seen'[q] = source'
        PROVE  (Offered[source] \cap FirstPage \subseteq records[q])'
    BY <2>4 DEF TypeOK, FileTypes, ProcessTypes, WorldTypes, Polls
  <2>5. ASSUME NEW q \in Workers, pc'[q] \in {"assess", "store"}, seen'[q] = source'
        PROVE  (Offered[source] \subseteq records[q])'
    <3>1. /\ q = p => pc'[q] \notin {"assess", "store"} \/ seen'[q] = 0
          /\ q # p => pc'[q] = pc[q] /\ seen'[q] = seen[q] /\ records'[q] = records[q]
          /\ source' = source
      BY <2>2 DEF TypeOK, ProcessTypes
    <3>2. QED BY <2>5, <2>2, <3>1 DEF Polls
  <2>6. QED BY <2>1, <2>2, <2>3, <2>4, <2>5 DEF Polls
<1>3. Deliveries'
  BY WorkersAssumption DEF TypeOK, ProcessTypes, WorldTypes, Deliveries, Transactions, Places
<1>4. AttemptsLeft'
  BY AttemptsAssumption DEF TypeOK, FileTypes, AttemptsLeft, Deliveries, Statuses
<1>5. Kept
  BY DEF TypeOK, FileTypes, Kept, Deliveries, Statuses
<1>6. NothingIsHidden'
  BY <1>5, VersionsAssumption DEF TypeOK, FileTypes, WorldTypes, Kept, NothingIsHidden, Polls
<1>7. CompletedIsPublished'
  BY DEF TypeOK, FileTypes, WorldTypes, CompletedIsPublished, Deliveries, Statuses
<1>8. QED BY <1>1, <1>2, <1>3, <1>4, <1>5, <1>6, <1>7

\* The other pages do too, if the source has not changed.
LEMMA FetchRestKeeps ==
    ASSUME IInv, NEW p \in Workers, FetchRest(p)
    PROVE  IInv' /\ Kept
<1> USE DEF IInv, FetchRest, Outside, Goto, Fault, file, local, world
<1>1. TypeOK'
  <2>1. FileTypes'
    BY WorkersAssumption, VersionsAssumption, AttemptsAssumption
    DEF TypeOK, FileTypes, ProcessTypes, Deliveries, AttemptsLeft, Statuses, Transactions
  <2>2. ProcessTypes'
    <3>1. pc' \in [Workers -> Places]
      BY DEF TypeOK, FileTypes, ProcessTypes, WorldTypes, Places, Transactions
    <3>2. seen' \in [Workers -> 0..Versions]
      BY VersionsAssumption DEF TypeOK, FileTypes, ProcessTypes, WorldTypes
    <3>3. records' \in [Workers -> SUBSET Items]
      <4>1. Offered[source] \subseteq Items
        BY VersionsAssumption DEF TypeOK, WorldTypes
      <4>2. QED BY <4>1 DEF TypeOK, ProcessTypes
    <3>4. accepted' \in [Workers -> SUBSET Items]
      BY DEF TypeOK, FileTypes, ProcessTypes, WorldTypes
    <3>5. item' \in [Workers -> Items \cup {NoItem}]
      BY DEF TypeOK, FileTypes, ProcessTypes, WorldTypes, NoItem
    <3>6. beat' \in [Workers -> BOOLEAN]
      BY DEF TypeOK, FileTypes, ProcessTypes, WorldTypes
    <3>7. QED BY <3>1, <3>2, <3>3, <3>4, <3>5, <3>6 DEF ProcessTypes
  <2>3. WorldTypes'
    BY WorkersAssumption, VersionsAssumption, FaultsAssumption
    DEF TypeOK, WorldTypes, Deliveries, Transactions
  <2>4. QED BY <2>1, <2>2, <2>3 DEF TypeOK
<1>2. Polls'
  <2>1. checkpoint' <= source'
    BY VersionsAssumption DEF TypeOK, FileTypes, ProcessTypes, WorldTypes, Polls
  <2>2. source \in Nat /\ source # 0 /\ \A q \in Workers : seen[q] \in Nat
    BY VersionsAssumption DEF TypeOK, ProcessTypes, WorldTypes
  <2>3. ASSUME NEW q \in Workers PROVE seen'[q] <= source'
    BY DEF TypeOK, FileTypes, ProcessTypes, WorldTypes, Polls
  <2>4. ASSUME NEW q \in Workers, pc'[q] = "rest", seen'[q] = source'
        PROVE  (Offered[source] \cap FirstPage \subseteq records[q])'
    BY <2>4 DEF TypeOK, FileTypes, ProcessTypes, WorldTypes, Polls
  <2>5. ASSUME NEW q \in Workers, pc'[q] \in {"assess", "store"}, seen'[q] = source'
        PROVE  (Offered[source] \subseteq records[q])'
    <3>1. /\ q = p => /\ Offered[source] \cap FirstPage \subseteq records[q]
                      /\ records'[q] = records[q] \cup (Offered[source] \ FirstPage)
          /\ q # p => pc'[q] = pc[q] /\ records'[q] = records[q]
          /\ source' = source /\ seen' = seen
      BY <2>5 DEF TypeOK, ProcessTypes, Polls
    <3>2. QED BY <2>5, <3>1 DEF Polls
  <2>6. QED BY <2>1, <2>2, <2>3, <2>4, <2>5 DEF Polls
<1>3. Deliveries'
  BY WorkersAssumption DEF TypeOK, ProcessTypes, WorldTypes, Deliveries, Transactions, Places
<1>4. AttemptsLeft'
  BY AttemptsAssumption DEF TypeOK, FileTypes, AttemptsLeft, Deliveries, Statuses
<1>5. Kept
  BY DEF TypeOK, FileTypes, Kept, Deliveries, Statuses
<1>6. NothingIsHidden'
  BY <1>5, VersionsAssumption DEF TypeOK, FileTypes, WorldTypes, Kept, NothingIsHidden, Polls
<1>7. CompletedIsPublished'
  BY DEF TypeOK, FileTypes, WorldTypes, CompletedIsPublished, Deliveries, Statuses
<1>8. QED BY <1>1, <1>2, <1>3, <1>4, <1>5, <1>6, <1>7

\* What passes is part of what was read.
LEMMA AssessKeeps ==
    ASSUME IInv, NEW p \in Workers, Assess(p)
    PROVE  IInv' /\ Kept
<1> USE DEF IInv, Assess, Outside, Goto, Fault, file, local, world
<1>1. TypeOK'
  <2>1. FileTypes'
    BY WorkersAssumption, VersionsAssumption, AttemptsAssumption
    DEF TypeOK, FileTypes, ProcessTypes, Deliveries, AttemptsLeft, Statuses, Transactions
  <2>2. ProcessTypes'
    <3>1. pc' \in [Workers -> Places]
      BY DEF TypeOK, FileTypes, ProcessTypes, WorldTypes, Places, Transactions
    <3>2. seen' \in [Workers -> 0..Versions]
      BY VersionsAssumption DEF TypeOK, FileTypes, ProcessTypes, WorldTypes
    <3>3. records' \in [Workers -> SUBSET Items]
      BY VersionsAssumption, PagesAssumption DEF TypeOK, FileTypes, ProcessTypes, WorldTypes
    <3>4. accepted' \in [Workers -> SUBSET Items]
      BY DEF TypeOK, FileTypes, ProcessTypes, WorldTypes
    <3>5. item' \in [Workers -> Items \cup {NoItem}]
      BY DEF TypeOK, FileTypes, ProcessTypes, WorldTypes, NoItem
    <3>6. beat' \in [Workers -> BOOLEAN]
      BY DEF TypeOK, FileTypes, ProcessTypes, WorldTypes
    <3>7. QED BY <3>1, <3>2, <3>3, <3>4, <3>5, <3>6 DEF ProcessTypes
  <2>3. WorldTypes'
    BY WorkersAssumption, VersionsAssumption, FaultsAssumption
    DEF TypeOK, WorldTypes, Deliveries, Transactions
  <2>4. QED BY <2>1, <2>2, <2>3 DEF TypeOK
<1>2. Polls'
  <2>1. checkpoint' <= source'
    BY VersionsAssumption DEF TypeOK, FileTypes, ProcessTypes, WorldTypes, Polls
  <2>2. source \in Nat /\ source # 0 /\ \A q \in Workers : seen[q] \in Nat
    BY VersionsAssumption DEF TypeOK, ProcessTypes, WorldTypes
  <2>3. ASSUME NEW q \in Workers PROVE seen'[q] <= source'
    BY DEF TypeOK, FileTypes, ProcessTypes, WorldTypes, Polls
  <2>4. ASSUME NEW q \in Workers, pc'[q] = "rest", seen'[q] = source'
        PROVE  (Offered[source] \cap FirstPage \subseteq records[q])'
    BY <2>4 DEF TypeOK, FileTypes, ProcessTypes, WorldTypes, Polls
  <2>5. ASSUME NEW q \in Workers, pc'[q] \in {"assess", "store"}, seen'[q] = source'
        PROVE  (Offered[source] \subseteq records[q])'
    BY <2>5, VersionsAssumption DEF TypeOK, FileTypes, ProcessTypes, WorldTypes, Polls
  <2>6. QED BY <2>1, <2>2, <2>3, <2>4, <2>5 DEF Polls
<1>3. Deliveries'
  BY WorkersAssumption DEF TypeOK, ProcessTypes, WorldTypes, Deliveries, Transactions, Places
<1>4. AttemptsLeft'
  BY AttemptsAssumption DEF TypeOK, FileTypes, AttemptsLeft, Deliveries, Statuses
<1>5. Kept
  BY DEF TypeOK, FileTypes, Kept, Deliveries, Statuses
<1>6. NothingIsHidden'
  BY <1>5, VersionsAssumption DEF TypeOK, FileTypes, WorldTypes, Kept, NothingIsHidden, Polls
<1>7. CompletedIsPublished'
  BY DEF TypeOK, FileTypes, WorldTypes, CompletedIsPublished, Deliveries, Statuses
<1>8. QED BY <1>1, <1>2, <1>3, <1>4, <1>5, <1>6, <1>7

\* The checkpoint moves only with all records of its state in the queue.
LEMMA StoreKeeps ==
    ASSUME IInv, NEW p \in Workers, Store(p)
    PROVE  IInv' /\ Kept
<1> USE DEF IInv, Store, Commit, Enqueued, Advances, OnError, Goto, Fault, file, local, world
<1>1. TypeOK'
  <2>1. FileTypes'
    <3>1. status' \in [Items -> Statuses]
      BY DEF TypeOK, FileTypes, ProcessTypes, Deliveries, Statuses, Transactions
    <3>2. owner' \in [Items -> Workers \cup {Nobody}]
      BY DEF TypeOK, FileTypes, ProcessTypes, Deliveries, Statuses, Transactions
    <3>3. attempts' \in [Items -> 0..MaxAttempts]
      BY AttemptsAssumption DEF TypeOK, FileTypes, ProcessTypes, Deliveries, Statuses, Transactions, AttemptsLeft
    <3>4. due' \in [Items -> BOOLEAN]
      BY DEF TypeOK, FileTypes, ProcessTypes, Deliveries, Statuses, Transactions
    <3>5. checkpoint' \in 0..Versions
      BY DEF TypeOK, FileTypes, ProcessTypes, Deliveries, Statuses, Transactions
    <3>6. QED BY <3>1, <3>2, <3>3, <3>4, <3>5 DEF FileTypes
  <2>2. ProcessTypes'
    <3>1. pc' \in [Workers -> Places]
      BY DEF TypeOK, FileTypes, ProcessTypes, WorldTypes, Places, Transactions
    <3>2. seen' \in [Workers -> 0..Versions]
      BY VersionsAssumption DEF TypeOK, FileTypes, ProcessTypes, WorldTypes
    <3>3. records' \in [Workers -> SUBSET Items]
      BY VersionsAssumption, PagesAssumption DEF TypeOK, FileTypes, ProcessTypes, WorldTypes
    <3>4. accepted' \in [Workers -> SUBSET Items]
      BY DEF TypeOK, FileTypes, ProcessTypes, WorldTypes
    <3>5. item' \in [Workers -> Items \cup {NoItem}]
      BY DEF TypeOK, FileTypes, ProcessTypes, WorldTypes, NoItem
    <3>6. beat' \in [Workers -> BOOLEAN]
      BY DEF TypeOK, FileTypes, ProcessTypes, WorldTypes
    <3>7. QED BY <3>1, <3>2, <3>3, <3>4, <3>5, <3>6 DEF ProcessTypes
  <2>3. WorldTypes'
    BY WorkersAssumption, VersionsAssumption, FaultsAssumption
    DEF TypeOK, WorldTypes, Deliveries, Transactions
  <2>4. QED BY <2>1, <2>2, <2>3 DEF TypeOK
<1>2. Polls'
  <2>1. checkpoint' <= source'
    BY VersionsAssumption DEF TypeOK, FileTypes, ProcessTypes, WorldTypes, Polls
  <2>2. source \in Nat /\ source # 0 /\ \A q \in Workers : seen[q] \in Nat
    BY VersionsAssumption DEF TypeOK, ProcessTypes, WorldTypes
  <2>3. ASSUME NEW q \in Workers PROVE seen'[q] <= source'
    <3>1. seen' = [seen EXCEPT ![p] = 0] \/ seen' = seen
      OBVIOUS
    <3>2. source' = source /\ seen[q] <= source /\ seen \in [Workers -> 0..Versions]
      BY DEF TypeOK, FileTypes, ProcessTypes, WorldTypes, Polls
    <3>3. QED BY <2>2, <3>1, <3>2
  <2>4. ASSUME NEW q \in Workers, pc'[q] = "rest", seen'[q] = source'
        PROVE  (Offered[source] \cap FirstPage \subseteq records[q])'
    BY <2>4 DEF TypeOK, FileTypes, ProcessTypes, WorldTypes, Polls
  <2>5. ASSUME NEW q \in Workers, pc'[q] \in {"assess", "store"}, seen'[q] = source'
        PROVE  (Offered[source] \subseteq records[q])'
    BY <2>5, VersionsAssumption DEF TypeOK, FileTypes, ProcessTypes, WorldTypes, Polls
  <2>6. QED BY <2>1, <2>2, <2>3, <2>4, <2>5 DEF Polls
<1>3. Deliveries'
  BY WorkersAssumption DEF TypeOK, ProcessTypes, WorldTypes, Deliveries, Transactions, Places
<1>4. AttemptsLeft'
  BY AttemptsAssumption DEF TypeOK, FileTypes, AttemptsLeft, Deliveries, Statuses
<1>5. Kept
  BY DEF TypeOK, FileTypes, Kept, Deliveries, Statuses
<1>6. NothingIsHidden'
  BY <1>5, VersionsAssumption DEF TypeOK, FileTypes, WorldTypes, Kept, NothingIsHidden, Polls
<1>7. CompletedIsPublished'
  BY DEF TypeOK, FileTypes, WorldTypes, CompletedIsPublished, Deliveries, Statuses
<1>8. QED BY <1>1, <1>2, <1>3, <1>4, <1>5, <1>6, <1>7

\* Claims are ready items or expired leases.
LEMMA ClaimKeeps ==
    ASSUME IInv, NEW p \in Workers, Claim(p)
    PROVE  IInv' /\ Kept
<1> USE DEF IInv, Claim, Commit, Expired, OnError, Goto, Fault, file, local, world
<1>1. TypeOK'
  <2>1. FileTypes'
    <3>1. status' \in [Items -> Statuses]
      BY DEF TypeOK, FileTypes, ProcessTypes, Deliveries, Statuses, Transactions
    <3>2. owner' \in [Items -> Workers \cup {Nobody}]
      BY DEF TypeOK, FileTypes, ProcessTypes, Deliveries, Statuses, Transactions
    <3>3. attempts' \in [Items -> 0..MaxAttempts]
      BY AttemptsAssumption DEF TypeOK, FileTypes, ProcessTypes, Deliveries, Statuses, Transactions, AttemptsLeft
    <3>4. due' \in [Items -> BOOLEAN]
      BY DEF TypeOK, FileTypes, ProcessTypes, Deliveries, Statuses, Transactions
    <3>5. checkpoint' \in 0..Versions
      BY DEF TypeOK, FileTypes, ProcessTypes, Deliveries, Statuses, Transactions
    <3>6. QED BY <3>1, <3>2, <3>3, <3>4, <3>5 DEF FileTypes
  <2>2. ProcessTypes'
    <3>1. pc' \in [Workers -> Places]
      BY DEF TypeOK, FileTypes, ProcessTypes, WorldTypes, Places, Transactions
    <3>2. seen' \in [Workers -> 0..Versions]
      BY VersionsAssumption DEF TypeOK, FileTypes, ProcessTypes, WorldTypes
    <3>3. records' \in [Workers -> SUBSET Items]
      BY VersionsAssumption, PagesAssumption DEF TypeOK, FileTypes, ProcessTypes, WorldTypes
    <3>4. accepted' \in [Workers -> SUBSET Items]
      BY DEF TypeOK, FileTypes, ProcessTypes, WorldTypes
    <3>5. item' \in [Workers -> Items \cup {NoItem}]
      BY DEF TypeOK, FileTypes, ProcessTypes, WorldTypes, NoItem
    <3>6. beat' \in [Workers -> BOOLEAN]
      BY DEF TypeOK, FileTypes, ProcessTypes, WorldTypes
    <3>7. QED BY <3>1, <3>2, <3>3, <3>4, <3>5, <3>6 DEF ProcessTypes
  <2>3. WorldTypes'
    BY WorkersAssumption, VersionsAssumption, FaultsAssumption
    DEF TypeOK, WorldTypes, Deliveries, Transactions
  <2>4. QED BY <2>1, <2>2, <2>3 DEF TypeOK
<1>2. Polls'
  <2>1. checkpoint' <= source'
    BY VersionsAssumption DEF TypeOK, FileTypes, ProcessTypes, WorldTypes, Polls
  <2>2. source \in Nat /\ source # 0 /\ \A q \in Workers : seen[q] \in Nat
    BY VersionsAssumption DEF TypeOK, ProcessTypes, WorldTypes
  <2>3. ASSUME NEW q \in Workers PROVE seen'[q] <= source'
    BY DEF TypeOK, FileTypes, ProcessTypes, WorldTypes, Polls
  <2>4. ASSUME NEW q \in Workers, pc'[q] = "rest", seen'[q] = source'
        PROVE  (Offered[source] \cap FirstPage \subseteq records[q])'
    BY <2>4 DEF TypeOK, FileTypes, ProcessTypes, WorldTypes, Polls
  <2>5. ASSUME NEW q \in Workers, pc'[q] \in {"assess", "store"}, seen'[q] = source'
        PROVE  (Offered[source] \subseteq records[q])'
    <3>1. /\ q = p => pc'[q] \notin {"assess", "store"}
          /\ q # p => pc'[q] = pc[q] /\ seen'[q] = seen[q] /\ records'[q] = records[q]
          /\ source' = source
      BY <2>2 DEF TypeOK, ProcessTypes
    <3>2. QED BY <2>5, <2>2, <3>1 DEF Polls
  <2>6. QED BY <2>1, <2>2, <2>3, <2>4, <2>5 DEF Polls
<1>3. Deliveries'
  <2>1. SUFFICES ASSUME NEW q \in Workers
                 PROVE  (/\ pc[q] \in {"check", "publish", "ack", "nack"} => item[q] \in Items
                         /\ beat[q] => pc[q] \in {"check", "publish"}
                         /\ pc[q] = "ack" => item[q] \in published)'
    BY DEF Deliveries
  <2>2. /\ ~beat[p]
        /\ q # p => pc'[q] = pc[q] /\ item'[q] = item[q] /\ beat'[q] = beat[q]
        /\ published' = published
    BY DEF TypeOK, ProcessTypes, Deliveries
  <2>3. /\ pc'[p] \in {"read", "down", "check"}
        /\ pc'[p] = "check" => item'[p] \in Items
    BY DEF TypeOK, ProcessTypes, Deliveries
  <2>4. pc'[p] # "check" => ~beat'[p]
    BY <2>2 DEF TypeOK, ProcessTypes, Deliveries
  <2>5. CASE q = p
    BY <2>3, <2>4, <2>5
  <2>6. CASE q # p
    BY <2>2, <2>6 DEF Deliveries
  <2>7. QED BY <2>5, <2>6
<1>4. AttemptsLeft'
  BY AttemptsAssumption DEF TypeOK, FileTypes, AttemptsLeft, Deliveries, Statuses
<1>5. Kept
  BY DEF TypeOK, FileTypes, Kept, Deliveries, Statuses
<1>6. NothingIsHidden'
  BY <1>5, VersionsAssumption DEF TypeOK, FileTypes, WorldTypes, Kept, NothingIsHidden, Polls
<1>7. CompletedIsPublished'
  BY DEF TypeOK, FileTypes, WorldTypes, CompletedIsPublished, Deliveries, Statuses
<1>8. QED BY <1>1, <1>2, <1>3, <1>4, <1>5, <1>6, <1>7

\* Nothing in the file changes.
LEMMA CheckKeeps ==
    ASSUME IInv, NEW p \in Workers, Check(p)
    PROVE  IInv' /\ Kept
<1> USE DEF IInv, Check, Goto, Fault, file, local, world
<1>1. TypeOK'
  <2>1. FileTypes'
    BY WorkersAssumption, VersionsAssumption, AttemptsAssumption
    DEF TypeOK, FileTypes, ProcessTypes, Deliveries, AttemptsLeft, Statuses, Transactions
  <2>2. ProcessTypes'
    BY VersionsAssumption, PagesAssumption
    DEF TypeOK, FileTypes, ProcessTypes, WorldTypes, Places, Transactions, NoItem
  <2>3. WorldTypes'
    BY WorkersAssumption, VersionsAssumption, FaultsAssumption
    DEF TypeOK, WorldTypes, Deliveries, Transactions
  <2>4. QED BY <2>1, <2>2, <2>3 DEF TypeOK
<1>2. Polls'
  BY VersionsAssumption
  DEF TypeOK, FileTypes, ProcessTypes, WorldTypes, Polls, Transactions, Places
<1>3. Deliveries'
  BY WorkersAssumption DEF TypeOK, ProcessTypes, WorldTypes, Deliveries, Transactions, Places
<1>4. AttemptsLeft'
  BY AttemptsAssumption DEF TypeOK, FileTypes, AttemptsLeft, Deliveries, Statuses
<1>5. Kept
  BY DEF TypeOK, FileTypes, Kept, Deliveries, Statuses
<1>6. NothingIsHidden'
  BY <1>5, VersionsAssumption DEF TypeOK, FileTypes, WorldTypes, Kept, NothingIsHidden, Polls
<1>7. CompletedIsPublished'
  BY DEF TypeOK, FileTypes, WorldTypes, CompletedIsPublished, Deliveries, Statuses
<1>8. QED BY <1>1, <1>2, <1>3, <1>4, <1>5, <1>6, <1>7

\* Only the time of a lease changes.
LEMMA HeartbeatKeeps ==
    ASSUME IInv, NEW p \in Workers, Heartbeat(p)
    PROVE  IInv' /\ Kept
<1> USE DEF IInv, Heartbeat, Met, Holds, Fault, file, local, world
<1>1. TypeOK'
  <2>1. FileTypes'
    BY WorkersAssumption, VersionsAssumption, AttemptsAssumption
    DEF TypeOK, FileTypes, ProcessTypes, Deliveries, AttemptsLeft, Statuses, Transactions
  <2>2. ProcessTypes'
    BY VersionsAssumption, PagesAssumption
    DEF TypeOK, FileTypes, ProcessTypes, WorldTypes, Places, Transactions, NoItem
  <2>3. WorldTypes'
    BY WorkersAssumption, VersionsAssumption, FaultsAssumption
    DEF TypeOK, WorldTypes, Deliveries, Transactions
  <2>4. QED BY <2>1, <2>2, <2>3 DEF TypeOK
<1>2. Polls'
  BY VersionsAssumption
  DEF TypeOK, FileTypes, ProcessTypes, WorldTypes, Polls, Transactions, Places
<1>3. Deliveries'
  BY WorkersAssumption DEF TypeOK, ProcessTypes, WorldTypes, Deliveries, Transactions, Places
<1>4. AttemptsLeft'
  BY AttemptsAssumption DEF TypeOK, FileTypes, AttemptsLeft, Deliveries, Statuses
<1>5. Kept
  BY DEF TypeOK, FileTypes, Kept, Deliveries, Statuses
<1>6. NothingIsHidden'
  BY <1>5, VersionsAssumption DEF TypeOK, FileTypes, WorldTypes, Kept, NothingIsHidden, Polls
<1>7. CompletedIsPublished'
  BY DEF TypeOK, FileTypes, WorldTypes, CompletedIsPublished, Deliveries, Statuses
<1>8. QED BY <1>1, <1>2, <1>3, <1>4, <1>5, <1>6, <1>7

\* An acknowledgement follows only what was published.
LEMMA PublishKeeps ==
    ASSUME IInv, NEW p \in Workers, Publish(p)
    PROVE  IInv' /\ Kept
<1> USE DEF IInv, Publish, Goto, Fault, file, local, world
<1>1. TypeOK'
  <2>1. FileTypes'
    BY WorkersAssumption, VersionsAssumption, AttemptsAssumption
    DEF TypeOK, FileTypes, ProcessTypes, Deliveries, AttemptsLeft, Statuses, Transactions
  <2>2. ProcessTypes'
    BY VersionsAssumption, PagesAssumption
    DEF TypeOK, FileTypes, ProcessTypes, WorldTypes, Places, Transactions, NoItem
  <2>3. WorldTypes'
    BY WorkersAssumption, VersionsAssumption, FaultsAssumption
    DEF TypeOK, WorldTypes, Deliveries, Transactions
  <2>4. QED BY <2>1, <2>2, <2>3 DEF TypeOK
<1>2. Polls'
  BY VersionsAssumption
  DEF TypeOK, FileTypes, ProcessTypes, WorldTypes, Polls, Transactions, Places
<1>3. Deliveries'
  BY WorkersAssumption DEF TypeOK, ProcessTypes, WorldTypes, Deliveries, Transactions, Places
<1>4. AttemptsLeft'
  BY AttemptsAssumption DEF TypeOK, FileTypes, AttemptsLeft, Deliveries, Statuses
<1>5. Kept
  BY DEF TypeOK, FileTypes, Kept, Deliveries, Statuses
<1>6. NothingIsHidden'
  BY <1>5, VersionsAssumption DEF TypeOK, FileTypes, WorldTypes, Kept, NothingIsHidden, Polls
<1>7. CompletedIsPublished'
  BY DEF TypeOK, FileTypes, WorldTypes, CompletedIsPublished, Deliveries, Statuses
<1>8. QED BY <1>1, <1>2, <1>3, <1>4, <1>5, <1>6, <1>7

\* The item was published.
LEMMA AckKeeps ==
    ASSUME IInv, NEW p \in Workers, Ack(p)
    PROVE  IInv' /\ Kept
<1> USE DEF IInv, Ack, Commit, Refuse, Holds, OnError, Goto, Fault, file, local, world
<1>1. TypeOK'
  <2>1. FileTypes'
    <3>1. status' \in [Items -> Statuses]
      BY DEF TypeOK, FileTypes, ProcessTypes, Deliveries, Statuses, Transactions
    <3>2. owner' \in [Items -> Workers \cup {Nobody}]
      BY DEF TypeOK, FileTypes, ProcessTypes, Deliveries, Statuses, Transactions
    <3>3. attempts' \in [Items -> 0..MaxAttempts]
      BY AttemptsAssumption DEF TypeOK, FileTypes, ProcessTypes, Deliveries, Statuses, Transactions, AttemptsLeft
    <3>4. due' \in [Items -> BOOLEAN]
      BY DEF TypeOK, FileTypes, ProcessTypes, Deliveries, Statuses, Transactions
    <3>5. checkpoint' \in 0..Versions
      BY DEF TypeOK, FileTypes, ProcessTypes, Deliveries, Statuses, Transactions
    <3>6. QED BY <3>1, <3>2, <3>3, <3>4, <3>5 DEF FileTypes
  <2>2. ProcessTypes'
    BY VersionsAssumption, PagesAssumption
    DEF TypeOK, FileTypes, ProcessTypes, WorldTypes, Places, Transactions, NoItem
  <2>3. WorldTypes'
    BY WorkersAssumption, VersionsAssumption, FaultsAssumption
    DEF TypeOK, WorldTypes, Deliveries, Transactions
  <2>4. QED BY <2>1, <2>2, <2>3 DEF TypeOK
<1>2. Polls'
  <2>1. checkpoint' <= source'
    BY VersionsAssumption DEF TypeOK, FileTypes, ProcessTypes, WorldTypes, Polls
  <2>2. source \in Nat /\ source # 0 /\ \A q \in Workers : seen[q] \in Nat
    BY VersionsAssumption DEF TypeOK, ProcessTypes, WorldTypes
  <2>3. ASSUME NEW q \in Workers PROVE seen'[q] <= source'
    BY DEF TypeOK, FileTypes, ProcessTypes, WorldTypes, Polls
  <2>4. ASSUME NEW q \in Workers, pc'[q] = "rest", seen'[q] = source'
        PROVE  (Offered[source] \cap FirstPage \subseteq records[q])'
    BY <2>4 DEF TypeOK, FileTypes, ProcessTypes, WorldTypes, Polls
  <2>5. ASSUME NEW q \in Workers, pc'[q] \in {"assess", "store"}, seen'[q] = source'
        PROVE  (Offered[source] \subseteq records[q])'
    <3>1. /\ q = p => pc'[q] \notin {"assess", "store"}
          /\ q # p => pc'[q] = pc[q] /\ seen'[q] = seen[q] /\ records'[q] = records[q]
          /\ source' = source
      BY <2>2 DEF TypeOK, ProcessTypes
    <3>2. QED BY <2>5, <2>2, <3>1 DEF Polls
  <2>6. QED BY <2>1, <2>2, <2>3, <2>4, <2>5 DEF Polls
<1>3. Deliveries'
  BY WorkersAssumption DEF TypeOK, ProcessTypes, WorldTypes, Deliveries, Transactions, Places
<1>4. AttemptsLeft'
  BY AttemptsAssumption DEF TypeOK, FileTypes, AttemptsLeft, Deliveries, Statuses
<1>5. Kept
  BY DEF TypeOK, FileTypes, Kept, Deliveries, Statuses
<1>6. NothingIsHidden'
  BY <1>5, VersionsAssumption DEF TypeOK, FileTypes, WorldTypes, Kept, NothingIsHidden, Polls
<1>7. CompletedIsPublished'
  BY DEF TypeOK, FileTypes, WorldTypes, CompletedIsPublished, Deliveries, Statuses
<1>8. QED BY <1>1, <1>2, <1>3, <1>4, <1>5, <1>6, <1>7

\* The last attempt makes a dead letter.
LEMMA NackKeeps ==
    ASSUME IInv, NEW p \in Workers, Nack(p)
    PROVE  IInv' /\ Kept
<1> USE DEF IInv, Nack, Commit, Refuse, Holds, GivenUp, OnError, Goto, Fault, file, local, world
<1>1. TypeOK'
  <2>1. FileTypes'
    <3>1. status' \in [Items -> Statuses]
      BY DEF TypeOK, FileTypes, ProcessTypes, Deliveries, Statuses, Transactions
    <3>2. owner' \in [Items -> Workers \cup {Nobody}]
      BY DEF TypeOK, FileTypes, ProcessTypes, Deliveries, Statuses, Transactions
    <3>3. attempts' \in [Items -> 0..MaxAttempts]
      BY AttemptsAssumption DEF TypeOK, FileTypes, ProcessTypes, Deliveries, Statuses, Transactions, AttemptsLeft
    <3>4. due' \in [Items -> BOOLEAN]
      BY DEF TypeOK, FileTypes, ProcessTypes, Deliveries, Statuses, Transactions
    <3>5. checkpoint' \in 0..Versions
      BY DEF TypeOK, FileTypes, ProcessTypes, Deliveries, Statuses, Transactions
    <3>6. QED BY <3>1, <3>2, <3>3, <3>4, <3>5 DEF FileTypes
  <2>2. ProcessTypes'
    BY VersionsAssumption, PagesAssumption
    DEF TypeOK, FileTypes, ProcessTypes, WorldTypes, Places, Transactions, NoItem
  <2>3. WorldTypes'
    BY WorkersAssumption, VersionsAssumption, FaultsAssumption
    DEF TypeOK, WorldTypes, Deliveries, Transactions
  <2>4. QED BY <2>1, <2>2, <2>3 DEF TypeOK
<1>2. Polls'
  <2>1. checkpoint' <= source'
    BY VersionsAssumption DEF TypeOK, FileTypes, ProcessTypes, WorldTypes, Polls
  <2>2. source \in Nat /\ source # 0 /\ \A q \in Workers : seen[q] \in Nat
    BY VersionsAssumption DEF TypeOK, ProcessTypes, WorldTypes
  <2>3. ASSUME NEW q \in Workers PROVE seen'[q] <= source'
    BY DEF TypeOK, FileTypes, ProcessTypes, WorldTypes, Polls
  <2>4. ASSUME NEW q \in Workers, pc'[q] = "rest", seen'[q] = source'
        PROVE  (Offered[source] \cap FirstPage \subseteq records[q])'
    BY <2>4 DEF TypeOK, FileTypes, ProcessTypes, WorldTypes, Polls
  <2>5. ASSUME NEW q \in Workers, pc'[q] \in {"assess", "store"}, seen'[q] = source'
        PROVE  (Offered[source] \subseteq records[q])'
    <3>1. /\ q = p => pc'[q] \notin {"assess", "store"}
          /\ q # p => pc'[q] = pc[q] /\ seen'[q] = seen[q] /\ records'[q] = records[q]
          /\ source' = source
      BY <2>2 DEF TypeOK, ProcessTypes
    <3>2. QED BY <2>5, <2>2, <3>1 DEF Polls
  <2>6. QED BY <2>1, <2>2, <2>3, <2>4, <2>5 DEF Polls
<1>3. Deliveries'
  BY WorkersAssumption DEF TypeOK, ProcessTypes, WorldTypes, Deliveries, Transactions, Places
<1>4. AttemptsLeft'
  BY AttemptsAssumption DEF TypeOK, FileTypes, AttemptsLeft, Deliveries, Statuses
<1>5. Kept
  BY DEF TypeOK, FileTypes, Kept, Deliveries, Statuses
<1>6. NothingIsHidden'
  BY <1>5, VersionsAssumption DEF TypeOK, FileTypes, WorldTypes, Kept, NothingIsHidden, Polls
<1>7. CompletedIsPublished'
  BY DEF TypeOK, FileTypes, WorldTypes, CompletedIsPublished, Deliveries, Statuses
<1>8. QED BY <1>1, <1>2, <1>3, <1>4, <1>5, <1>6, <1>7

\* A process that is gone has nothing.
LEMMA CrashKeeps ==
    ASSUME IInv, NEW p \in Workers, Crash(p)
    PROVE  IInv' /\ Kept
<1> USE DEF IInv, Crash, Forget, Goto, Fault, file, local, world
<1>1. TypeOK'
  <2>1. FileTypes'
    BY WorkersAssumption, VersionsAssumption, AttemptsAssumption
    DEF TypeOK, FileTypes, ProcessTypes, Deliveries, AttemptsLeft, Statuses, Transactions
  <2>2. ProcessTypes'
    BY VersionsAssumption, PagesAssumption
    DEF TypeOK, FileTypes, ProcessTypes, WorldTypes, Places, Transactions, NoItem
  <2>3. WorldTypes'
    BY WorkersAssumption, VersionsAssumption, FaultsAssumption
    DEF TypeOK, WorldTypes, Deliveries, Transactions
  <2>4. QED BY <2>1, <2>2, <2>3 DEF TypeOK
<1>2. Polls'
  BY VersionsAssumption
  DEF TypeOK, FileTypes, ProcessTypes, WorldTypes, Polls, Transactions, Places
<1>3. Deliveries'
  BY WorkersAssumption DEF TypeOK, ProcessTypes, WorldTypes, Deliveries, Transactions, Places
<1>4. AttemptsLeft'
  BY AttemptsAssumption DEF TypeOK, FileTypes, AttemptsLeft, Deliveries, Statuses
<1>5. Kept
  BY DEF TypeOK, FileTypes, Kept, Deliveries, Statuses
<1>6. NothingIsHidden'
  BY <1>5, VersionsAssumption DEF TypeOK, FileTypes, WorldTypes, Kept, NothingIsHidden, Polls
<1>7. CompletedIsPublished'
  BY DEF TypeOK, FileTypes, WorldTypes, CompletedIsPublished, Deliveries, Statuses
<1>8. QED BY <1>1, <1>2, <1>3, <1>4, <1>5, <1>6, <1>7

\* A new process has nothing yet.
LEMMA StartKeeps ==
    ASSUME IInv, NEW p \in Workers, Start(p)
    PROVE  IInv' /\ Kept
<1> USE DEF IInv, Start, Forget, Goto, Fault, file, local, world
<1>1. TypeOK'
  <2>1. FileTypes'
    BY WorkersAssumption, VersionsAssumption, AttemptsAssumption
    DEF TypeOK, FileTypes, ProcessTypes, Deliveries, AttemptsLeft, Statuses, Transactions
  <2>2. ProcessTypes'
    BY VersionsAssumption, PagesAssumption
    DEF TypeOK, FileTypes, ProcessTypes, WorldTypes, Places, Transactions, NoItem
  <2>3. WorldTypes'
    BY WorkersAssumption, VersionsAssumption, FaultsAssumption
    DEF TypeOK, WorldTypes, Deliveries, Transactions
  <2>4. QED BY <2>1, <2>2, <2>3 DEF TypeOK
<1>2. Polls'
  BY VersionsAssumption
  DEF TypeOK, FileTypes, ProcessTypes, WorldTypes, Polls, Transactions, Places
<1>3. Deliveries'
  BY WorkersAssumption DEF TypeOK, ProcessTypes, WorldTypes, Deliveries, Transactions, Places
<1>4. AttemptsLeft'
  BY AttemptsAssumption DEF TypeOK, FileTypes, AttemptsLeft, Deliveries, Statuses
<1>5. Kept
  BY DEF TypeOK, FileTypes, Kept, Deliveries, Statuses
<1>6. NothingIsHidden'
  BY <1>5, VersionsAssumption DEF TypeOK, FileTypes, WorldTypes, Kept, NothingIsHidden, Polls
<1>7. CompletedIsPublished'
  BY DEF TypeOK, FileTypes, WorldTypes, CompletedIsPublished, Deliveries, Statuses
<1>8. QED BY <1>1, <1>2, <1>3, <1>4, <1>5, <1>6, <1>7

\* Only a time changes.
LEMMA TimeKeeps ==
    ASSUME IInv, NEW i \in Items, TimePasses(i)
    PROVE  IInv' /\ Kept
<1> USE DEF IInv, TimePasses, file, local, world
<1>1. TypeOK'
  <2>1. FileTypes'
    BY WorkersAssumption, VersionsAssumption, AttemptsAssumption
    DEF TypeOK, FileTypes, ProcessTypes, Deliveries, AttemptsLeft, Statuses, Transactions
  <2>2. ProcessTypes'
    BY VersionsAssumption, PagesAssumption
    DEF TypeOK, FileTypes, ProcessTypes, WorldTypes, Places, Transactions, NoItem
  <2>3. WorldTypes'
    BY WorkersAssumption, VersionsAssumption, FaultsAssumption
    DEF TypeOK, WorldTypes, Deliveries, Transactions
  <2>4. QED BY <2>1, <2>2, <2>3 DEF TypeOK
<1>2. Polls'
  BY VersionsAssumption
  DEF TypeOK, FileTypes, ProcessTypes, WorldTypes, Polls, Transactions, Places
<1>3. Deliveries'
  BY WorkersAssumption DEF TypeOK, ProcessTypes, WorldTypes, Deliveries, Transactions, Places
<1>4. AttemptsLeft'
  BY AttemptsAssumption DEF TypeOK, FileTypes, AttemptsLeft, Deliveries, Statuses
<1>5. Kept
  BY DEF TypeOK, FileTypes, Kept, Deliveries, Statuses
<1>6. NothingIsHidden'
  BY <1>5, VersionsAssumption DEF TypeOK, FileTypes, WorldTypes, Kept, NothingIsHidden, Polls
<1>7. CompletedIsPublished'
  BY DEF TypeOK, FileTypes, WorldTypes, CompletedIsPublished, Deliveries, Statuses
<1>8. QED BY <1>1, <1>2, <1>3, <1>4, <1>5, <1>6, <1>7

\* Only an approval changes.
LEMMA ApprovalKeeps ==
    ASSUME IInv, NEW i \in Items, ApprovalChanges(i)
    PROVE  IInv' /\ Kept
<1> USE DEF IInv, ApprovalChanges, file, local, world
<1>1. TypeOK'
  <2>1. FileTypes'
    BY WorkersAssumption, VersionsAssumption, AttemptsAssumption
    DEF TypeOK, FileTypes, ProcessTypes, Deliveries, AttemptsLeft, Statuses, Transactions
  <2>2. ProcessTypes'
    BY VersionsAssumption, PagesAssumption
    DEF TypeOK, FileTypes, ProcessTypes, WorldTypes, Places, Transactions, NoItem
  <2>3. WorldTypes'
    BY WorkersAssumption, VersionsAssumption, FaultsAssumption
    DEF TypeOK, WorldTypes, Deliveries, Transactions
  <2>4. QED BY <2>1, <2>2, <2>3 DEF TypeOK
<1>2. Polls'
  BY VersionsAssumption
  DEF TypeOK, FileTypes, ProcessTypes, WorldTypes, Polls, Transactions, Places
<1>3. Deliveries'
  BY WorkersAssumption DEF TypeOK, ProcessTypes, WorldTypes, Deliveries, Transactions, Places
<1>4. AttemptsLeft'
  BY AttemptsAssumption DEF TypeOK, FileTypes, AttemptsLeft, Deliveries, Statuses
<1>5. Kept
  BY DEF TypeOK, FileTypes, Kept, Deliveries, Statuses
<1>6. NothingIsHidden'
  BY <1>5, VersionsAssumption DEF TypeOK, FileTypes, WorldTypes, Kept, NothingIsHidden, Polls
<1>7. CompletedIsPublished'
  BY DEF TypeOK, FileTypes, WorldTypes, CompletedIsPublished, Deliveries, Statuses
<1>8. QED BY <1>1, <1>2, <1>3, <1>4, <1>5, <1>6, <1>7

\* Only the lock file changes.
LEMMA OperatorKeeps ==
    ASSUME IInv, OperatorClears
    PROVE  IInv' /\ Kept
<1> USE DEF IInv, OperatorClears, file, local, world
<1>1. TypeOK'
  <2>1. FileTypes'
    BY WorkersAssumption, VersionsAssumption, AttemptsAssumption
    DEF TypeOK, FileTypes, ProcessTypes, Deliveries, AttemptsLeft, Statuses, Transactions
  <2>2. ProcessTypes'
    BY VersionsAssumption, PagesAssumption
    DEF TypeOK, FileTypes, ProcessTypes, WorldTypes, Places, Transactions, NoItem
  <2>3. WorldTypes'
    BY WorkersAssumption, VersionsAssumption, FaultsAssumption
    DEF TypeOK, WorldTypes, Deliveries, Transactions
  <2>4. QED BY <2>1, <2>2, <2>3 DEF TypeOK
<1>2. Polls'
  BY VersionsAssumption
  DEF TypeOK, FileTypes, ProcessTypes, WorldTypes, Polls, Transactions, Places
<1>3. Deliveries'
  BY WorkersAssumption DEF TypeOK, ProcessTypes, WorldTypes, Deliveries, Transactions, Places
<1>4. AttemptsLeft'
  BY AttemptsAssumption DEF TypeOK, FileTypes, AttemptsLeft, Deliveries, Statuses
<1>5. Kept
  BY DEF TypeOK, FileTypes, Kept, Deliveries, Statuses
<1>6. NothingIsHidden'
  BY <1>5, VersionsAssumption DEF TypeOK, FileTypes, WorldTypes, Kept, NothingIsHidden, Polls
<1>7. CompletedIsPublished'
  BY DEF TypeOK, FileTypes, WorldTypes, CompletedIsPublished, Deliveries, Statuses
<1>8. QED BY <1>1, <1>2, <1>3, <1>4, <1>5, <1>6, <1>7

\* No poll has seen the new state of the source.
LEMMA SourceKeeps ==
    ASSUME IInv, SourceChanges
    PROVE  IInv' /\ Kept
<1> USE DEF IInv, SourceChanges, file, local, world
<1>1. TypeOK'
  <2>1. FileTypes'
    BY WorkersAssumption, VersionsAssumption, AttemptsAssumption
    DEF TypeOK, FileTypes, ProcessTypes, Deliveries, AttemptsLeft, Statuses, Transactions
  <2>2. ProcessTypes'
    BY VersionsAssumption, PagesAssumption
    DEF TypeOK, FileTypes, ProcessTypes, WorldTypes, Places, Transactions, NoItem
  <2>3. WorldTypes'
    BY WorkersAssumption, VersionsAssumption, FaultsAssumption
    DEF TypeOK, WorldTypes, Deliveries, Transactions
  <2>4. QED BY <2>1, <2>2, <2>3 DEF TypeOK
<1>2. Polls'
  BY VersionsAssumption
  DEF TypeOK, FileTypes, ProcessTypes, WorldTypes, Polls, Transactions, Places
<1>3. Deliveries'
  BY WorkersAssumption DEF TypeOK, ProcessTypes, WorldTypes, Deliveries, Transactions, Places
<1>4. AttemptsLeft'
  BY AttemptsAssumption DEF TypeOK, FileTypes, AttemptsLeft, Deliveries, Statuses
<1>5. Kept
  BY DEF TypeOK, FileTypes, Kept, Deliveries, Statuses
<1>6. NothingIsHidden'
  BY <1>5, VersionsAssumption DEF TypeOK, FileTypes, WorldTypes, Kept, NothingIsHidden, Polls
<1>7. CompletedIsPublished'
  BY DEF TypeOK, FileTypes, WorldTypes, CompletedIsPublished, Deliveries, Statuses
<1>8. QED BY <1>1, <1>2, <1>3, <1>4, <1>5, <1>6, <1>7

-----------------------------------------------------------------------------
(* The invariant of the specification                                      *)

\* At first nothing is queued and nothing was polled.
LEMMA InitIInv == Init => IInv
  BY WorkersAssumption, VersionsAssumption, PagesAssumption, AttemptsAssumption, FaultsAssumption
  DEF Init, IInv, TypeOK, FileTypes, ProcessTypes, WorldTypes, Polls, Deliveries, AttemptsLeft, NothingIsHidden, CompletedIsPublished,
      Statuses, Places, Transactions, NoItem

\* Every step keeps the invariant and the settlements.
LEMMA NextKeeps == IInv /\ [Next]_vars => IInv' /\ Kept
<1> SUFFICES ASSUME IInv, [Next]_vars PROVE IInv' /\ Kept
  OBVIOUS
<1>1. CASE UNCHANGED vars
  BY <1>1
  DEF vars, file, local, world, IInv, TypeOK, FileTypes, ProcessTypes, WorldTypes, Polls, Deliveries,
      AttemptsLeft, NothingIsHidden, CompletedIsPublished, Kept
<1>2. CASE \E p \in Workers : Step(p) \/ Heartbeat(p) \/ Crash(p)
  BY <1>2, LockKeeps, ReadCheckpointKeeps, FetchKeeps, FetchRestKeeps, AssessKeeps, StoreKeeps,
     ClaimKeeps, CheckKeeps, HeartbeatKeeps, PublishKeeps, AckKeeps, NackKeeps, CrashKeeps,
     StartKeeps
  DEF Step
<1>3. CASE \E i \in Items : TimePasses(i) \/ ApprovalChanges(i)
  BY <1>3, TimeKeeps, ApprovalKeeps
<1>4. CASE OperatorClears \/ SourceChanges
  BY <1>4, OperatorKeeps, SourceKeeps
<1>5. QED BY <1>1, <1>2, <1>3, <1>4 DEF Next

\* The inductive invariant of the bridge queue.
THEOREM InvariantHolds == Spec => []IInv
<1>1. QED BY InitIInv, NextKeeps, PTL DEF Spec

\* Types of the file, the processes and the world around them.
THEOREM TypeCorrect == Spec => []TypeOK
<1>1. IInv => TypeOK
  BY DEF IInv
<1>2. QED BY <1>1, InvariantHolds, PTL

\* A poll that is answered "not modified" (BridgeRuntime.poll) hides no record.
THEOREM NothingStaysHidden == Spec => []NothingIsHidden
<1>1. IInv => NothingIsHidden
  BY DEF IInv
<1>2. QED BY <1>1, InvariantHolds, PTL

\* What the queue calls completed is at the connector (BridgeRuntime.dispatch).
THEOREM CompletedItemsArePublished == Spec => []CompletedIsPublished
<1>1. IInv => CompletedIsPublished
  BY DEF IInv
<1>2. QED BY <1>1, InvariantHolds, PTL

\* Settled items are never queued or settled again (enqueue, requireLease).
THEOREM SettlementsAreFinal == Spec => SettledIsFinal
<1>1. IInv /\ [Next]_vars =>
        [\A i \in Items : status[i] \in {"completed", "dead"} => status'[i] = status[i]]_vars
  BY NextKeeps DEF Kept
<1>2. QED BY <1>1, InvariantHolds, PTL DEF Spec, SettledIsFinal

-----------------------------------------------------------------------------
(* The archive                                                             *)

Proved == INSTANCE OutboxProofs
    WITH Invalid <- {}, MaxAttempts <- MaxClaims, Archive <- TRUE, MaxFaults <- MaxTroubles,
         status <- stage, attempts <- claims, due <- ripe, pc <- place, faults <- troubles

\* The outbox of Queues is the one OutboxProofs is about.
LEMMA SameSteps == Outbox!Next <=> Proved!Next
BY DEF
   Outbox!Next, Outbox!Step, Outbox!Emit, Outbox!TimePasses, Outbox!Claim,
   Outbox!Claimable, Outbox!Take, Outbox!Finish, Outbox!Delivery, Outbox!Read,
   Outbox!Lookup, Outbox!ReadHead, Outbox!Accepts, Outbox!AppendRecord,
   Outbox!ReadBack, Outbox!Export, Outbox!Holds, Outbox!Acknowledge,
   Outbox!Abandon, Outbox!Released, Outbox!Reject, Outbox!Crash, Outbox!NoClaim,
   Outbox!Claims, Outbox!Goto, Outbox!Fault, Outbox!row, Outbox!worker,
   Outbox!Range, Outbox!Cardinality,
   Proved!Next, Proved!Step, Proved!Emit, Proved!TimePasses, Proved!Claim,
   Proved!Claimable, Proved!Take, Proved!Finish, Proved!Delivery, Proved!Read,
   Proved!Lookup, Proved!ReadHead, Proved!Accepts, Proved!AppendRecord,
   Proved!ReadBack, Proved!Export, Proved!Holds, Proved!Acknowledge,
   Proved!Abandon, Proved!Released, Proved!Reject, Proved!Crash, Proved!NoClaim,
   Proved!Claims, Proved!Goto, Proved!Fault, Proved!row, Proved!worker,
   Proved!Range, Proved!Cardinality

LEMMA SamePromise == Proved!IInv => ArchiveIsExact
BY DEF Proved!IInv, ArchiveIsExact, Proved!TypeOK, Outbox!TypeOK, Proved!PublishedIsStored,
   Outbox!PublishedIsStored, Proved!StoredOnce, Outbox!StoredOnce, Proved!Claims, Outbox!Claims,
   Proved!NoClaim, Outbox!NoClaim, Proved!Range, Outbox!Range, Proved!IsInjective,
   Outbox!IsInjective

\* The archive has what is published and one record per event, whatever was lost
\* or repeated (WormOutboxDispatcher).
THEOREM ArchiveStaysExact == QueuesSpec => []ArchiveIsExact
<1>1. BothInit => Proved!IInv
  <2>1. BothInit => Proved!Init
    BY DEF BothInit, Outbox!Init, Proved!Init, Outbox!NoClaim, Proved!NoClaim
  <2>2. QED BY <2>1, Proved!InitIInv, OutboxAssumption, WorkersAssumption
<1>2. Proved!IInv /\ [OneNext]_queues_vars => Proved!IInv'
  <2>1. [OneNext]_queues_vars => Proved!Next \/ UNCHANGED outbox_vars
    BY SameSteps DEF OneNext, OfBridge, OfArchive, OfDiscovery, queues_vars
  <2>2. UNCHANGED outbox_vars => UNCHANGED Proved!vars
    BY DEF outbox_vars, Proved!vars, Proved!row, Proved!worker
  <2>3. QED BY <2>1, <2>2, Proved!NextKeeps, OutboxAssumption, WorkersAssumption
<1>3. QED BY <1>1, <1>2, SamePromise, PTL DEF QueuesSpec

-----------------------------------------------------------------------------
(* The discovery state                                                     *)

\* A set of numbers that is not empty has a least one.
LEMMA LeastExists ==
    ASSUME NEW T \in SUBSET Nat, T # {}
    PROVE  \E x \in T : \A y \in T : x <= y
<1>1. PICK x \in T : \A y \in T : <<y, x>> \notin OpToRel(<, Nat)
  BY NatLessThanWellFounded, WFMin
<1>2. \A y \in T : ~(y < x)
  BY <1>1, Zenon DEF OpToRel
<1>q. QED BY <1>2

\* The records are reconciled one after the other.
LEMMA ReconciledInTurn ==
    ASSUME NEW st, NEW renewed, NEW registry, NEW config, NEW at
    PROVE  \E g : /\ g[0] = st
                  /\ \A i \in 1..Len(Order) :
                        g[i] = Discovery!ReconcileRecord(g[i - 1], Order[i], renewed, registry,
                                                         config, at)
                  /\ Discovery!ReconcileRecords(st, renewed, registry, config, at) = g[Len(Order)]
<1> DEFINE n == Len(Order)
           Turn(g, i) == Discovery!ReconcileRecord(g[i - 1], Order[i], renewed, registry, config, at)
           Is(g, m) == g = [i \in 0..m |-> IF i = 0 THEN st ELSE Turn(g, i)]
           T == {m \in 0..n : ~\E g : Is(g, m)}
           after == CHOOSE g : Is(g, n)
<1>1. n \in Nat
  BY DiscoveryAssumption
<1>2. T = {}
  <2> SUFFICES ASSUME T # {} PROVE FALSE
    OBVIOUS
  <2>1. PICK m \in T : \A y \in T : m <= y
    <3>1. T \in SUBSET Nat
      BY <1>1
    <3> HIDE DEF T
    <3>q. QED BY <3>1, LeastExists
  <2>2. m \in 0..n /\ ~\E g : Is(g, m)
    OBVIOUS
  <2> HIDE DEF n
  <2>3. CASE m = 0
    <3>1. Is([i \in 0..0 |-> st], 0)
      OBVIOUS
    <3>q. QED BY <2>2, <2>3, <3>1
  <2>4. CASE m # 0
    <3>1. m - 1 \in 0..n /\ ~(m <= m - 1)
      BY <1>1, <2>2, <2>4
    <3>2. m - 1 \notin T
      <4> HIDE DEF T
      <4>q. QED BY <2>1, <3>1
    <3>3. PICK g : Is(g, m - 1)
      BY <3>1, <3>2
    <3> DEFINE h == [i \in 0..m |-> IF i < m THEN g[i] ELSE Turn(g, m)]
    <3>4. \A i \in 0..m : i # 0 => Turn(h, i) = Turn(g, i)
      BY <1>1, <2>2
    <3>5. \A i \in 0..(m - 1) : g[i] = IF i = 0 THEN st ELSE Turn(g, i)
      <4> HIDE DEF Turn
      <4>q. QED BY <3>3
    <3>6. Is(h, m)
      <4> HIDE DEF Turn
      <4>q. QED BY <1>1, <2>2, <2>4, <3>4, <3>5
    <3>q. QED BY <2>2, <3>6
  <2>q. QED BY <2>3, <2>4
<1>3. Is(after, n)
  <2>1. \E g : Is(g, n)
    BY <1>1, <1>2
  <2> HIDE DEF Is
  <2>q. QED BY <2>1
<1>4. Discovery!ReconcileRecords(st, renewed, registry, config, at) = after[n]
  BY DEF Discovery!ReconcileRecords
<1> HIDE DEF after, Turn, n
<1>5. after[0] = st /\ \A i \in 1..n : after[i] = Turn(after, i)
  BY <1>1, <1>3
<1>q. QED BY <1>4, <1>5 DEF Turn, n

\* The events are applied one after the other.
AppliedIn(g, st, b, registry, config, at) ==
    /\ g[0] = st
    /\ \A i \in 1..Len(b) :
          g[i] = Discovery!ApplyEvent(g[i - 1], b[i], registry, config, at)
    /\ Discovery!ApplyBatch(st, b, registry, config, at) = g[Len(b)]

LEMMA AppliedInTurn ==
    ASSUME NEW st, NEW b, NEW registry, NEW config, NEW at, Len(b) \in Nat
    PROVE  \E g : AppliedIn(g, st, b, registry, config, at)
<1> DEFINE n == Len(b)
           Turn(g, i) == Discovery!ApplyEvent(g[i - 1], b[i], registry, config, at)
           Is(g, m) == g = [i \in 0..m |-> IF i = 0 THEN st ELSE Turn(g, i)]
           T == {m \in 0..n : ~\E g : Is(g, m)}
           after == CHOOSE g : Is(g, n)
<1>1. n \in Nat
  OBVIOUS
<1>2. T = {}
  <2> SUFFICES ASSUME T # {} PROVE FALSE
    OBVIOUS
  <2>1. PICK m \in T : \A y \in T : m <= y
    <3>1. T \in SUBSET Nat
      BY <1>1
    <3> HIDE DEF T
    <3>q. QED BY <3>1, LeastExists
  <2>2. m \in 0..n /\ ~\E g : Is(g, m)
    OBVIOUS
  <2> HIDE DEF n
  <2>3. CASE m = 0
    <3>1. Is([i \in 0..0 |-> st], 0)
      OBVIOUS
    <3>q. QED BY <2>2, <2>3, <3>1
  <2>4. CASE m # 0
    <3>1. m - 1 \in 0..n /\ ~(m <= m - 1)
      BY <1>1, <2>2, <2>4
    <3>2. m - 1 \notin T
      <4> HIDE DEF T
      <4>q. QED BY <2>1, <3>1
    <3>3. PICK g : Is(g, m - 1)
      BY <3>1, <3>2
    <3> DEFINE h == [i \in 0..m |-> IF i < m THEN g[i] ELSE Turn(g, m)]
    <3>4. \A i \in 0..m : i # 0 => Turn(h, i) = Turn(g, i)
      BY <1>1, <2>2
    <3>5. \A i \in 0..(m - 1) : g[i] = IF i = 0 THEN st ELSE Turn(g, i)
      <4> HIDE DEF Turn
      <4>q. QED BY <3>3
    <3>6. Is(h, m)
      <4> HIDE DEF Turn
      <4>q. QED BY <1>1, <2>2, <2>4, <3>4, <3>5
    <3>q. QED BY <2>2, <3>6
  <2>q. QED BY <2>3, <2>4
<1>3. Is(after, n)
  <2>1. \E g : Is(g, n)
    BY <1>1, <1>2
  <2> HIDE DEF Is
  <2>q. QED BY <2>1
<1>4. Discovery!ApplyBatch(st, b, registry, config, at) = after[n]
  BY DEF Discovery!ApplyBatch
<1> HIDE DEF after, Turn, n
<1>5. after[0] = st /\ \A i \in 1..n : after[i] = Turn(after, i)
  BY <1>1, <1>3
<1>6. AppliedIn(after, st, b, registry, config, at)
  BY <1>4, <1>5 DEF AppliedIn, Turn, n
<1>q. QED BY <1>6

\* The fields of the state, of a record and of a command.
StateFields == {"records", "seen", "outbox", "next", "registry", "config", "evaluated", "reviewed",
                "failed"}
EntryFields == {"ver", "what", "approval", "shown", "wasShown", "candidate", "ids"}
CommandFields == {"seq", "family", "type", "key", "ver", "payload", "gate", "by"}
Families == {"discovery", "connector-review"}

Of(st, k, family) == {c \in st.outbox : c.by = 0 /\ c.key = k /\ c.family = family}
Bound(st, k, v) == \A c \in st.outbox : c.key = k => c.ver <= v

\* The commands: each superseded one has its successor, which is not of an older version.
Boxed(st) ==
    /\ DOMAIN st = StateFields
    /\ st.next \in Nat \ {0}
    /\ IsFiniteSet(st.outbox)
    /\ \A c \in st.outbox : /\ DOMAIN c = CommandFields
                            /\ c.seq \in Nat /\ c.seq < st.next /\ c.by \in Nat
                            /\ c.key \in Keys /\ c.ver \in Nat /\ c.family \in Families
    /\ \A c, d \in st.outbox : c.seq = d.seq => c = d
    /\ \A c, d \in st.outbox :
          c.by = 0 /\ d.by = 0 /\ c.key = d.key /\ c.family = d.family => c = d
    /\ \A c \in st.outbox : c.by # 0 =>
          \E d \in st.outbox : /\ d.key = c.key /\ d.family = c.family
                               /\ d.seq = c.by /\ d.seq > c.seq /\ d.ver >= c.ver

NewCommand(st, family, type, key, ver, payload, gate) ==
    [seq |-> st.next, family |-> family, type |-> type, key |-> key,
     ver |-> ver, payload |-> payload, gate |-> gate, by |-> 0]

\* Everything but the commands is the same.
SameButOutbox(st, t) ==
    /\ DOMAIN t = StateFields
    /\ t.records = st.records /\ t.seen = st.seen /\ t.registry = st.registry
    /\ t.config = st.config /\ t.evaluated = st.evaluated /\ t.reviewed = st.reviewed
    /\ t.failed = st.failed

\* Of one record and family the pending command is now c.
Added(st, t, family, key, c) ==
    /\ Boxed(t) /\ SameButOutbox(st, t)
    /\ Of(t, key, family) = {c}
    /\ \A k \in Keys, f \in Families : k # key \/ f # family => Of(t, k, f) = Of(st, k, f)
    /\ \A k \in Keys, v \in Int : Bound(st, k, v) /\ (k = key => c.ver <= v) => Bound(t, k, v)

\* A queued command supersedes the pending one of its record and family.
LEMMA AddKeeps ==
    ASSUME NEW st, Boxed(st), NEW family \in Families, NEW type, NEW key \in Keys, NEW ver \in Nat,
           NEW payload, NEW gate, Bound(st, key, ver)
    PROVE  Added(st, Discovery!AddOutbox(st, family, type, key, ver, payload, gate), family, key,
                 NewCommand(st, family, type, key, ver, payload, gate))
<1> DEFINE Supersede(c) == IF c.key = key /\ c.family = family /\ c.by = 0
                           THEN [c EXCEPT !.by = st.next] ELSE c
           old == {Supersede(c) : c \in st.outbox}
           new == NewCommand(st, family, type, key, ver, payload, gate)
           t == Discovery!AddOutbox(st, family, type, key, ver, payload, gate)
<1>1. t = [st EXCEPT !.next = st.next + 1, !.outbox = old \cup {new}]
  BY DEF Discovery!AddOutbox, NewCommand, Boxed, StateFields
<1>2. /\ t.next = st.next + 1 /\ t.outbox = old \cup {new}
      /\ SameButOutbox(st, t)
  <2> HIDE DEF t, old, new
  <2>q. QED BY <1>1 DEF Boxed, StateFields, SameButOutbox
<1>3. /\ DOMAIN new = CommandFields /\ new.seq = st.next /\ new.family = family
      /\ new.key = key /\ new.ver = ver /\ new.by = 0
  BY DEF NewCommand, CommandFields
<1>4. ASSUME NEW c \in st.outbox
      PROVE  /\ DOMAIN Supersede(c) = CommandFields
             /\ Supersede(c).seq = c.seq /\ Supersede(c).key = c.key /\ Supersede(c).ver = c.ver
             /\ Supersede(c).family = c.family
             /\ IF c.key = key /\ c.family = family /\ c.by = 0
                THEN Supersede(c).by = st.next
                ELSE Supersede(c) = c
  BY DEF Boxed, CommandFields
<1>5. IsFiniteSet(t.outbox)
  <2> DEFINE f == [c \in st.outbox |-> Supersede(c)]
  <2>1. f \in Surjection(st.outbox, old)
    BY DEF Surjection
  <2>2. IsFiniteSet(old)
    BY <2>1, FS_Surjection DEF Boxed
  <2> HIDE DEF old
  <2>q. QED BY <1>2, <2>2, FS_AddElement
<1> HIDE DEF t, new
<1>6. Boxed(t)
  <2>1. st.next \in Nat \ {0}
    BY DEF Boxed
  <2>2. \A c \in st.outbox : /\ DOMAIN c = CommandFields
                             /\ c.seq \in Nat /\ c.seq < st.next /\ c.by \in Nat
                             /\ c.key \in Keys /\ c.ver \in Nat /\ c.family \in Families
    BY DEF Boxed
  <2>3. ASSUME NEW c \in t.outbox
        PROVE  /\ DOMAIN c = CommandFields
               /\ c.seq \in Nat /\ c.seq < t.next /\ c.by \in Nat
               /\ c.key \in Keys /\ c.ver \in Nat /\ c.family \in Families
    <3>1. CASE c = new
      BY <1>2, <1>3, <2>1, <3>1
    <3>2. CASE c \in old
      <4>1. PICK d \in st.outbox : c = Supersede(d)
        BY <3>2
      <4> HIDE DEF Supersede
      <4>q. QED BY <1>2, <1>4, <2>1, <2>2, <4>1
    <3>q. QED BY <1>2, <3>1, <3>2
  <2>4. ASSUME NEW c \in t.outbox, NEW d \in t.outbox, c.seq = d.seq PROVE c = d
    <3>1. CASE c \in old /\ d \in old
      <4>1. PICK x \in st.outbox, y \in st.outbox : c = Supersede(x) /\ d = Supersede(y)
        BY <3>1
      <4>2. x.seq = y.seq
        <5> HIDE DEF Supersede
        <5>q. QED BY <1>4, <2>4, <4>1
      <4>3. x = y
        BY <4>2 DEF Boxed
      <4>q. QED BY <4>1, <4>3
    <3>2. \A x \in old : x.seq < st.next
      <4> HIDE DEF Supersede
      <4>q. QED BY <1>4, <2>2
    <3>q. QED BY <1>2, <1>3, <2>1, <2>2, <2>4, <3>1, <3>2
  <2>5. ASSUME NEW c \in t.outbox, NEW d \in t.outbox,
               c.by = 0, d.by = 0, c.key = d.key, c.family = d.family
        PROVE  c = d
    <3>1. \A x \in old : x.by = 0 => x \in st.outbox /\ ~(x.key = key /\ x.family = family)
      <4> HIDE DEF Supersede
      <4>q. QED BY <1>4, <2>1
    <3>2. \A x, y \in st.outbox :
              x.by = 0 /\ y.by = 0 /\ x.key = y.key /\ x.family = y.family => x = y
      BY DEF Boxed
    <3> HIDE DEF old
    <3>q. QED BY <1>2, <1>3, <2>5, <3>1, <3>2
  <2>6. ASSUME NEW c \in t.outbox, c.by # 0
        PROVE  \E d \in t.outbox : /\ d.key = c.key /\ d.family = c.family
                                   /\ d.seq = c.by /\ d.seq > c.seq /\ d.ver >= c.ver
    <3>1. c \in old
      BY <1>2, <1>3, <2>6
    <3>2. PICK x \in st.outbox : c = Supersede(x)
      BY <3>1
    <3>3. CASE x.key = key /\ x.family = family /\ x.by = 0
      <4>1. /\ c.by = st.next /\ c.seq = x.seq /\ c.key = x.key /\ c.ver = x.ver
            /\ c.family = x.family
        <5> HIDE DEF Supersede
        <5>q. QED BY <1>4, <3>2, <3>3
      <4>2. x.ver <= ver /\ x.seq < st.next /\ x.seq \in Nat /\ x.ver \in Nat
        BY <2>2, <3>3 DEF Bound
      <4>3. new \in t.outbox
        BY <1>2
      <4> HIDE DEF old, Supersede
      <4>q. QED BY <1>3, <2>1, <3>3, <4>1, <4>2, <4>3
    <3>4. CASE ~(x.key = key /\ x.family = family /\ x.by = 0)
      <4>1. c = x
        <5> HIDE DEF Supersede
        <5>q. QED BY <1>4, <3>2, <3>4
      <4>2. PICK d \in st.outbox : /\ d.key = c.key /\ d.family = c.family
                                   /\ d.seq = c.by /\ d.seq > c.seq /\ d.ver >= c.ver
        BY <2>6, <4>1 DEF Boxed
      <4>3. Supersede(d) \in t.outbox
        BY <1>2
      <4> HIDE DEF Supersede, old
      <4>q. QED BY <1>4, <4>2, <4>3
    <3>q. QED BY <3>3, <3>4
  <2>7. t.next \in Nat \ {0}
    BY <1>2, <2>1
  <2> HIDE DEF old, Supersede
  <2>q. QED BY <1>2, <1>5, <2>3, <2>4, <2>5, <2>6, <2>7 DEF Boxed, SameButOutbox
<1>7. Of(t, key, family) = {new}
  <2>1. \A x \in old : ~(x.by = 0 /\ x.key = key /\ x.family = family)
    <3>1. st.next # 0
      BY DEF Boxed
    <3> HIDE DEF Supersede
    <3>q. QED BY <1>4, <3>1
  <2> HIDE DEF old
  <2>q. QED BY <1>2, <1>3, <2>1 DEF Of
<1>8. ASSUME NEW k \in Keys, NEW f \in Families, k # key \/ f # family
      PROVE  Of(t, k, f) = Of(st, k, f)
  <2>1. ASSUME NEW x PROVE x \in Of(t, k, f) <=> x \in Of(st, k, f)
    <3>1. ASSUME x \in Of(st, k, f) PROVE x \in Of(t, k, f)
      <4>1. x \in st.outbox /\ x.by = 0 /\ x.key = k /\ x.family = f
        BY <3>1 DEF Of
      <4>2. Supersede(x) = x /\ Supersede(x) \in t.outbox
        BY <1>2, <1>8, <4>1
      <4> HIDE DEF Supersede, old
      <4>q. QED BY <4>1, <4>2 DEF Of
    <3>2. ASSUME x \in Of(t, k, f) PROVE x \in Of(st, k, f)
      <4>1. x \in t.outbox /\ x.by = 0 /\ x.key = k /\ x.family = f
        BY <3>2 DEF Of
      <4>2. x \in old
        BY <1>2, <1>3, <1>8, <4>1
      <4>3. PICK d \in st.outbox : x = Supersede(d)
        BY <4>2
      <4>4. d = x
        <5>1. st.next # 0
          BY DEF Boxed
        <5> HIDE DEF Supersede
        <5>q. QED BY <1>4, <4>1, <4>3, <5>1
      <4> HIDE DEF Supersede, old
      <4>q. QED BY <4>1, <4>3, <4>4 DEF Of
    <3>q. QED BY <3>1, <3>2
  <2>q. QED BY <2>1
<1>9. ASSUME NEW k \in Keys, NEW v \in Int, Bound(st, k, v), k = key => new.ver <= v
      PROVE  Bound(t, k, v)
  <2>1. \A x \in old : x.key = k => x.ver <= v
    <3> HIDE DEF Supersede
    <3>q. QED BY <1>4, <1>9 DEF Bound
  <2> HIDE DEF old
  <2>q. QED BY <1>2, <1>3, <1>9, <2>1 DEF Bound
<1> HIDE DEF old, Supersede
<1>q. QED BY <1>2, <1>6, <1>7, <1>8, <1>9 DEF Added, t, new

\* The cardinality of the instance is that of the library's theorems.
LEMMA CardinalityIsTheSame ==
    \A S : Discovery!Cardinality(S) = Cardinality(S)
BY DEF Cardinality, Discovery!Cardinality

\* Compaction leaves the pending commands and the successors of what it keeps.
LEMMA CompactKeeps ==
    ASSUME NEW st, Boxed(st)
    PROVE  LET t == Discovery!CompactOutbox(st)
           IN  /\ Boxed(t) /\ SameButOutbox(st, t)
               /\ \A k \in Keys, f \in Families : Of(t, k, f) = Of(st, k, f)
               /\ \A k \in Keys, v \in Int : Bound(st, k, v) => Bound(t, k, v)
<1> DEFINE left == {c \in st.outbox : c.by = 0 \/ Cardinality(Discovery!Newer(st, c)) < KeptPerChain}
           t == Discovery!CompactOutbox(st)
<1>1. t = [st EXCEPT !.outbox = left]
  BY CardinalityIsTheSame DEF Discovery!CompactOutbox
<1>2. /\ t.outbox = left /\ t.next = st.next
      /\ SameButOutbox(st, t)
  <2> HIDE DEF t, left
  <2>q. QED BY <1>1 DEF Boxed, StateFields, SameButOutbox
<1>3. left \subseteq st.outbox /\ \A c \in st.outbox : c.by = 0 => c \in left
  OBVIOUS
<1>4. ASSUME NEW c \in left, c.by # 0,
             NEW d \in st.outbox, d.key = c.key, d.family = c.family, d.seq > c.seq, d.ver >= c.ver
      PROVE  d \in left
  <2>1. CASE d.by = 0
    BY <2>1
  <2>2. CASE d.by # 0
    <3>1. Discovery!Newer(st, d) \subseteq Discovery!Newer(st, c)
      <4> SUFFICES ASSUME NEW x \in Discovery!Newer(st, d) PROVE x \in Discovery!Newer(st, c)
        OBVIOUS
      <4>1. /\ x \in st.outbox /\ x.key = d.key /\ x.family = d.family /\ x.by # 0
            /\ x.ver > d.ver \/ (x.ver = d.ver /\ x.seq > d.seq)
        BY DEF Discovery!Chain, Discovery!Newer
      <4>2. /\ x.ver \in Nat /\ d.ver \in Nat /\ c.ver \in Nat
            /\ x.seq \in Nat /\ d.seq \in Nat /\ c.seq \in Nat
        BY <1>4, <4>1 DEF Boxed
      <4>3. x.ver > c.ver \/ (x.ver = c.ver /\ x.seq > c.seq)
        BY <1>4, <4>1, <4>2
      <4>q. QED BY <1>4, <4>1, <4>3 DEF Discovery!Chain, Discovery!Newer
    <3>2. IsFiniteSet(Discovery!Newer(st, c))
      <4>1. Discovery!Newer(st, c) \subseteq st.outbox
        BY DEF Discovery!Chain, Discovery!Newer
      <4>q. QED BY <4>1, FS_Subset DEF Boxed
    <3>3. /\ Cardinality(Discovery!Newer(st, d)) \in Nat /\ Cardinality(Discovery!Newer(st, c)) \in Nat
          /\ Cardinality(Discovery!Newer(st, d)) <= Cardinality(Discovery!Newer(st, c))
      <4>q. QED BY <3>1, <3>2, FS_Subset, FS_CardinalityType
    <3>4. Cardinality(Discovery!Newer(st, c)) < KeptPerChain
      BY <1>4
    <3>5. KeptPerChain \in Nat
      BY DiscoveryAssumption
    <3>6. Cardinality(Discovery!Newer(st, d)) < KeptPerChain
      <4>q. QED BY <3>3, <3>4, <3>5
    <3>q. QED BY <1>4, <3>6
  <2>q. QED BY <2>1, <2>2
<1> HIDE DEF t, left
<1>5. IsFiniteSet(t.outbox)
  BY <1>2, <1>3, FS_Subset DEF Boxed
<1>6. Boxed(t)
  <2>1. \A c \in t.outbox : c.by # 0 =>
          \E d \in t.outbox : /\ d.key = c.key /\ d.family = c.family
                              /\ d.seq = c.by /\ d.seq > c.seq /\ d.ver >= c.ver
    <3> SUFFICES ASSUME NEW c \in t.outbox, c.by # 0
                 PROVE  \E d \in t.outbox : /\ d.key = c.key /\ d.family = c.family
                                            /\ d.seq = c.by /\ d.seq > c.seq /\ d.ver >= c.ver
      OBVIOUS
    <3>1. PICK d \in st.outbox : /\ d.key = c.key /\ d.family = c.family
                                 /\ d.seq = c.by /\ d.seq > c.seq /\ d.ver >= c.ver
      BY <1>2, <1>3 DEF Boxed
    <3>q. QED BY <1>2, <1>4, <3>1
  <2>2. DOMAIN t = StateFields
    BY <1>2 DEF SameButOutbox
  <2>q. QED BY <1>2, <1>3, <1>5, <2>1, <2>2 DEF Boxed
<1>7. \A k \in Keys, f \in Families : Of(t, k, f) = Of(st, k, f)
  BY <1>2, <1>3 DEF Of
<1>8. \A k \in Keys, v \in Int : Bound(st, k, v) => Bound(t, k, v)
  BY <1>2, <1>3 DEF Bound
<1>q. QED BY <1>2, <1>6, <1>7, <1>8 DEF t

-----------------------------------------------------------------------------
(* One record and its pending commands.                                    *)

None == Discovery!None

\* Every registry that grants a version grants it for an interval.
GrantsAre(k, ver) ==
    \A registry \in Registries :
        LET grant == GrantOf[registry][<<k, ver>>]
        IN  grant # NoGrant => grant.from \in Nat /\ grant.until \in Nat

\* A record agrees with the registry and the config of the last evaluation.
EntryIs(e, k, registry, config) ==
    /\ DOMAIN e = EntryFields
    /\ e.ver \in Nat \cup {-1}
    /\ e.ver = -1 => e.what = "none"
    /\ e.ver # -1 => GrantsAre(k, e.ver)
    /\ e.approval.verified =>
          e.approval.grant = GrantOf[registry][<<k, e.ver>>] /\ e.approval.grant # NoGrant
    /\ ~Discovery!HasCanonical(e) => ~e.approval.verified
    /\ e.wasShown \in BOOLEAN
    /\ e.shown = Discovery!Projection(e.what, e.approval)
    /\ e.candidate = Discovery!Candidate(e.what, e.approval, config)
    /\ e.shown # None => e.wasShown
    /\ Discovery!Offers(e) => e.candidate.id \in e.ids

\* The gate of a command is of the evaluation its record was approved by.
GateIs(gate, e, registry, config, t) ==
    /\ gate.ver = e.ver /\ gate.registry = registry /\ gate.config = config
    /\ gate.grant = e.approval.grant
    /\ gate.at \in Nat /\ gate.grant.from <= gate.at /\ gate.at <= gate.grant.until
    /\ gate.at <= t

\* D are the pending discovery commands of the record e.
DiscoveryOf(e, D, registry, config, t) ==
    /\ e.wasShown => D # {}
    /\ \A c \in D :
          /\ c.ver = e.ver
          /\ \/ c.type = "DISCOVERY_DELETE" /\ e.wasShown /\ e.shown = None
             \/ /\ c.type = "DISCOVERY_UPSERT" /\ e.shown # None
                /\ c.payload = {e.shown} /\ GateIs(c.gate, e, registry, config, t)

\* C are the pending connector commands of the record e.
ConnectorOf(e, C, registry, config, t) ==
    /\ e.ids # {} => C # {}
    /\ \A c \in C :
          /\ c.ver = e.ver
          /\ \/ /\ c.type = "CONNECTOR_REGISTRATION_REVIEW_WITHDRAW"
                /\ ~Discovery!Offers(e) /\ e.ids # {} /\ c.payload = e.ids
             \/ /\ c.type \in {"CONNECTOR_REGISTRATION_REVIEW",
                               "CONNECTOR_REGISTRATION_REVIEW_REPLACE"}
                /\ Discovery!Offers(e)
                /\ c.payload = <<e.candidate, e.ids \ {e.candidate.id}>>
                /\ GateIs(c.gate, e, registry, config, t)

\* A record, its pending commands and its versions fit.
KeyIs(st, k, registry, config, t) ==
    /\ EntryIs(st.records[k], k, registry, config)
    /\ DiscoveryOf(st.records[k], Of(st, k, "discovery"), registry, config, t)
    /\ ConnectorOf(st.records[k], Of(st, k, "connector-review"), registry, config, t)
    /\ Bound(st, k, st.records[k].ver)

\* What a record of this version and content becomes when it is evaluated.
Written(previous, k, ver, what, registry, config, at) ==
    LET approval  == Discovery!ResolveApproval(registry, k, ver, at)
        shown     == Discovery!Projection(what, approval)
        candidate == Discovery!Candidate(what, approval, config)
    IN  [ver |-> ver, what |-> what, approval |-> approval,
         shown |-> shown, wasShown |-> previous.wasShown \/ shown # None,
         candidate |-> candidate, ids |-> Discovery!KnownIdsWith(previous, candidate)]

\* The commands a decision queues.
Decided(st, k, previous, e, gate, showing, deleting, offering) ==
    LET discovery ==
          IF e.shown # None /\ showing THEN Discovery!Show(st, k, e.ver, e.shown, gate)
          ELSE IF e.shown = None /\ deleting THEN Discovery!Delete(st, k, e.ver)
          ELSE st
    IN  IF e.candidate.id # None /\ offering
        THEN Discovery!Offer(discovery, k, e.ver, previous, e.candidate, gate)
        ELSE IF e.candidate.id = None /\ Discovery!KnownIds(previous) # {}
        THEN Discovery!Withdraw(discovery, k, e.ver, previous)
        ELSE discovery

\* A resolved approval is by the grant of the registry, while it lasts.
LEMMA ResolvedIs ==
    ASSUME NEW registry \in Registries, NEW k, NEW ver, GrantsAre(k, ver), NEW at \in Nat
    PROVE  LET approval == Discovery!ResolveApproval(registry, k, ver, at)
           IN  /\ approval.verified \in BOOLEAN
               /\ approval.verified =>
                    /\ approval.grant = GrantOf[registry][<<k, ver>>] /\ approval.grant # NoGrant
                    /\ approval.grant.from <= at /\ at <= approval.grant.until
<1> DEFINE grant == GrantOf[registry][<<k, ver>>]
           approval == Discovery!ResolveApproval(registry, k, ver, at)
<1>1. grant # NoGrant => grant.from \in Nat /\ grant.until \in Nat
  BY DEF GrantsAre
<1>2. approval = IF grant = NoGrant THEN Discovery!Unverified(MaxTime + 1)
                 ELSE IF at < grant.from THEN Discovery!Unverified(grant.from)
                 ELSE IF at > grant.until THEN Discovery!Unverified(MaxTime + 1)
                 ELSE [verified |-> TRUE, due |-> MaxTime + 1, grant |-> grant]
  BY DEF Discovery!ResolveApproval, Discovery!Never
<1>3. \A instant : /\ ~Discovery!Unverified(instant).verified
                  /\ Discovery!Unverified(instant).verified \in BOOLEAN
  BY DEF Discovery!Unverified
<1> DEFINE granted == [verified |-> TRUE, due |-> MaxTime + 1, grant |-> grant]
<1>4. granted.verified = TRUE /\ granted.grant = grant
  OBVIOUS
<1> HIDE DEF grant, approval, granted
<1>5. CASE grant # NoGrant /\ grant.from <= at /\ at <= grant.until
  <2>1. approval = granted
    BY <1>1, <1>2, <1>5 DEF granted
  <2>q. QED BY <1>4, <1>5, <2>1 DEF grant, approval
<1>6. CASE ~(grant # NoGrant /\ grant.from <= at /\ at <= grant.until)
  <2>1. \E instant : approval = Discovery!Unverified(instant)
    BY <1>1, <1>2, <1>6
  <2>2. ~approval.verified /\ approval.verified \in BOOLEAN
    BY <1>3, <2>1
  <2>q. QED BY <2>2 DEF approval
<1>q. QED BY <1>5, <1>6

\* What is shown or offered is approved.
LEMMA ApprovedIs ==
    ASSUME NEW what, NEW approval, NEW config
    PROVE  /\ Discovery!Projection(what, approval) # None => approval.verified
           /\ Discovery!Candidate(what, approval, config).id # None =>
                 /\ approval.verified
                 /\ Discovery!Candidate(what, approval, config).grant = approval.grant
           /\ what \in {"none", "broken", "deleted"} \/ ~approval.verified =>
                 /\ Discovery!Projection(what, approval) = None
                 /\ Discovery!Candidate(what, approval, config).id = None
                 /\ \A other : Discovery!Candidate(what, approval, other)
                               = Discovery!Candidate(what, approval, config)
BY DEF Discovery!Projection, Discovery!Candidate, Discovery!IsPublic, Discovery!DecideOffering,
       None, Discovery!None

\* The Dataset ID in force is one of those remembered.
LEMMA KnownIs ==
    ASSUME NEW e, NEW k, NEW registry, NEW config, EntryIs(e, k, registry, config)
    PROVE  Discovery!KnownIds(e) = e.ids
BY DEF EntryIs, Discovery!KnownIds

\* An evaluated record agrees with what it was evaluated by.
LEMMA WrittenIs ==
    ASSUME NEW previous, previous.wasShown \in BOOLEAN,
           NEW k, NEW ver \in Nat, GrantsAre(k, ver),
           NEW what, what \notin {"none", "broken", "deleted"},
           NEW registry \in Registries, NEW config, NEW at \in Nat
    PROVE  LET e == Written(previous, k, ver, what, registry, config, at)
           IN  /\ EntryIs(e, k, registry, config)
               /\ e.ver = ver /\ e.what = what
               /\ e.approval = Discovery!ResolveApproval(registry, k, ver, at)
               /\ e.wasShown = (previous.wasShown \/ e.shown # None)
               /\ e.ids = Discovery!KnownIdsWith(previous, e.candidate)
               /\ e.approval.verified => e.approval.grant.from <= at /\ at <= e.approval.grant.until
<1> DEFINE approval == Discovery!ResolveApproval(registry, k, ver, at)
           shown == Discovery!Projection(what, approval)
           candidate == Discovery!Candidate(what, approval, config)
           ids == Discovery!KnownIdsWith(previous, candidate)
           e == Written(previous, k, ver, what, registry, config, at)
<1>1. e = [ver |-> ver, what |-> what, approval |-> approval, shown |-> shown,
           wasShown |-> previous.wasShown \/ shown # None, candidate |-> candidate, ids |-> ids]
  BY DEF Written
<1>2. /\ approval.verified \in BOOLEAN
      /\ approval.verified =>
           /\ approval.grant = GrantOf[registry][<<k, ver>>] /\ approval.grant # NoGrant
           /\ approval.grant.from <= at /\ at <= approval.grant.until
  BY ResolvedIs
<1>3. candidate.id # None => candidate.id \in ids
  BY DEF Discovery!KnownIdsWith, None, Discovery!None
<1> HIDE DEF approval, shown, candidate, ids, e
<1>4. /\ e.ver = ver /\ e.what = what /\ e.approval = approval /\ e.shown = shown
      /\ e.wasShown = (previous.wasShown \/ shown # None) /\ e.candidate = candidate
      /\ e.ids = ids
      /\ DOMAIN e = EntryFields
  BY <1>1 DEF EntryFields
<1>5. Discovery!HasCanonical(e)
  BY <1>4 DEF Discovery!HasCanonical
<1>6. Discovery!Offers(e) => candidate.id # None
  BY <1>4 DEF Discovery!Offers, None
<1>7. EntryIs(e, k, registry, config)
  <2>1. /\ e.shown = Discovery!Projection(e.what, e.approval)
        /\ e.candidate = Discovery!Candidate(e.what, e.approval, config)
    BY <1>4 DEF shown, candidate
  <2>2. e.ver # -1 /\ e.ver \in Nat
    BY <1>4
  <2>3. e.wasShown \in BOOLEAN /\ (e.shown # None => e.wasShown)
    BY <1>4, Zenon
  <2>4. GrantsAre(k, e.ver)
    BY <1>4
  <2>5. e.approval.verified =>
          e.approval.grant = GrantOf[registry][<<k, e.ver>>] /\ e.approval.grant # NoGrant
    BY <1>2, <1>4
  <2>6. Discovery!Offers(e) => e.candidate.id \in e.ids
    BY <1>3, <1>4, <1>6
  <2>7. DOMAIN e = EntryFields
    BY <1>4
  <2> HIDE DEF e, approval
  <2>q. QED BY <1>5, <2>1, <2>2, <2>3, <2>4, <2>5, <2>6, <2>7 DEF EntryIs
<1>q. QED BY <1>2, <1>4, <1>7 DEF e, approval, ids, candidate

\* The pending command of a record and family is the one it was given last.
Given(st, t, family, type, k, ver, payload, gate) ==
    /\ Boxed(t) /\ SameButOutbox(st, t) /\ Bound(t, k, ver)
    /\ \A j \in Keys, f \in Families : j # k \/ f # family => Of(t, j, f) = Of(st, j, f)
    /\ \A j \in Keys, v \in Int : Bound(st, j, v) /\ j # k => Bound(t, j, v)
    /\ \E c : /\ Of(t, k, family) = {c}
              /\ c.ver = ver /\ c.type = type /\ c.payload = payload /\ c.gate = gate

LEMMA GivenIs ==
    ASSUME NEW st, Boxed(st), NEW family \in Families, NEW type, NEW k \in Keys, NEW ver \in Nat,
           NEW payload, NEW gate, Bound(st, k, ver)
    PROVE  Given(st, Discovery!AddOutbox(st, family, type, k, ver, payload, gate),
                 family, type, k, ver, payload, gate)
<1> DEFINE t == Discovery!AddOutbox(st, family, type, k, ver, payload, gate)
           c == NewCommand(st, family, type, k, ver, payload, gate)
<1>1. Added(st, t, family, k, c)
  BY AddKeeps
<1>2. c.ver = ver /\ c.type = type /\ c.payload = payload /\ c.gate = gate
  BY DEF NewCommand
<1> HIDE DEF t, c
<1>3. Bound(t, k, ver)
  BY <1>1, <1>2 DEF Added
<1>4. \A j \in Keys, v \in Int : Bound(st, j, v) /\ j # k => Bound(t, j, v)
  BY <1>1 DEF Added
<1>q. QED BY <1>1, <1>2, <1>3, <1>4 DEF Added, Given, t

\* A decision on a record: of its version or of a later one, with commands that are
\* queued anew where the registry, the config or what they carry has changed.
Decides(st, k, previous, rg, cf, t, ver, what, registry, config, at, e, gate,
        showing, deleting, offering) ==
    /\ Boxed(st) /\ k \in Keys /\ t \in Int
    /\ EntryIs(previous, k, rg, cf)
    /\ DiscoveryOf(previous, Of(st, k, "discovery"), rg, cf, t)
    /\ ConnectorOf(previous, Of(st, k, "connector-review"), rg, cf, t)
    /\ Bound(st, k, previous.ver)
    /\ ver \in Nat /\ previous.ver <= ver /\ GrantsAre(k, ver)
    /\ what \notin {"none", "broken", "deleted"}
    /\ registry \in Registries /\ at \in Nat /\ t <= at
    /\ e = Written(previous, k, ver, what, registry, config, at)
    /\ gate = Discovery!Gate(registry, config, e.approval, ver, at)
    /\ {showing, deleting, offering} \subseteq BOOLEAN
    /\ e.shown # None /\ showing = FALSE =>
          ver = previous.ver /\ rg = registry /\ cf = config /\ previous.shown = e.shown
    /\ e.candidate.id # None /\ offering = FALSE =>
          ver = previous.ver /\ rg = registry /\ cf = config /\ previous.candidate = e.candidate
    /\ deleting = TRUE => previous.wasShown
    /\ e.shown = None /\ deleting = FALSE =>
          previous.shown = None /\ (ver = previous.ver \/ ~previous.wasShown)

\* The commands a decision queues are those of the record it leaves.
LEMMA DecideKeeps ==
    ASSUME NEW st, NEW k, NEW previous, NEW rg, NEW cf, NEW t, NEW ver, NEW what,
           NEW registry, NEW config, NEW at, NEW e, NEW gate,
           NEW showing, NEW deleting, NEW offering,
           Decides(st, k, previous, rg, cf, t, ver, what, registry, config, at, e, gate,
                   showing, deleting, offering)
    PROVE  LET v == Decided(st, k, previous, e, gate, showing, deleting, offering)
           IN  /\ Boxed(v) /\ SameButOutbox(st, v) /\ Bound(v, k, ver)
               /\ \A j \in Keys, f \in Families : j # k => Of(v, j, f) = Of(st, j, f)
               /\ \A j \in Keys, n \in Int : Bound(st, j, n) /\ j # k => Bound(v, j, n)
               /\ DiscoveryOf(e, Of(v, k, "discovery"), registry, config, at)
               /\ ConnectorOf(e, Of(v, k, "connector-review"), registry, config, at)
<1>0. Boxed(st) /\ k \in Keys /\ ver \in Nat
  BY DEF Decides
<1> USE DEF Decides
<1> DEFINE u == IF e.shown # None /\ showing THEN Discovery!Show(st, k, e.ver, e.shown, gate)
                ELSE IF e.shown = None /\ deleting THEN Discovery!Delete(st, k, e.ver)
                ELSE st
           v == Decided(st, k, previous, e, gate, showing, deleting, offering)
           D == Of(st, k, "discovery")
           C == Of(st, k, "connector-review")
<1>1. previous.wasShown \in BOOLEAN
  BY DEF EntryIs
<1>2. /\ EntryIs(e, k, registry, config)
      /\ e.ver = ver /\ e.what = what
      /\ e.approval = Discovery!ResolveApproval(registry, k, ver, at)
      /\ e.wasShown = (previous.wasShown \/ e.shown # None)
      /\ e.ids = Discovery!KnownIdsWith(previous, e.candidate)
      /\ e.approval.verified => e.approval.grant.from <= at /\ at <= e.approval.grant.until
  BY <1>1, WrittenIs
<1>3. Bound(st, k, ver)
  <2>1. \A c \in st.outbox : c.ver \in Nat
    BY DEF Boxed
  <2>2. previous.ver \in Int
    BY DEF EntryIs
  <2>q. QED BY <2>1, <2>2 DEF Bound
<1>4. /\ e.shown # None => e.approval.verified
      /\ e.candidate.id # None => e.approval.verified
  BY <1>2, ApprovedIs DEF EntryIs
<1>5. e.approval.verified => GateIs(gate, e, registry, config, at)
  BY <1>2 DEF GateIs, Discovery!Gate
<1>6. /\ {"discovery", "connector-review"} \subseteq Families
      /\ "discovery" # "connector-review"
  BY DEF Families
<1>7. /\ previous.shown # None => previous.approval.verified
      /\ previous.candidate.id # None => previous.approval.verified
  BY ApprovedIs DEF EntryIs
\* An older gate still holds for a record of the same version.
<1>8. ASSUME NEW g, GateIs(g, previous, rg, cf, t), ver = previous.ver, rg = registry, cf = config,
             previous.approval.verified, e.approval.verified
      PROVE  GateIs(g, e, registry, config, at)
  <2>1. e.approval.grant = previous.approval.grant
    BY <1>2, <1>8 DEF EntryIs
  <2>q. QED BY <1>2, <1>8, <2>1 DEF GateIs
<1>9. Discovery!KnownIds(previous) = previous.ids
  BY KnownIs
<1>10. /\ Boxed(u) /\ SameButOutbox(st, u) /\ Bound(u, k, ver)
       /\ \A j \in Keys, f \in Families :
             j # k \/ f # "discovery" => Of(u, j, f) = Of(st, j, f)
       /\ \A j \in Keys, n \in Int : Bound(st, j, n) /\ j # k => Bound(u, j, n)
       /\ DiscoveryOf(e, Of(u, k, "discovery"), registry, config, at)
  <2>1. CASE e.shown # None /\ showing
    <3> DEFINE payload == {e.shown}
    <3>1. u = Discovery!AddOutbox(st, "discovery", "DISCOVERY_UPSERT", k, ver, payload, gate)
      BY <1>2, <2>1 DEF Discovery!Show
    <3> HIDE DEF u, payload
    <3>2. /\ Boxed(u) /\ SameButOutbox(st, u) /\ Bound(u, k, ver)
          /\ \A j \in Keys, f \in Families :
                j # k \/ f # "discovery" => Of(u, j, f) = Of(st, j, f)
          /\ \A j \in Keys, n \in Int : Bound(st, j, n) /\ j # k => Bound(u, j, n)
          /\ \E c : /\ Of(u, k, "discovery") = {c}
                    /\ c.ver = ver /\ c.type = "DISCOVERY_UPSERT" /\ c.payload = payload
                    /\ c.gate = gate
      <4>1. Given(st, u, "discovery", "DISCOVERY_UPSERT", k, ver, payload, gate)
        <5> HIDE DEF Decides
        <5>q. QED BY <1>0, <1>3, <1>6, <3>1, GivenIs
      <4>q. QED BY <4>1 DEF Given
    <3>q. QED BY <1>2, <1>4, <1>5, <2>1, <3>2 DEF DiscoveryOf, payload
  <2>2. CASE e.shown = None /\ deleting
    <3>1. u = Discovery!AddOutbox(st, "discovery", "DISCOVERY_DELETE", k, ver, {}, Discovery!NoGate)
      BY <1>2, <2>2 DEF Discovery!Delete
    <3> HIDE DEF u
    <3>2. /\ Boxed(u) /\ SameButOutbox(st, u) /\ Bound(u, k, ver)
          /\ \A j \in Keys, f \in Families :
                j # k \/ f # "discovery" => Of(u, j, f) = Of(st, j, f)
          /\ \A j \in Keys, n \in Int : Bound(st, j, n) /\ j # k => Bound(u, j, n)
          /\ \E c : /\ Of(u, k, "discovery") = {c}
                    /\ c.ver = ver /\ c.type = "DISCOVERY_DELETE"
      <4>1. Given(st, u, "discovery", "DISCOVERY_DELETE", k, ver, {}, Discovery!NoGate)
        <5> HIDE DEF Decides
        <5>q. QED BY <1>0, <1>3, <1>6, <3>1, GivenIs
      <4>q. QED BY <4>1 DEF Given
    <3>3. e.wasShown
      BY <1>2, <2>2
    <3>q. QED BY <1>2, <2>2, <3>2, <3>3 DEF DiscoveryOf
  <2>3. CASE e.shown # None /\ ~showing
    <3>1. u = st
      BY <2>3
    <3> HIDE DEF u
    <3>2. ver = previous.ver /\ rg = registry /\ cf = config /\ previous.shown = e.shown
      BY <2>3
    <3>3. previous.wasShown
      BY <2>3, <3>2 DEF EntryIs
    <3>4. \A c \in D : /\ c.ver = e.ver /\ c.type = "DISCOVERY_UPSERT" /\ c.payload = {e.shown}
                       /\ GateIs(c.gate, e, registry, config, at)
      BY <1>2, <1>4, <1>7, <1>8, <2>3, <3>2 DEF DiscoveryOf
    <3>5. D # {}
      BY <3>3 DEF DiscoveryOf
    <3>6. DiscoveryOf(e, D, registry, config, at)
      BY <2>3, <3>4, <3>5 DEF DiscoveryOf
    <3>7. SameButOutbox(st, st)
      BY DEF SameButOutbox, Boxed
    <3>q. QED BY <1>3, <3>1, <3>6, <3>7
  <2>4. CASE e.shown = None /\ ~deleting
    <3>1. u = st
      BY <2>4
    <3> HIDE DEF u
    <3>2. previous.shown = None /\ (ver = previous.ver \/ ~previous.wasShown)
      BY <2>4
    <3>3. \A c \in D : previous.wasShown /\ c.ver = previous.ver /\ c.type = "DISCOVERY_DELETE"
      BY <3>2 DEF DiscoveryOf
    <3>4. previous.wasShown => D # {}
      BY DEF DiscoveryOf
    <3>5. e.wasShown = previous.wasShown
      BY <1>1, <1>2, <2>4
    <3>6. DiscoveryOf(e, D, registry, config, at)
      BY <1>2, <2>4, <3>2, <3>3, <3>4, <3>5 DEF DiscoveryOf
    <3>7. SameButOutbox(st, st)
      BY DEF SameButOutbox, Boxed
    <3>q. QED BY <1>3, <3>1, <3>6, <3>7
  <2>q. QED BY <2>1, <2>2, <2>3, <2>4
<1>11. Of(u, k, "connector-review") = C
  BY <1>6, <1>10
<1>12. v = IF e.candidate.id # None /\ offering
           THEN Discovery!Offer(u, k, e.ver, previous, e.candidate, gate)
           ELSE IF e.candidate.id = None /\ Discovery!KnownIds(previous) # {}
           THEN Discovery!Withdraw(u, k, e.ver, previous)
           ELSE u
  BY DEF Decided
<1> HIDE DEF u, v
<1>13. /\ Boxed(v) /\ SameButOutbox(u, v) /\ Bound(v, k, ver)
       /\ \A j \in Keys, f \in Families :
             j # k \/ f # "connector-review" => Of(v, j, f) = Of(u, j, f)
       /\ \A j \in Keys, n \in Int : Bound(u, j, n) /\ j # k => Bound(v, j, n)
       /\ ConnectorOf(e, Of(v, k, "connector-review"), registry, config, at)
  <2>0. Discovery!Offers(e) <=> e.candidate.id # None
    BY DEF Discovery!Offers, None
  <2>1. CASE e.candidate.id # None /\ offering
    <3> DEFINE type == Discovery!ReviewType(previous, e.candidate)
               payload == <<e.candidate, previous.ids \ {e.candidate.id}>>
    <3>1. v = Discovery!AddOutbox(u, "connector-review", type, k, ver, payload, gate)
      BY <1>2, <1>9, <1>12, <2>1 DEF Discovery!Offer
    <3>2. type \in {"CONNECTOR_REGISTRATION_REVIEW", "CONNECTOR_REGISTRATION_REVIEW_REPLACE"}
      BY DEF Discovery!ReviewType
    <3>3. e.ids = previous.ids \cup {e.candidate.id}
      BY <1>2, <1>9, <2>1 DEF Discovery!KnownIdsWith, None
    <3>4. payload = <<e.candidate, e.ids \ {e.candidate.id}>>
      BY <3>3
    <3> HIDE DEF type, payload
    <3>5. /\ Boxed(v) /\ SameButOutbox(u, v) /\ Bound(v, k, ver)
          /\ \A j \in Keys, f \in Families :
                j # k \/ f # "connector-review" => Of(v, j, f) = Of(u, j, f)
          /\ \A j \in Keys, n \in Int : Bound(u, j, n) /\ j # k => Bound(v, j, n)
          /\ \E c : /\ Of(v, k, "connector-review") = {c}
                    /\ c.ver = ver /\ c.type = type /\ c.payload = payload
                    /\ c.gate = gate
      <4>1. Given(u, v, "connector-review", type, k, ver, payload, gate)
        <5> HIDE DEF Decides
        <5>q. QED BY <1>0, <1>6, <1>10, <3>1, GivenIs
      <4>q. QED BY <4>1 DEF Given
    <3>6. ConnectorOf(e, Of(v, k, "connector-review"), registry, config, at)
      <4>1. PICK c : /\ Of(v, k, "connector-review") = {c}
                     /\ c.ver = ver /\ c.type = type /\ c.payload = payload /\ c.gate = gate
        BY <3>5
      <4>q. QED BY <1>2, <1>4, <1>5, <2>0, <2>1, <3>2, <3>4, <4>1 DEF ConnectorOf
    <3>q. QED BY <3>5, <3>6
  <2>2. CASE e.candidate.id = None /\ previous.ids # {}
    <3> DEFINE type == "CONNECTOR_REGISTRATION_REVIEW_WITHDRAW"
    <3>1. v = Discovery!AddOutbox(u, "connector-review", type, k, ver, previous.ids,
                                  Discovery!NoGate)
      BY <1>2, <1>9, <1>12, <2>2 DEF Discovery!Withdraw
    <3>2. e.ids = previous.ids
      BY <1>2, <1>9, <2>2 DEF Discovery!KnownIdsWith, None
    <3>3. /\ Boxed(v) /\ SameButOutbox(u, v) /\ Bound(v, k, ver)
          /\ \A j \in Keys, f \in Families :
                j # k \/ f # "connector-review" => Of(v, j, f) = Of(u, j, f)
          /\ \A j \in Keys, n \in Int : Bound(u, j, n) /\ j # k => Bound(v, j, n)
          /\ \E c : /\ Of(v, k, "connector-review") = {c}
                    /\ c.ver = ver /\ c.type = type /\ c.payload = previous.ids
      <4>1. Given(u, v, "connector-review", type, k, ver, previous.ids, Discovery!NoGate)
        <5> HIDE DEF Decides
        <5>q. QED BY <1>0, <1>6, <1>10, <3>1, GivenIs
      <4>q. QED BY <4>1 DEF Given
    <3>4. ConnectorOf(e, Of(v, k, "connector-review"), registry, config, at)
      BY <1>2, <2>0, <2>2, <3>2, <3>3 DEF ConnectorOf
    <3>q. QED BY <3>3, <3>4
  <2>3. CASE e.candidate.id # None /\ ~offering
    <3>1. v = u
      BY <1>12, <2>3
    <3>2. ver = previous.ver /\ rg = registry /\ cf = config /\ previous.candidate = e.candidate
      BY <2>3
    <3>3. Discovery!Offers(previous) /\ previous.candidate.id \in previous.ids
      BY <2>3, <3>2 DEF EntryIs, Discovery!Offers, None
    <3>4. e.ids = previous.ids
      BY <1>2, <1>9, <2>3, <3>2, <3>3 DEF Discovery!KnownIdsWith, None
    <3>5. \A c \in C : /\ c.ver = e.ver
                       /\ c.type \in {"CONNECTOR_REGISTRATION_REVIEW",
                                      "CONNECTOR_REGISTRATION_REVIEW_REPLACE"}
                       /\ c.payload = <<e.candidate, e.ids \ {e.candidate.id}>>
                       /\ GateIs(c.gate, e, registry, config, at)
      BY <1>2, <1>4, <1>7, <1>8, <2>3, <3>2, <3>3, <3>4 DEF ConnectorOf
    <3>6. ConnectorOf(e, C, registry, config, at)
      BY <2>0, <2>3, <3>3, <3>4, <3>5 DEF ConnectorOf
    <3>7. SameButOutbox(u, u)
      BY <1>10 DEF SameButOutbox
    <3>q. QED BY <1>10, <1>11, <3>1, <3>6, <3>7
  <2>4. CASE e.candidate.id = None /\ previous.ids = {}
    <3>1. v = u
      BY <1>9, <1>12, <2>4
    <3>2. e.ids = {}
      BY <1>2, <1>9, <2>4 DEF Discovery!KnownIdsWith, None
    <3>3. C = {}
      BY <2>4 DEF ConnectorOf, EntryIs
    <3>4. ConnectorOf(e, C, registry, config, at)
      BY <3>2, <3>3 DEF ConnectorOf
    <3>5. SameButOutbox(u, u)
      BY <1>10 DEF SameButOutbox
    <3>q. QED BY <1>10, <1>11, <3>1, <3>4, <3>5
  <2>q. QED BY <2>1, <2>2, <2>3, <2>4
<1>14. Of(v, k, "discovery") = Of(u, k, "discovery")
  BY <1>6, <1>13
<1>15. \A j \in Keys, f \in Families : j # k => Of(v, j, f) = Of(st, j, f)
  BY <1>10, <1>13
<1>16. \A j \in Keys, n \in Int : Bound(st, j, n) /\ j # k => Bound(v, j, n)
  BY <1>10, <1>13
<1>17. SameButOutbox(st, v)
  BY <1>10, <1>13 DEF SameButOutbox
<1>q. QED BY <1>10, <1>13, <1>14, <1>15, <1>16, <1>17 DEF v

-----------------------------------------------------------------------------
(* The operations on the state.                                            *)

\* A failure of one operation is the failure of the batch.
LEMMA AddFails ==
    ASSUME NEW st, DOMAIN st = StateFields, NEW family, NEW type, NEW k, NEW ver, NEW payload,
           NEW gate
    PROVE  LET t == Discovery!AddOutbox(st, family, type, k, ver, payload, gate)
           IN  DOMAIN t = StateFields /\ t.failed = st.failed
BY DEF Discovery!AddOutbox, StateFields

LEMMA DecideFails ==
    ASSUME NEW st, DOMAIN st = StateFields, NEW k, NEW previous, NEW e, NEW gate,
           NEW showing, NEW deleting, NEW offering
    PROVE  LET t == Decided(st, k, previous, e, gate, showing, deleting, offering)
           IN  DOMAIN t = StateFields /\ t.failed = st.failed
<1> DEFINE u == IF e.shown # None /\ showing THEN Discovery!Show(st, k, e.ver, e.shown, gate)
                ELSE IF e.shown = None /\ deleting THEN Discovery!Delete(st, k, e.ver)
                ELSE st
           v == Decided(st, k, previous, e, gate, showing, deleting, offering)
<1>1. DOMAIN u = StateFields /\ u.failed = st.failed
  BY AddFails DEF Discovery!Show, Discovery!Delete
<1>2. v = IF e.candidate.id # None /\ offering
          THEN Discovery!Offer(u, k, e.ver, previous, e.candidate, gate)
          ELSE IF e.candidate.id = None /\ Discovery!KnownIds(previous) # {}
          THEN Discovery!Withdraw(u, k, e.ver, previous)
          ELSE u
  BY DEF Decided
<1> HIDE DEF u, v
<1>3. DOMAIN v = StateFields /\ v.failed = u.failed
  BY <1>1, <1>2, AddFails DEF Discovery!Offer, Discovery!Withdraw
<1>q. QED BY <1>1, <1>3 DEF v

LEMMA SetFails ==
    ASSUME NEW st, DOMAIN st = StateFields, NEW k, NEW e
    PROVE  LET t == Discovery!SetRecord(st, k, e)
           IN  /\ DOMAIN t = StateFields
               /\ st.failed => t.failed
               /\ ~t.failed => t = [st EXCEPT !.records[k] = e]
<1> DEFINE t == Discovery!SetRecord(st, k, e)
           r == [st EXCEPT !.records[k] = e]
           f == [st EXCEPT !.failed = TRUE]
<1>1. t = r \/ t = f
  BY DEF Discovery!SetRecord, Discovery!Fail
<1>2. DOMAIN r = StateFields /\ DOMAIN f = StateFields /\ r.failed = st.failed /\ f.failed = TRUE
  BY DEF StateFields
<1> HIDE DEF t, r, f
<1>3. CASE t = r
  BY <1>2, <1>3 DEF t, r
<1>4. CASE t = f
  <2>1. t.failed = TRUE /\ DOMAIN t = StateFields
    BY <1>2, <1>4
  <2>q. QED BY <2>1 DEF t
<1>q. QED BY <1>1, <1>3, <1>4

\* The reconciliation of a record is its decision, unless it has no canonical form.
LEMMA ReconcileIs ==
    ASSUME NEW st, DOMAIN st = StateFields, NEW k, NEW renewed, NEW registry, NEW config, NEW at
    PROVE  LET previous == st.records[k]
               e == Written(previous, k, previous.ver, previous.what, registry, config, at)
               gate == Discovery!Gate(registry, config, e.approval, previous.ver, at)
               v == Decided(st, k, previous, e, gate, e.shown # previous.shown \/ renewed,
                            previous.shown # None, e.candidate # previous.candidate \/ renewed)
               u == Discovery!ReconcileRecord(st, k, renewed, registry, config, at)
           IN  /\ ~Discovery!HasCanonical(previous) => u = st
               /\ Discovery!HasCanonical(previous) /\ DOMAIN previous = EntryFields =>
                    u = Discovery!SetRecord(v, k, e)
               /\ Discovery!HasCanonical(previous) => \E w : u = Discovery!SetRecord(v, k, w)
<1> DEFINE previous == st.records[k]
           ver == previous.ver
           approval == Discovery!ResolveApproval(registry, k, ver, at)
           shown == Discovery!Projection(previous.what, approval)
           candidate == Discovery!Candidate(previous.what, approval, config)
           ids == Discovery!KnownIdsWith(previous, candidate)
           e == Written(previous, k, ver, previous.what, registry, config, at)
           gate == Discovery!Gate(registry, config, approval, ver, at)
           discovery == IF shown # None /\ (shown # previous.shown \/ renewed)
                        THEN Discovery!Show(st, k, ver, shown, gate)
                        ELSE IF shown = None /\ previous.shown # None
                        THEN Discovery!Delete(st, k, ver)
                        ELSE st
           connector == IF candidate.id # None /\ (candidate # previous.candidate \/ renewed)
                        THEN Discovery!Offer(discovery, k, ver, previous, candidate, gate)
                        ELSE IF candidate.id = None /\ Discovery!KnownIds(previous) # {}
                        THEN Discovery!Withdraw(discovery, k, ver, previous)
                        ELSE discovery
           wasShown == previous.wasShown \/ shown # None
           w == [previous EXCEPT !.approval = approval, !.shown = shown,
                                 !.candidate = candidate,
                                 !.wasShown = wasShown,
                                 !.ids = ids]
           gated == Discovery!Gate(registry, config, e.approval, ver, at)
           v == Decided(st, k, previous, e, gated, e.shown # previous.shown \/ renewed,
                        previous.shown # None, e.candidate # previous.candidate \/ renewed)
           u == Discovery!ReconcileRecord(st, k, renewed, registry, config, at)
<1>1. u = IF ~Discovery!HasCanonical(previous) THEN st ELSE Discovery!SetRecord(connector, k, w)
  BY Zenon DEF Discovery!ReconcileRecord, None
<1>2. e = [ver |-> ver, what |-> previous.what, approval |-> approval, shown |-> shown,
           wasShown |-> wasShown, candidate |-> candidate, ids |-> ids]
  BY DEF Written
<1>3. e.shown = shown /\ e.candidate = candidate /\ e.approval = approval /\ e.ver = ver
  <2> HIDE DEF approval, shown, candidate, ids, e, previous, ver
  <2>q. QED BY <1>2
<1>4. v = connector
  <2>1. gated = gate
    BY <1>3
  <2> HIDE DEF approval, shown, candidate, ids, e, previous, ver, gate, gated
  <2>q. QED BY <1>3, <2>1 DEF Decided
<1>5. DOMAIN previous = EntryFields => w = e
  <2> HIDE DEF approval, shown, candidate, ids, e, previous, wasShown, ver
  <2> SUFFICES ASSUME DOMAIN previous = EntryFields PROVE w = e
    OBVIOUS
  <2>1. DOMAIN w = EntryFields /\ DOMAIN e = EntryFields
    BY <1>2 DEF EntryFields
  <2>2. /\ w.ver = previous.ver /\ w.what = previous.what /\ w.approval = approval
        /\ w.shown = shown /\ w.wasShown = wasShown /\ w.candidate = candidate /\ w.ids = ids
    BY DEF EntryFields
  <2>3. /\ e.ver = ver /\ e.what = previous.what /\ e.approval = approval
        /\ e.shown = shown /\ e.wasShown = wasShown /\ e.candidate = candidate /\ e.ids = ids
    BY <1>2
  <2>4. \A x \in EntryFields : w[x] = e[x]
    BY <2>2, <2>3 DEF EntryFields, ver
  <2>5. w = [x \in EntryFields |-> w[x]] /\ e = [x \in EntryFields |-> e[x]]
    BY <1>2, <2>1
  <2>q. QED BY <2>4, <2>5
<1> HIDE DEF connector, w
<1>6. /\ ~Discovery!HasCanonical(previous) => u = st
      /\ Discovery!HasCanonical(previous) /\ DOMAIN previous = EntryFields =>
           u = Discovery!SetRecord(v, k, e)
      /\ Discovery!HasCanonical(previous) => \E x : u = Discovery!SetRecord(v, k, x)
  <2> HIDE DEF u, v, e, previous
  <2>q. QED BY <1>1, <1>4, <1>5
<1>q. QED BY <1>6

LEMMA ReconcileFails ==
    ASSUME NEW st, DOMAIN st = StateFields, NEW k, NEW renewed, NEW registry, NEW config, NEW at
    PROVE  LET u == Discovery!ReconcileRecord(st, k, renewed, registry, config, at)
           IN  DOMAIN u = StateFields /\ (st.failed => u.failed)
<1> DEFINE previous == st.records[k]
           e == Written(previous, k, previous.ver, previous.what, registry, config, at)
           gate == Discovery!Gate(registry, config, e.approval, previous.ver, at)
           v == Decided(st, k, previous, e, gate, e.shown # previous.shown \/ renewed,
                        previous.shown # None, e.candidate # previous.candidate \/ renewed)
           u == Discovery!ReconcileRecord(st, k, renewed, registry, config, at)
<1>1. u = st \/ \E w : u = Discovery!SetRecord(v, k, w)
  BY ReconcileIs
<1>2. DOMAIN v = StateFields /\ v.failed = st.failed
  BY DecideFails
<1> HIDE DEF u, v
<1>3. CASE u = st
  BY <1>3 DEF u
<1>4. CASE \E w : u = Discovery!SetRecord(v, k, w)
  <2>1. PICK w : u = Discovery!SetRecord(v, k, w)
    BY <1>4
  <2>2. DOMAIN u = StateFields /\ (v.failed => u.failed)
    BY <1>2, <2>1, SetFails
  <2>q. QED BY <1>2, <2>2 DEF u
<1>q. QED BY <1>1, <1>3, <1>4

\* Only one record and its commands change.
OnlyKey(st, t, k) ==
    /\ DOMAIN t = StateFields /\ DOMAIN t.records = DOMAIN st.records
    /\ \A j \in Keys : j # k =>
          /\ t.records[j] = st.records[j]
          /\ \A f \in Families : Of(t, j, f) = Of(st, j, f)
          /\ \A n \in Int : Bound(st, j, n) => Bound(t, j, n)
    /\ t.registry = st.registry /\ t.config = st.config
    /\ t.evaluated = st.evaluated /\ t.reviewed = st.reviewed

\* The other records agree as before.
LEMMA OthersStay ==
    ASSUME NEW st, NEW t, NEW k, OnlyKey(st, t, k), NEW j \in Keys, j # k,
           NEW registry, NEW config, NEW at, KeyIs(st, j, registry, config, at)
    PROVE  KeyIs(t, j, registry, config, at)
<1>1. st.records[j].ver \in Int
  BY DEF KeyIs, EntryIs
<1>2. Of(t, j, "discovery") = Of(st, j, "discovery")
      /\ Of(t, j, "connector-review") = Of(st, j, "connector-review")
  BY DEF OnlyKey, Families
<1>q. QED BY <1>1, <1>2 DEF OnlyKey, KeyIs

\* A record that is reconciled agrees with the new registry and config.
LEMMA ReconcileKeeps ==
    ASSUME NEW st, Boxed(st), NEW k \in Keys, DOMAIN st.records = Keys,
           NEW rg, NEW cf, NEW t \in Int, KeyIs(st, k, rg, cf, t),
           NEW registry \in Registries, NEW config, NEW at \in Nat, t <= at,
           NEW renewed \in BOOLEAN, ~renewed => rg = registry /\ cf = config,
           ~Discovery!ReconcileRecord(st, k, renewed, registry, config, at).failed
    PROVE  LET u == Discovery!ReconcileRecord(st, k, renewed, registry, config, at)
           IN  /\ Boxed(u) /\ OnlyKey(st, u, k) /\ u.seen = st.seen
               /\ KeyIs(u, k, registry, config, at)
               /\ u.records[k].ver = st.records[k].ver /\ u.records[k].what = st.records[k].what
<1> DEFINE previous == st.records[k]
           ver == previous.ver
           e == Written(previous, k, ver, previous.what, registry, config, at)
           gate == Discovery!Gate(registry, config, e.approval, ver, at)
           showing == e.shown # previous.shown \/ renewed
           deleting == previous.shown # None
           offering == e.candidate # previous.candidate \/ renewed
           v == Decided(st, k, previous, e, gate, showing, deleting, offering)
           u == Discovery!ReconcileRecord(st, k, renewed, registry, config, at)
<1>1. DOMAIN st = StateFields
  BY DEF Boxed
<1>2. /\ EntryIs(previous, k, rg, cf)
      /\ DiscoveryOf(previous, Of(st, k, "discovery"), rg, cf, t)
      /\ ConnectorOf(previous, Of(st, k, "connector-review"), rg, cf, t)
      /\ Bound(st, k, previous.ver)
  BY DEF KeyIs
<1>3. DOMAIN previous = EntryFields
  BY <1>2 DEF EntryIs
<1>4. /\ ~Discovery!HasCanonical(previous) => u = st
      /\ Discovery!HasCanonical(previous) => u = Discovery!SetRecord(v, k, e)
  BY <1>1, <1>3, ReconcileIs
<1>5. CASE ~Discovery!HasCanonical(previous)
  <2>1. ~previous.approval.verified
    BY <1>2, <1>5 DEF EntryIs
  <2>2. /\ previous.shown = None /\ previous.candidate.id = None
        /\ previous.candidate = Discovery!Candidate(previous.what, previous.approval, config)
    <3> HIDE DEF previous
    <3>q. QED BY <1>2, <2>1, ApprovedIs DEF EntryIs
  <2> HIDE DEF previous, u
  <2>3. EntryIs(previous, k, registry, config)
    BY <1>2, <2>1, <2>2 DEF EntryIs
  <2>4. ~Discovery!Offers(previous)
    BY <2>2 DEF Discovery!Offers, None
  <2>5. /\ DiscoveryOf(previous, Of(st, k, "discovery"), registry, config, at)
        /\ ConnectorOf(previous, Of(st, k, "connector-review"), registry, config, at)
    BY <1>2, <2>2, <2>4 DEF DiscoveryOf, ConnectorOf
  <2>6. KeyIs(st, k, registry, config, at)
    BY <1>2, <2>3, <2>5 DEF KeyIs, previous
  <2>7. OnlyKey(st, st, k)
    BY <1>1 DEF OnlyKey
  <2>q. QED BY <1>4, <1>5, <2>6, <2>7 DEF u
<1>6. CASE Discovery!HasCanonical(previous)
  <2>1. previous.what \notin {"none", "broken", "deleted"}
    BY <1>6 DEF Discovery!HasCanonical
  <2>2. ver \in Nat /\ GrantsAre(k, ver) /\ ver <= ver /\ previous.wasShown \in BOOLEAN
    <3> HIDE DEF previous
    <3>q. QED BY <1>2, <2>1 DEF EntryIs
  <2>3. /\ EntryIs(e, k, registry, config) /\ e.ver = ver /\ e.what = previous.what
    <3> HIDE DEF previous, ver
    <3>q. QED BY <2>1, <2>2, WrittenIs
  <2>4. showing \in BOOLEAN /\ deleting \in BOOLEAN /\ offering \in BOOLEAN
    OBVIOUS
  <2>5. /\ e.shown # None /\ ~showing =>
             ver = previous.ver /\ rg = registry /\ cf = config /\ previous.shown = e.shown
        /\ e.candidate.id # None /\ ~offering =>
             ver = previous.ver /\ rg = registry /\ cf = config /\ previous.candidate = e.candidate
    <3> HIDE DEF previous, e
    <3>q. QED OBVIOUS
  <2>6. deleting => previous.wasShown
    BY <1>2 DEF EntryIs
  <2>7. e.shown = None /\ ~deleting =>
             previous.shown = None /\ (ver = previous.ver \/ ~previous.wasShown)
    OBVIOUS
  <2>8. ver \in Nat /\ previous.ver <= ver /\ GrantsAre(k, ver)
    BY <2>2
  <2> DEFINE what == previous.what
  <2>18. /\ e = Written(previous, k, ver, what, registry, config, at)
         /\ gate = Discovery!Gate(registry, config, e.approval, ver, at)
         /\ v = Decided(st, k, previous, e, gate, showing, deleting, offering)
         /\ what \notin {"none", "broken", "deleted"}
    BY <2>1
  <2> HIDE DEF previous, ver, e, gate, showing, deleting, offering, v, u, what
  <2>19. Decides(st, k, previous, rg, cf, t, ver, what, registry, config, at, e, gate,
                 showing, deleting, offering)
    BY <1>2, <2>4, <2>5, <2>6, <2>7, <2>8, <2>18 DEF Decides
  <2>9. /\ Boxed(v) /\ SameButOutbox(st, v) /\ Bound(v, k, ver)
        /\ \A j \in Keys, f \in Families : j # k => Of(v, j, f) = Of(st, j, f)
        /\ \A j \in Keys, n \in Int : Bound(st, j, n) /\ j # k => Bound(v, j, n)
        /\ DiscoveryOf(e, Of(v, k, "discovery"), registry, config, at)
        /\ ConnectorOf(e, Of(v, k, "connector-review"), registry, config, at)
    BY <2>18, <2>19, DecideKeeps
  <2>10. u = [v EXCEPT !.records[k] = e]
    BY <1>4, <1>6, <2>9, SetFails DEF SameButOutbox, u
  <2>11. /\ u.records = [v.records EXCEPT ![k] = e] /\ u.outbox = v.outbox /\ u.next = v.next
         /\ u.seen = v.seen /\ u.registry = v.registry /\ u.config = v.config
         /\ u.evaluated = v.evaluated /\ u.reviewed = v.reviewed
         /\ DOMAIN u = StateFields
    BY <2>9, <2>10 DEF SameButOutbox, StateFields
  <2>12. /\ u.records[k] = e /\ DOMAIN u.records = Keys
         /\ \A j \in Keys : j # k => u.records[j] = st.records[j]
    BY <2>9, <2>11 DEF SameButOutbox
  <2>13. /\ \A j, f : Of(u, j, f) = Of(v, j, f)
         /\ \A j, n : Bound(v, j, n) => Bound(u, j, n)
    BY <2>11 DEF Of, Bound
  <2>14. Boxed(u)
    BY <2>9, <2>11 DEF Boxed
  <2>15. KeyIs(u, k, registry, config, at)
    BY <2>3, <2>9, <2>12, <2>13 DEF KeyIs
  <2>16. OnlyKey(st, u, k)
    BY <2>9, <2>11, <2>12, <2>13 DEF OnlyKey, SameButOutbox
  <2>17. u.seen = st.seen
    BY <2>9, <2>11 DEF SameButOutbox
  <2>q. QED BY <2>3, <2>12, <2>14, <2>15, <2>16, <2>17 DEF u, previous, ver
<1>q. QED BY <1>5, <1>6

\* The acceptance of an event is the decision on the record it leaves.
LEMMA AcceptIs ==
    ASSUME NEW st, NEW event, NEW previous, NEW registry, NEW config, NEW at
    PROVE  LET k == event.key
               e == Written(previous, k, event.ver, event.what, registry, config, at)
               gate == Discovery!Gate(registry, config, e.approval, event.ver, at)
           IN  Discovery!Accept(st, event, previous, registry, config, at)
               = Decided(Discovery!SetRecord(st, k, e), k, previous, e, gate,
                         TRUE, previous.wasShown, TRUE)
<1> DEFINE k == event.key
           ver == event.ver
           what == event.what
           e == Written(previous, k, ver, what, registry, config, at)
           gate == Discovery!Gate(registry, config, e.approval, ver, at)
           put == Discovery!SetRecord(st, k, e)
           u == Discovery!Accept(st, event, previous, registry, config, at)
           v == Decided(put, k, previous, e, gate, TRUE, previous.wasShown, TRUE)
           approval == Discovery!ResolveApproval(registry, k, ver, at)
           shown == Discovery!Projection(what, approval)
           candidate == Discovery!Candidate(what, approval, config)
           entry == [ver |-> ver, what |-> what, approval |-> approval,
                     shown |-> shown, wasShown |-> previous.wasShown \/ shown # None,
                     candidate |-> candidate,
                     ids |-> Discovery!KnownIdsWith(previous, candidate)]
           gated == Discovery!Gate(registry, config, approval, ver, at)
           discovery == IF shown # None THEN Discovery!Show(put, k, ver, shown, gated)
                        ELSE IF previous.wasShown THEN Discovery!Delete(put, k, ver)
                        ELSE put
<1>1. e = entry
  BY DEF Written
<1>2. e.shown = shown /\ e.candidate = candidate /\ e.approval = approval /\ e.ver = ver
  BY <1>1
<1>3. u = IF candidate.id # None
          THEN Discovery!Offer(discovery, k, ver, previous, candidate, gated)
          ELSE IF Discovery!KnownIds(previous) # {}
          THEN Discovery!Withdraw(discovery, k, ver, previous)
          ELSE discovery
  BY <1>1, Zenon DEF Discovery!Accept, None
<1>4. gated = gate
  BY <1>2
<1>5. u = v
  <2> HIDE DEF u, shown, candidate, approval, put, gate, gated, e, k, ver
  <2>q. QED BY <1>2, <1>3, <1>4 DEF Decided
<1>q. QED BY <1>5

\* A record of a later event is of that event and agrees with its commands.
LEMMA AcceptKeeps ==
    ASSUME NEW st, Boxed(st), NEW event, event.key \in Keys, event.ver \in Nat,
           event.what \notin {"none", "broken", "deleted"}, GrantsAre(event.key, event.ver),
           DOMAIN st.records = Keys, st.records[event.key].ver < event.ver,
           NEW registry \in Registries, NEW config, NEW at \in Nat,
           KeyIs(st, event.key, registry, config, at),
           ~Discovery!Accept(st, event, st.records[event.key], registry, config, at).failed
    PROVE  LET u == Discovery!Accept(st, event, st.records[event.key], registry, config, at)
           IN  /\ Boxed(u) /\ OnlyKey(st, u, event.key) /\ u.seen = st.seen
               /\ KeyIs(u, event.key, registry, config, at)
               /\ u.records[event.key].ver = event.ver /\ u.records[event.key].what = event.what
<1> DEFINE k == event.key
           ver == event.ver
           what == event.what
           previous == st.records[k]
           e == Written(previous, k, ver, what, registry, config, at)
           gate == Discovery!Gate(registry, config, e.approval, ver, at)
           put == Discovery!SetRecord(st, k, e)
           deleting == previous.wasShown
           u == Discovery!Accept(st, event, previous, registry, config, at)
           v == Decided(put, k, previous, e, gate, TRUE, deleting, TRUE)
<1>1. DOMAIN st = StateFields
  BY DEF Boxed
<1>2. /\ EntryIs(previous, k, registry, config)
      /\ DiscoveryOf(previous, Of(st, k, "discovery"), registry, config, at)
      /\ ConnectorOf(previous, Of(st, k, "connector-review"), registry, config, at)
      /\ Bound(st, k, previous.ver)
  BY DEF KeyIs
<1>3. previous.wasShown \in BOOLEAN /\ previous.ver <= ver
  <2> HIDE DEF previous
  <2>1. previous.ver < ver
    BY DEF previous
  <2>q. QED BY <1>2, <2>1 DEF EntryIs
<1>4. /\ EntryIs(e, k, registry, config) /\ e.ver = ver /\ e.what = what
  <2> HIDE DEF previous
  <2>q. QED BY <1>3, WrittenIs
<1>5. u = v
  BY AcceptIs
<1>6. DOMAIN put = StateFields /\ v.failed = put.failed
  <2>1. DOMAIN put = StateFields
    BY <1>1, SetFails
  <2> HIDE DEF put, e, gate, previous
  <2>2. \A x, y, z : Decided(put, k, previous, e, gate, x, y, z).failed = put.failed
    BY <2>1, DecideFails
  <2>q. QED BY <2>1, <2>2
<1>7. put = [st EXCEPT !.records[k] = e]
  <2>1. ~u.failed
    OBVIOUS
  <2> HIDE DEF u, v, e
  <2>q. QED BY <1>1, <1>5, <1>6, <2>1, SetFails
<1> HIDE DEF u, v, put
<1>8. /\ put.records = [st.records EXCEPT ![k] = e] /\ put.outbox = st.outbox
      /\ put.next = st.next /\ put.seen = st.seen /\ put.registry = st.registry
      /\ put.config = st.config /\ put.evaluated = st.evaluated
      /\ put.reviewed = st.reviewed
  <2> HIDE DEF e
  <2>q. QED BY <1>1, <1>7 DEF StateFields
<1> HIDE DEF e, previous, gate
<1>9. /\ put.records[k] = e /\ DOMAIN put.records = Keys
      /\ \A j \in Keys : j # k => put.records[j] = st.records[j]
      /\ \A j, f : Of(put, j, f) = Of(st, j, f)
      /\ \A j, n : Bound(put, j, n) <=> Bound(st, j, n)
      /\ Boxed(put)
  BY <1>6, <1>8 DEF Of, Bound, Boxed
<1>10. /\ e = Written(previous, k, ver, what, registry, config, at)
       /\ gate = Discovery!Gate(registry, config, e.approval, ver, at)
       /\ deleting = FALSE => previous.shown = None
       /\ {TRUE, deleting} \subseteq BOOLEAN
  BY <1>2, <1>3 DEF e, gate, EntryIs
<1>11. Decides(put, k, previous, registry, config, at, ver, what, registry, config, at, e, gate,
               TRUE, deleting, TRUE)
  <2> HIDE DEF deleting
  <2>1. deleting = TRUE => previous.wasShown
    BY DEF deleting
  <2>2. deleting = FALSE => ~previous.wasShown
    BY DEF deleting
  <2>q. QED BY <1>2, <1>3, <1>9, <1>10, <2>1, <2>2 DEF Decides
<1>12. /\ Boxed(v) /\ SameButOutbox(put, v) /\ Bound(v, k, ver)
       /\ \A j \in Keys, f \in Families : j # k => Of(v, j, f) = Of(put, j, f)
       /\ \A j \in Keys, n \in Int : Bound(put, j, n) /\ j # k => Bound(v, j, n)
       /\ DiscoveryOf(e, Of(v, k, "discovery"), registry, config, at)
       /\ ConnectorOf(e, Of(v, k, "connector-review"), registry, config, at)
  BY <1>11, DecideKeeps DEF v
<1>13. KeyIs(v, k, registry, config, at)
  BY <1>4, <1>9, <1>12 DEF KeyIs, SameButOutbox
<1>14. OnlyKey(st, v, k)
  BY <1>8, <1>9, <1>12 DEF OnlyKey, SameButOutbox
<1>15. v.seen = st.seen /\ v.records[k] = e
  BY <1>8, <1>9, <1>12 DEF SameButOutbox
<1>q. QED BY <1>4, <1>5, <1>12, <1>13, <1>14, <1>15 DEF u, previous

\* A withdrawn or broken record has left nothing out.
LEMMA ProtectKeeps ==
    ASSUME NEW st, Boxed(st), NEW event, event.key \in Keys, event.ver \in Nat,
           event.what \in {"broken", "deleted"}, GrantsAre(event.key, event.ver),
           DOMAIN st.records = Keys, st.records[event.key].ver < event.ver,
           NEW registry, NEW config, NEW at \in Nat,
           KeyIs(st, event.key, registry, config, at)
    PROVE  LET u == Discovery!Protect(st, event, st.records[event.key])
           IN  /\ Boxed(u) /\ OnlyKey(st, u, event.key) /\ u.seen = st.seen
               /\ u.failed = st.failed
               /\ KeyIs(u, event.key, registry, config, at)
               /\ u.records[event.key].ver = event.ver /\ u.records[event.key].what = event.what
<1> DEFINE k == event.key
           ver == event.ver
           what == event.what
           previous == st.records[k]
           bare == [Discovery!Absent EXCEPT !.ver = ver, !.what = what,
                                            !.ids = Discovery!KnownIds(previous),
                                            !.wasShown = previous.wasShown]
           marked == [st EXCEPT !.records[k] = bare]
           closed == IF previous.wasShown \/ previous.shown # None
                     THEN Discovery!Delete(marked, k, ver) ELSE marked
           u == Discovery!Protect(st, event, previous)
           none == [id |-> None, grant |-> NoGrant]
<1>0. k \in Keys /\ ver \in Nat
  OBVIOUS
<1>1. u = IF Discovery!KnownIds(previous) # {} THEN Discovery!Withdraw(closed, k, ver, previous)
          ELSE closed
  BY Zenon DEF Discovery!Protect, None
<1>2. /\ EntryIs(previous, k, registry, config)
      /\ DiscoveryOf(previous, Of(st, k, "discovery"), registry, config, at)
      /\ ConnectorOf(previous, Of(st, k, "connector-review"), registry, config, at)
      /\ Bound(st, k, previous.ver)
      /\ previous.ver < ver
  BY DEF KeyIs
<1>3. Discovery!KnownIds(previous) = previous.ids
  BY <1>2, KnownIs
<1>4. /\ bare.ver = ver /\ bare.what = what /\ bare.ids = previous.ids
      /\ bare.wasShown = previous.wasShown /\ bare.approval = Discovery!Unverified(MaxTime + 1)
      /\ bare.shown = None /\ bare.candidate = none
      /\ DOMAIN bare = EntryFields
  <2> DEFINE absent == Discovery!Absent
             wasShown == previous.wasShown
  <2>1. /\ DOMAIN absent = EntryFields
        /\ absent.approval = Discovery!Unverified(MaxTime + 1)
        /\ absent.shown = None /\ absent.candidate = none
    BY DEF Discovery!Absent, Discovery!Never, None, EntryFields
  <2>2. bare = [absent EXCEPT !.ver = ver, !.what = what, !.ids = previous.ids,
                              !.wasShown = wasShown]
    BY <1>3
  <2> HIDE DEF ver, what, previous, absent, none, bare, wasShown
  <2>3. /\ bare.ver = ver /\ bare.what = what /\ bare.ids = previous.ids
        /\ bare.wasShown = wasShown /\ bare.approval = absent.approval
        /\ bare.shown = absent.shown /\ bare.candidate = absent.candidate
        /\ DOMAIN bare = DOMAIN absent
    BY <2>1, <2>2 DEF EntryFields
  <2>q. QED BY <2>1, <2>3 DEF wasShown
<1>5. DOMAIN st = StateFields /\ marked.records = [st.records EXCEPT ![k] = bare]
      /\ marked.outbox = st.outbox /\ marked.next = st.next /\ marked.seen = st.seen
      /\ marked.registry = st.registry /\ marked.config = st.config
      /\ marked.evaluated = st.evaluated /\ marked.reviewed = st.reviewed
      /\ marked.failed = st.failed /\ DOMAIN marked = StateFields
  <2> HIDE DEF bare
  <2>q. QED BY DEF Boxed, StateFields
<1> HIDE DEF u, bare, marked, previous
<1>6. /\ marked.records[k] = bare /\ DOMAIN marked.records = Keys
      /\ \A j \in Keys : j # k => marked.records[j] = st.records[j]
      /\ \A j, f : Of(marked, j, f) = Of(st, j, f)
      /\ \A j, n : Bound(marked, j, n) <=> Bound(st, j, n)
      /\ Boxed(marked)
  BY <1>5 DEF Of, Bound, Boxed
<1>7. Bound(marked, k, ver)
  <2>1. \A c \in marked.outbox : c.ver \in Nat
    BY <1>6 DEF Boxed
  <2>2. previous.ver \in Int
    BY <1>2 DEF EntryIs
  <2>q. QED BY <1>2, <1>6, <2>1, <2>2 DEF Bound
<1>8. EntryIs(bare, k, registry, config)
  <2>1. ~bare.approval.verified
    BY <1>4 DEF Discovery!Unverified
  <2>2. /\ Discovery!Projection(what, bare.approval) = None
        /\ Discovery!Candidate(what, bare.approval, config) = none
    BY DEF Discovery!Projection, Discovery!Candidate, Discovery!IsPublic,
           Discovery!DecideOffering, None
  <2>3. ~Discovery!Offers(bare)
    BY <1>4 DEF Discovery!Offers, None
  <2>4. bare.ver \in Nat /\ bare.ver # -1
    BY <1>4
  <2>5. bare.wasShown \in BOOLEAN
    BY <1>2, <1>4 DEF EntryIs
  <2>q. QED BY <1>4, <2>1, <2>2, <2>3, <2>4, <2>5 DEF EntryIs
<1>9. /\ {"discovery", "connector-review"} \subseteq Families
      /\ "discovery" # "connector-review"
  BY DEF Families
<1>10. previous.shown # None => previous.wasShown
  BY <1>2 DEF EntryIs
<1>11. /\ Boxed(closed) /\ SameButOutbox(marked, closed) /\ Bound(closed, k, ver)
       /\ \A j \in Keys, f \in Families :
             j # k \/ f # "discovery" => Of(closed, j, f) = Of(marked, j, f)
       /\ \A j \in Keys, n \in Int : Bound(marked, j, n) /\ j # k => Bound(closed, j, n)
       /\ DiscoveryOf(bare, Of(closed, k, "discovery"), registry, config, at)
  <2>1. CASE previous.wasShown
    <3>1. closed = Discovery!AddOutbox(marked, "discovery", "DISCOVERY_DELETE", k, ver, {},
                                       Discovery!NoGate)
      BY <2>1 DEF Discovery!Delete
    <3> HIDE DEF closed, k, ver
    <3>2. /\ Boxed(closed) /\ SameButOutbox(marked, closed) /\ Bound(closed, k, ver)
          /\ \A j \in Keys, f \in Families :
                j # k \/ f # "discovery" => Of(closed, j, f) = Of(marked, j, f)
          /\ \A j \in Keys, n \in Int : Bound(marked, j, n) /\ j # k => Bound(closed, j, n)
          /\ \E c : /\ Of(closed, k, "discovery") = {c}
                    /\ c.ver = ver /\ c.type = "DISCOVERY_DELETE"
      <4>1. Boxed(marked)
        BY <1>6
      <4>2. Given(marked, closed, "discovery", "DISCOVERY_DELETE", k, ver, {}, Discovery!NoGate)
        BY <1>0, <1>7, <1>9, <3>1, <4>1, GivenIs
      <4>q. QED BY <4>2 DEF Given
    <3>q. QED BY <1>4, <2>1, <3>2 DEF DiscoveryOf
  <2>2. CASE ~previous.wasShown
    <3>1. closed = marked
      BY <1>10, <2>2
    <3>2. Of(st, k, "discovery") = {}
      BY <1>2, <1>10, <2>2 DEF DiscoveryOf
    <3>3. DiscoveryOf(bare, {}, registry, config, at)
      BY <1>4, <2>2 DEF DiscoveryOf
    <3>4. SameButOutbox(marked, marked)
      BY <1>5 DEF SameButOutbox
    <3> HIDE DEF closed
    <3>q. QED BY <1>6, <1>7, <3>1, <3>2, <3>3, <3>4
  <2>q. QED BY <2>1, <2>2
<1>12. Of(closed, k, "connector-review") = Of(st, k, "connector-review")
  BY <1>6, <1>9, <1>11
<1> HIDE DEF closed
<1>13. /\ Boxed(u) /\ SameButOutbox(closed, u) /\ Bound(u, k, ver)
       /\ \A j \in Keys, f \in Families :
             j # k \/ f # "connector-review" => Of(u, j, f) = Of(closed, j, f)
       /\ \A j \in Keys, n \in Int : Bound(closed, j, n) /\ j # k => Bound(u, j, n)
       /\ ConnectorOf(bare, Of(u, k, "connector-review"), registry, config, at)
  <2>0. ~Discovery!Offers(bare)
    BY <1>4 DEF Discovery!Offers, None
  <2>1. CASE previous.ids # {}
    <3> DEFINE type == "CONNECTOR_REGISTRATION_REVIEW_WITHDRAW"
    <3>1. u = Discovery!AddOutbox(closed, "connector-review", type, k, ver, previous.ids,
                                  Discovery!NoGate)
      BY <1>1, <1>3, <2>1 DEF Discovery!Withdraw
    <3>2. /\ Boxed(u) /\ SameButOutbox(closed, u) /\ Bound(u, k, ver)
          /\ \A j \in Keys, f \in Families :
                j # k \/ f # "connector-review" => Of(u, j, f) = Of(closed, j, f)
          /\ \A j \in Keys, n \in Int : Bound(closed, j, n) /\ j # k => Bound(u, j, n)
          /\ \E c : /\ Of(u, k, "connector-review") = {c}
                    /\ c.ver = ver /\ c.type = type /\ c.payload = previous.ids
      <4>1. Given(closed, u, "connector-review", type, k, ver, previous.ids, Discovery!NoGate)
        BY <1>0, <1>9, <1>11, <3>1, GivenIs
      <4>q. QED BY <4>1 DEF Given
    <3>q. QED BY <1>4, <2>0, <2>1, <3>2 DEF ConnectorOf
  <2>2. CASE previous.ids = {}
    <3>1. u = closed
      BY <1>1, <1>3, <2>2
    <3>2. Of(st, k, "connector-review") = {}
      BY <1>2, <2>2 DEF ConnectorOf, EntryIs
    <3>3. ConnectorOf(bare, {}, registry, config, at)
      BY <1>4, <2>2 DEF ConnectorOf
    <3>4. SameButOutbox(closed, closed)
      BY <1>11 DEF SameButOutbox
    <3>q. QED BY <1>11, <1>12, <3>1, <3>2, <3>3, <3>4
  <2>q. QED BY <2>1, <2>2
<1>14. Of(u, k, "discovery") = Of(closed, k, "discovery")
  BY <1>9, <1>13
<1>15. KeyIs(u, k, registry, config, at)
  BY <1>4, <1>6, <1>8, <1>11, <1>13, <1>14 DEF KeyIs, SameButOutbox
<1>16. OnlyKey(st, u, k)
  <2>1. \A j \in Keys, f \in Families : j # k => Of(u, j, f) = Of(st, j, f)
    BY <1>6, <1>11, <1>13
  <2>2. \A j \in Keys, n \in Int : j # k /\ Bound(st, j, n) => Bound(u, j, n)
    BY <1>6, <1>11, <1>13
  <2>q. QED BY <1>5, <1>6, <1>11, <1>13, <2>1, <2>2 DEF OnlyKey, SameButOutbox
<1>17. u.seen = st.seen /\ u.failed = st.failed /\ u.records[k] = bare
  BY <1>5, <1>6, <1>11, <1>13 DEF SameButOutbox
<1>q. QED BY <1>4, <1>13, <1>15, <1>16, <1>17 DEF u, previous

\* Every event seen is of the record's version or of an earlier one.
SeenIs(st) ==
    \A e \in st.seen :
        /\ e.key \in Keys /\ e.ver \in Nat
        /\ e.ver <= st.records[e.key].ver
        /\ e.ver = st.records[e.key].ver => e.what = st.records[e.key].what

\* The state agrees with a registry and a config, at an instant.
Agrees(st, registry, config, t) ==
    /\ Boxed(st) /\ DOMAIN st.records = Keys /\ SeenIs(st)
    /\ \A k \in Keys : KeyIs(st, k, registry, config, t)

\* What later states keep.
Grows(st, t) ==
    /\ st.seen \subseteq t.seen
    /\ \A k \in Keys : st.records[k].what = "deleted" => t.records[k].what = "deleted"

\* What only a whole run changes.
SameContext(st, t) ==
    /\ t.registry = st.registry /\ t.config = st.config
    /\ t.evaluated = st.evaluated /\ t.reviewed = st.reviewed

\* What validateBatch lets pass.
EventIs(event) ==
    /\ event.key \in Keys /\ event.ver \in Nat /\ event.what \in Discovery!Kinds
    /\ GrantsAre(event.key, event.ver)

\* An event that fails nothing leaves the state in agreement.
LEMMA EventKeeps ==
    ASSUME NEW st, NEW event, EventIs(event), NEW registry \in Registries, NEW config,
           NEW at \in Nat, Agrees(st, registry, config, at),
           ~Discovery!ApplyEvent(st, event, registry, config, at).failed
    PROVE  LET u == Discovery!ApplyEvent(st, event, registry, config, at)
           IN  Agrees(u, registry, config, at) /\ Grows(st, u) /\ SameContext(st, u)
<1> DEFINE k == event.key
           previous == st.records[k]
           noted == [st EXCEPT !.seen = @ \union {event}]
           changed == IF event.what \in {"deleted", "broken"}
                      THEN Discovery!Protect(noted, event, previous)
                      ELSE Discovery!Accept(noted, event, previous, registry, config, at)
           failed == [st EXCEPT !.failed = TRUE]
           u == Discovery!ApplyEvent(st, event, registry, config, at)
<1>1. u = IF st.failed \/ event \in st.seen THEN st
          ELSE IF \E e \in st.seen : e.id = event.id THEN failed
          ELSE IF event.ver < previous.ver THEN noted
          ELSE IF event.ver = previous.ver
          THEN IF event.what = previous.what THEN noted ELSE failed
          ELSE IF previous.what = "deleted" /\ event.what # "deleted" THEN failed
          ELSE changed
  BY Zenon DEF Discovery!ApplyEvent, Discovery!Fail, Discovery!IsStale, Discovery!IsRevival
<1>2. ~u.failed
  OBVIOUS
<1>3. /\ k \in Keys /\ event.ver \in Nat /\ GrantsAre(k, event.ver)
      /\ event.what \in {"offering", "incomplete", "restricted", "excluded", "broken", "deleted"}
  BY DEF EventIs, Discovery!Kinds
<1>4. DOMAIN st = StateFields /\ failed.failed = TRUE
  BY DEF Agrees, Boxed, StateFields
<1>5. /\ noted.seen = st.seen \cup {event} /\ noted.records = st.records
      /\ noted.outbox = st.outbox /\ noted.next = st.next /\ noted.failed = st.failed
      /\ SameContext(st, noted) /\ DOMAIN noted = StateFields
  BY <1>4 DEF StateFields, SameContext
<1> HIDE DEF u, noted, changed, failed
<1>6. /\ Boxed(noted) /\ DOMAIN noted.records = Keys
      /\ \A j \in Keys : KeyIs(noted, j, registry, config, at)
  <2>1. /\ \A j, f : Of(noted, j, f) = Of(st, j, f)
        /\ \A j, n : Bound(st, j, n) => Bound(noted, j, n)
    BY <1>5 DEF Of, Bound
  <2>2. Boxed(noted) /\ DOMAIN noted.records = Keys
    BY <1>5 DEF Agrees, Boxed
  <2>3. \A j \in Keys : KeyIs(noted, j, registry, config, at)
    BY <1>5, <2>1 DEF Agrees, KeyIs
  <2>q. QED BY <2>2, <2>3
<1>7. previous.ver \in Int
  <2>1. KeyIs(st, k, registry, config, at)
    BY <1>3 DEF Agrees
  <2> HIDE DEF k
  <2>q. QED BY <2>1 DEF KeyIs, EntryIs
<1>8. CASE u = st
  BY <1>8 DEF Grows, SameContext, u
<1>9. CASE /\ u = noted
           /\ event.ver < previous.ver \/ (event.ver = previous.ver /\ event.what = previous.what)
  <2>1. SeenIs(noted)
    BY <1>3, <1>5, <1>7, <1>9 DEF Agrees, SeenIs
  <2>2. Grows(st, noted)
    BY <1>5 DEF Grows
  <2>q. QED BY <1>5, <1>6, <1>9, <2>1, <2>2 DEF Agrees, u
<1>10. CASE /\ u = changed /\ ~(event.ver < previous.ver) /\ event.ver # previous.ver
            /\ ~(previous.what = "deleted" /\ event.what # "deleted")
  <2>1. previous.ver < event.ver /\ previous = noted.records[k]
    BY <1>3, <1>5, <1>7, <1>10
  <2>2. KeyIs(noted, k, registry, config, at)
    BY <1>3, <1>6
  <2> HIDE DEF previous
  <2>3. /\ Boxed(changed) /\ OnlyKey(noted, changed, k) /\ changed.seen = noted.seen
        /\ KeyIs(changed, k, registry, config, at)
        /\ changed.records[k].ver = event.ver /\ changed.records[k].what = event.what
    <3>1. CASE event.what \in {"broken", "deleted"}
      <4>1. changed = Discovery!Protect(noted, event, previous)
        BY <3>1 DEF changed
      <4>q. QED BY <1>3, <1>6, <2>1, <2>2, <3>1, <4>1, ProtectKeeps
    <3>2. CASE event.what \notin {"broken", "deleted"}
      <4>1. changed = Discovery!Accept(noted, event, previous, registry, config, at)
        BY <3>2 DEF changed
      <4>2. event.what \notin {"none", "broken", "deleted"}
        BY <1>3, <3>2
      <4>3. ~changed.failed
        BY <1>2, <1>10
      <4>q. QED BY <1>3, <1>6, <2>1, <2>2, <4>1, <4>2, <4>3, AcceptKeeps
    <3>q. QED BY <3>1, <3>2
  <2>4. \A j \in Keys : KeyIs(changed, j, registry, config, at)
    BY <1>6, <2>3, OthersStay
  <2>5. SeenIs(changed)
    <3> SUFFICES ASSUME NEW e \in changed.seen
                 PROVE  /\ e.key \in Keys /\ e.ver \in Nat
                        /\ e.ver <= changed.records[e.key].ver
                        /\ e.ver = changed.records[e.key].ver =>
                              e.what = changed.records[e.key].what
      BY DEF SeenIs
    <3>1. CASE e = event
      BY <1>3, <2>3, <3>1
    <3>2. CASE e # event
      <4>1. e \in st.seen
        BY <1>5, <2>3, <3>2
      <4>2. /\ e.key \in Keys /\ e.ver \in Nat /\ e.ver <= st.records[e.key].ver
            /\ e.ver = st.records[e.key].ver => e.what = st.records[e.key].what
        BY <4>1 DEF Agrees, SeenIs
      <4>3. CASE e.key = k
        <5>1. e.ver <= previous.ver
          BY <4>2, <4>3 DEF previous
        <5>q. QED BY <1>3, <1>7, <2>1, <2>3, <4>2, <4>3, <5>1
      <4>4. CASE e.key # k
        <5>1. changed.records[e.key] = st.records[e.key]
          BY <1>5, <2>3, <4>2, <4>4 DEF OnlyKey
        <5>q. QED BY <4>2, <5>1
      <4>q. QED BY <4>3, <4>4
    <3>q. QED BY <3>1, <3>2
  <2>6. DOMAIN changed.records = Keys /\ SameContext(st, changed)
    BY <1>5, <1>6, <2>3 DEF OnlyKey, SameContext
  <2>7. Grows(st, changed)
    <3>1. \A j \in Keys : j # k => changed.records[j] = st.records[j]
      BY <1>5, <2>3 DEF OnlyKey
    <3>2. st.records[k].what = "deleted" => changed.records[k].what = "deleted"
      BY <1>10, <2>3 DEF previous
    <3>q. QED BY <1>5, <2>3, <3>1, <3>2 DEF Grows
  <2>q. QED BY <1>10, <2>3, <2>4, <2>5, <2>6, <2>7 DEF Agrees, u
<1>11. u # failed
  BY <1>2, <1>4
<1>q. QED BY <1>1, <1>8, <1>9, <1>10, <1>11

\* Nothing is applied to a state that has failed.
LEMMA EventFails ==
    ASSUME NEW st, st.failed, NEW event, NEW registry, NEW config, NEW at
    PROVE  Discovery!ApplyEvent(st, event, registry, config, at) = st
BY Zenon DEF Discovery!ApplyEvent

\* An event leaves a state, whether it fails or not.
LEMMA EventFields ==
    ASSUME NEW st, DOMAIN st = StateFields, NEW event, NEW registry, NEW config, NEW at
    PROVE  DOMAIN Discovery!ApplyEvent(st, event, registry, config, at) = StateFields
<1> DEFINE k == event.key
           previous == st.records[k]
           noted == [st EXCEPT !.seen = @ \union {event}]
           protected == Discovery!Protect(noted, event, previous)
           admitted == Discovery!Accept(noted, event, previous, registry, config, at)
           failed == [st EXCEPT !.failed = TRUE]
           u == Discovery!ApplyEvent(st, event, registry, config, at)
<1>1. u \in {st, noted, protected, admitted, failed}
  BY Zenon DEF Discovery!ApplyEvent, Discovery!Fail
<1>2. DOMAIN noted = StateFields /\ DOMAIN failed = StateFields
  OBVIOUS
<1>3. DOMAIN protected = StateFields
  <2> DEFINE bare == [Discovery!Absent EXCEPT !.ver = event.ver, !.what = event.what,
                                              !.ids = Discovery!KnownIds(previous),
                                              !.wasShown = previous.wasShown]
             marked == [noted EXCEPT !.records[k] = bare]
             closed == IF previous.wasShown \/ previous.shown # Discovery!None
                       THEN Discovery!Delete(marked, k, event.ver) ELSE marked
  <2>1. protected = IF Discovery!KnownIds(previous) # {}
                    THEN Discovery!Withdraw(closed, k, event.ver, previous)
                    ELSE closed
    BY Zenon DEF Discovery!Protect
  <2>2. DOMAIN marked = StateFields
    <3> HIDE DEF bare, noted
    <3>q. QED BY <1>2
  <2>3. DOMAIN closed = StateFields
    <3> HIDE DEF marked, previous
    <3>q. QED BY <2>2, AddFails DEF Discovery!Delete
  <2> HIDE DEF closed, protected, previous
  <2>q. QED BY <2>1, <2>3, AddFails DEF Discovery!Withdraw
<1>4. DOMAIN admitted = StateFields
  <2> DEFINE e == Written(previous, k, event.ver, event.what, registry, config, at)
             gate == Discovery!Gate(registry, config, e.approval, event.ver, at)
             put == Discovery!SetRecord(noted, k, e)
  <2>1. admitted = Decided(put, k, previous, e, gate, TRUE, previous.wasShown, TRUE)
    BY AcceptIs
  <2>2. DOMAIN put = StateFields
    <3> HIDE DEF noted, e
    <3>q. QED BY <1>2, SetFails
  <2> HIDE DEF put, e, gate, previous, admitted
  <2>3. \A x, y, z : DOMAIN Decided(put, k, previous, e, gate, x, y, z) = StateFields
    BY <2>2, DecideFails
  <2>q. QED BY <2>1, <2>3
<1> HIDE DEF u, noted, protected, admitted, failed
<1>q. QED BY <1>1, <1>2, <1>3, <1>4 DEF u

\* A batch that fails nothing leaves the state in agreement.
LEMMA BatchKeeps ==
    ASSUME NEW st, NEW b, Len(b) \in Nat, \A i \in 1..Len(b) : EventIs(b[i]),
           NEW registry \in Registries, NEW config, NEW at \in Nat,
           Agrees(st, registry, config, at)
    PROVE  LET u == Discovery!ApplyBatch(st, b, registry, config, at)
           IN  /\ DOMAIN u = StateFields
               /\ ~u.failed =>
                    Agrees(u, registry, config, at) /\ Grows(st, u) /\ SameContext(st, u)
<1> DEFINE n == Len(b)
           u == Discovery!ApplyBatch(st, b, registry, config, at)
<1>0. PICK g : AppliedIn(g, st, b, registry, config, at)
  BY AppliedInTurn
<1>1. /\ g[0] = st
      /\ \A i \in 1..Len(b) :
            g[i] = Discovery!ApplyEvent(g[i - 1], b[i], registry, config, at)
      /\ u = g[Len(b)]
  BY <1>0 DEF AppliedIn
<1> DEFINE Good(i) == /\ Agrees(g[i], registry, config, at)
                      /\ Grows(st, g[i]) /\ SameContext(st, g[i])
           Bad == {i \in 0..n : ~(DOMAIN g[i] = StateFields /\ (g[i].failed \/ Good(i)))}
<1> HIDE DEF u
<1>2. n \in Nat /\ Bad \in SUBSET Nat
  OBVIOUS
<1>3. Bad = {}
  <2> SUFFICES ASSUME Bad # {} PROVE FALSE
    OBVIOUS
  <2>1. PICK m \in Bad : \A y \in Bad : m <= y
    <3> HIDE DEF Bad
    <3>q. QED BY <1>2, LeastExists
  <2>2. m \in 0..n /\ ~(DOMAIN g[m] = StateFields /\ (g[m].failed \/ Good(m)))
    BY <2>1
  <2>3. m # 0
    <3>1. Good(0) /\ DOMAIN g[0] = StateFields
      BY <1>1 DEF Grows, SameContext, Agrees, Boxed
    <3> HIDE DEF Good, Bad, n
    <3>q. QED BY <2>2, <3>1
  <2>4. m \in 1..n /\ m - 1 \in 0..n /\ m - 1 \notin Bad
    <3>1. m \in 1..n /\ m - 1 \in 0..n /\ ~(m <= m - 1)
      BY <1>2, <2>2, <2>3
    <3> HIDE DEF Bad, n
    <3>q. QED BY <2>1, <3>1
  <2>5. DOMAIN g[m - 1] = StateFields /\ (g[m - 1].failed \/ Good(m - 1))
    BY <2>4
  <2>6. g[m] = Discovery!ApplyEvent(g[m - 1], b[m], registry, config, at)
    BY <1>1, <2>4
  <2>11. DOMAIN g[m] = StateFields /\ ~g[m].failed /\ ~Good(m)
    BY <2>2, <2>5, <2>6, EventFields
  <2>7. ~g[m - 1].failed
    <3> SUFFICES ASSUME g[m - 1].failed PROVE FALSE
      OBVIOUS
    <3>1. g[m] = g[m - 1]
      BY <2>6, EventFails
    <3>q. QED BY <2>11, <3>1
  <2>8. Agrees(g[m - 1], registry, config, at) /\ EventIs(b[m])
    BY <2>4, <2>5, <2>7
  <2>9. Agrees(g[m], registry, config, at) /\ Grows(g[m - 1], g[m]) /\ SameContext(g[m - 1], g[m])
    BY <2>6, <2>8, <2>11, EventKeeps
  <2>10. Good(m)
    BY <2>5, <2>7, <2>9 DEF Grows, SameContext
  <2>q. QED BY <2>10, <2>11
<1>4. n \notin Bad /\ n \in 0..n
  BY <1>2, <1>3
<1>5. DOMAIN u = StateFields /\ (u.failed \/ Good(n))
  <2> HIDE DEF Good
  <2>q. QED BY <1>1, <1>4
<1>q. QED BY <1>1, <1>5 DEF u

\* The reconciliation of every record leaves the state in agreement with the new
\* registry and config.
LEMMA RecordsKeep ==
    ASSUME NEW st, Boxed(st), DOMAIN st.records = Keys, SeenIs(st),
           NEW rg, NEW cf, NEW t \in Int, \A k \in Keys : KeyIs(st, k, rg, cf, t),
           NEW registry \in Registries, NEW config, NEW at \in Nat, t <= at,
           NEW renewed \in BOOLEAN, ~renewed => rg = registry /\ cf = config
    PROVE  LET u == Discovery!ReconcileRecords(st, renewed, registry, config, at)
           IN  /\ DOMAIN u = StateFields
               /\ ~u.failed =>
                    Agrees(u, registry, config, at) /\ Grows(st, u) /\ SameContext(st, u)
<1> DEFINE n == Len(Order)
           u == Discovery!ReconcileRecords(st, renewed, registry, config, at)
<1>1. PICK g : /\ g[0] = st
               /\ \A i \in 1..Len(Order) :
                     g[i] = Discovery!ReconcileRecord(g[i - 1], Order[i], renewed, registry, config, at)
               /\ u = g[Len(Order)]
  BY ReconciledInTurn
<1> DEFINE Done(i, k) == \E j \in 1..i : Order[j] = k
           Good(i) == /\ Boxed(g[i]) /\ DOMAIN g[i].records = Keys
                      /\ g[i].seen = st.seen /\ SameContext(st, g[i])
                      /\ \A k \in Keys :
                            /\ g[i].records[k].ver = st.records[k].ver
                            /\ g[i].records[k].what = st.records[k].what
                            /\ IF Done(i, k) THEN KeyIs(g[i], k, registry, config, at)
                               ELSE KeyIs(g[i], k, rg, cf, t)
           Bad == {i \in 0..n : ~(DOMAIN g[i] = StateFields /\ (g[i].failed \/ Good(i)))}
<1> HIDE DEF u
<1>2. n \in Nat /\ Bad \in SUBSET Nat
  BY DiscoveryAssumption
<1>3. Bad = {}
  <2> SUFFICES ASSUME Bad # {} PROVE FALSE
    OBVIOUS
  <2>1. PICK m \in Bad : \A y \in Bad : m <= y
    <3> HIDE DEF Bad
    <3>q. QED BY <1>2, LeastExists
  <2>2. m \in 0..n /\ ~(DOMAIN g[m] = StateFields /\ (g[m].failed \/ Good(m)))
    BY <2>1
  <2>3. m # 0
    <3>1. Good(0)
      BY <1>1 DEF SameContext
    <3>2. DOMAIN g[0] = StateFields
      BY <1>1 DEF Boxed
    <3> HIDE DEF Good, Bad, n
    <3>q. QED BY <2>2, <3>1, <3>2
  <2>4. m \in 1..n /\ m - 1 \in 0..n /\ m - 1 \notin Bad
    <3>1. m \in 1..n /\ m - 1 \in 0..n /\ ~(m <= m - 1)
      BY <1>2, <2>2, <2>3
    <3> HIDE DEF Bad, n
    <3>q. QED BY <2>1, <3>1
  <2>5. DOMAIN g[m - 1] = StateFields /\ (g[m - 1].failed \/ Good(m - 1))
    BY <2>4
  <2> DEFINE p == g[m - 1]
             q == g[m]
             key == Order[m]
  <2>6. q = Discovery!ReconcileRecord(p, key, renewed, registry, config, at)
    BY <1>1, <2>4
  <2>7. DOMAIN q = StateFields /\ (p.failed => q.failed)
    BY <2>5, <2>6, ReconcileFails
  <2>8. ~q.failed /\ ~Good(m)
    BY <2>2, <2>7
  <2>9. Good(m - 1)
    BY <2>5, <2>7, <2>8
  <2>10. key \in Keys
    BY <2>4, DiscoveryAssumption
  <2>11. /\ Boxed(q) /\ OnlyKey(p, q, key) /\ q.seen = p.seen
         /\ KeyIs(q, key, registry, config, at)
         /\ q.records[key].ver = p.records[key].ver /\ q.records[key].what = p.records[key].what
    <3>1. Boxed(p) /\ DOMAIN p.records = Keys
      BY <2>9
    <3>2. CASE Done(m - 1, key)
      <4>1. KeyIs(p, key, registry, config, at)
        BY <2>9, <2>10, <3>2
      <4> HIDE DEF p, q, key, Good, Done
      <4>q. QED BY <2>6, <2>8, <2>10, <3>1, <4>1, ReconcileKeeps
    <3>3. CASE ~Done(m - 1, key)
      <4>1. KeyIs(p, key, rg, cf, t)
        BY <2>9, <2>10, <3>3
      <4> HIDE DEF p, q, key, Good, Done
      <4>q. QED BY <2>6, <2>8, <2>10, <3>1, <4>1, ReconcileKeeps
    <3>q. QED BY <3>2, <3>3
  <2>12. \A k \in Keys : k # key => (Done(m, k) <=> Done(m - 1, k))
    BY <1>2, <2>4
  <2>13. Done(m, key)
    BY <2>4
  <2>14. ASSUME NEW k \in Keys
         PROVE  /\ q.records[k].ver = st.records[k].ver
                /\ q.records[k].what = st.records[k].what
                /\ IF Done(m, k) THEN KeyIs(q, k, registry, config, at)
                   ELSE KeyIs(q, k, rg, cf, t)
    <3>1. CASE k = key
      <4> HIDE DEF Done, key
      <4>q. QED BY <2>9, <2>11, <2>13, <3>1
    <3>2. CASE k # key
      <4>1. q.records[k] = p.records[k]
        BY <2>11, <3>2 DEF OnlyKey
      <4>2. IF Done(m - 1, k) THEN KeyIs(p, k, registry, config, at) ELSE KeyIs(p, k, rg, cf, t)
        BY <2>9
      <4>3. IF Done(m - 1, k) THEN KeyIs(q, k, registry, config, at) ELSE KeyIs(q, k, rg, cf, t)
        <5> HIDE DEF Done, p, q, key
        <5>q. QED BY <2>11, <3>2, <4>2, OthersStay
      <4>4. q.records[k].ver = st.records[k].ver /\ q.records[k].what = st.records[k].what
        BY <2>9, <4>1
      <4> HIDE DEF Done, p, q, key
      <4>q. QED BY <2>12, <3>2, <4>3, <4>4
    <3>q. QED BY <3>1, <3>2
  <2>15. SameContext(st, q) /\ q.seen = st.seen /\ DOMAIN q.records = Keys
    BY <2>9, <2>11 DEF OnlyKey, SameContext
  <2>16. Good(m)
    <3> HIDE DEF Done
    <3>q. QED BY <2>11, <2>14, <2>15
  <2>q. QED BY <2>8, <2>16
<1>4. n \notin Bad /\ n \in 0..n
  BY <1>2, <1>3
<1>5. DOMAIN u = StateFields /\ (u.failed \/ Good(n))
  <2> HIDE DEF Good
  <2>q. QED BY <1>1, <1>4
<1> SUFFICES ASSUME ~u.failed
             PROVE  Agrees(u, registry, config, at) /\ Grows(st, u) /\ SameContext(st, u)
  BY <1>5 DEF u
<1>6. Good(n)
  BY <1>5
<1>7. \A k \in Keys : Done(n, k)
  BY DiscoveryAssumption
<1>8. /\ Boxed(u) /\ DOMAIN u.records = Keys /\ u.seen = st.seen /\ SameContext(st, u)
      /\ \A k \in Keys : /\ u.records[k].ver = st.records[k].ver
                         /\ u.records[k].what = st.records[k].what
                         /\ KeyIs(u, k, registry, config, at)
  <2> HIDE DEF Done
  <2>q. QED BY <1>1, <1>6, <1>7
<1>9. SeenIs(u)
  BY <1>8 DEF SeenIs
<1>q. QED BY <1>8, <1>9 DEF Agrees, Grows

\* A failed reconciliation is not undone by the batch.
LEMMA BatchFails ==
    ASSUME NEW st, st.failed, NEW b, Len(b) \in Nat, NEW registry, NEW config, NEW at
    PROVE  Discovery!ApplyBatch(st, b, registry, config, at) = st
<1> DEFINE n == Len(b)
           u == Discovery!ApplyBatch(st, b, registry, config, at)
<1>0. PICK g : AppliedIn(g, st, b, registry, config, at)
  BY AppliedInTurn
<1>1. /\ g[0] = st
      /\ \A i \in 1..Len(b) :
            g[i] = Discovery!ApplyEvent(g[i - 1], b[i], registry, config, at)
      /\ u = g[Len(b)]
  BY <1>0 DEF AppliedIn
<1> DEFINE Bad == {i \in 0..n : g[i] # st}
<1> HIDE DEF u
<1>2. n \in Nat /\ Bad \in SUBSET Nat
  OBVIOUS
<1>3. Bad = {}
  <2> SUFFICES ASSUME Bad # {} PROVE FALSE
    OBVIOUS
  <2>1. PICK m \in Bad : \A y \in Bad : m <= y
    <3> HIDE DEF Bad
    <3>q. QED BY <1>2, LeastExists
  <2>2. m \in 0..n /\ g[m] # st /\ m # 0
    BY <1>1, <2>1
  <2>3. m \in 1..n /\ m - 1 \notin Bad
    <3>1. m \in 1..n /\ ~(m <= m - 1)
      BY <1>2, <2>2
    <3> HIDE DEF Bad, n
    <3>q. QED BY <2>1, <3>1
  <2>4. g[m - 1] = st
    BY <2>3
  <2>5. g[m] = Discovery!ApplyEvent(g[m - 1], b[m], registry, config, at)
    BY <1>1, <2>3
  <2>6. g[m] = st
    BY <2>4, <2>5, EventFails
  <2>q. QED BY <2>2, <2>6
<1>4. n \notin Bad /\ n \in 0..n
  BY <1>2, <1>3
<1>q. QED BY <1>1, <1>4 DEF u

\* The agreement is of the records, the events and the commands.
LEMMA AgreesToo ==
    ASSUME NEW st, NEW registry, NEW config, NEW t \in Int, Agrees(st, registry, config, t),
           NEW u, DOMAIN u = StateFields, u.records = st.records, u.seen = st.seen,
           u.outbox = st.outbox, u.next = st.next, NEW at \in Int, t <= at
    PROVE  Agrees(u, registry, config, at)
<1>1. /\ Boxed(u) /\ DOMAIN u.records = Keys /\ SeenIs(u)
  BY DEF Agrees, Boxed, SeenIs
<1>2. ASSUME NEW k \in Keys PROVE KeyIs(u, k, registry, config, at)
  <2>1. KeyIs(st, k, registry, config, t)
    BY DEF Agrees
  <2>2. ASSUME NEW gate, NEW e, GateIs(gate, e, registry, config, t)
        PROVE  GateIs(gate, e, registry, config, at)
    BY <2>2 DEF GateIs
  <2>3. ASSUME NEW e, NEW D, DiscoveryOf(e, D, registry, config, t)
        PROVE  DiscoveryOf(e, D, registry, config, at)
    BY <2>2, <2>3 DEF DiscoveryOf
  <2>4. ASSUME NEW e, NEW C, ConnectorOf(e, C, registry, config, t)
        PROVE  ConnectorOf(e, C, registry, config, at)
    BY <2>2, <2>4 DEF ConnectorOf
  <2>5. /\ \A f : Of(u, k, f) = Of(st, k, f)
        /\ \A n : Bound(st, k, n) => Bound(u, k, n)
    BY DEF Of, Bound
  <2>q. QED BY <2>1, <2>3, <2>4, <2>5 DEF KeyIs
<1>q. QED BY <1>1, <1>2 DEF Agrees

\* With no record and no command there is nothing to disagree.
LEMMA EmptyAgrees ==
    ASSUME NEW registry, NEW config, NEW t \in Int
    PROVE  Agrees(Discovery!EmptyState, registry, config, t)
<1> DEFINE st == Discovery!EmptyState
           absent == Discovery!Absent
           none == [id |-> None, grant |-> NoGrant]
<1>1. /\ DOMAIN st = StateFields /\ st.next = 1 /\ st.outbox = {} /\ st.seen = {}
      /\ DOMAIN st.records = Keys /\ \A k \in Keys : st.records[k] = absent
  BY DEF Discovery!EmptyState, StateFields
<1>2. /\ DOMAIN absent = EntryFields
      /\ absent.ver = -1 /\ absent.what = "none" /\ ~absent.approval.verified
      /\ absent.shown = None /\ absent.wasShown = FALSE /\ absent.candidate = none
      /\ absent.ids = {}
  BY DEF Discovery!Absent, Discovery!Unverified, EntryFields, None
<1>3. none.id = None
  OBVIOUS
<1>4. /\ Discovery!Projection("none", absent.approval) = None
      /\ Discovery!Candidate("none", absent.approval, config) = none
  BY DEF Discovery!Projection, Discovery!Candidate, Discovery!IsPublic,
         Discovery!DecideOffering, None
<1> HIDE DEF st, absent, none
<1>5. ~Discovery!Offers(absent)
  BY <1>2, <1>3 DEF Discovery!Offers, None
<1>6. \A k \in Keys : EntryIs(absent, k, registry, config)
  BY <1>2, <1>4, <1>5 DEF EntryIs
<1>7. \A k, f : Of(st, k, f) = {}
  BY <1>1 DEF Of
<1>8. \A k, n : Bound(st, k, n)
  BY <1>1 DEF Bound
<1>9. /\ DiscoveryOf(absent, {}, registry, config, t)
      /\ ConnectorOf(absent, {}, registry, config, t)
  BY <1>2 DEF DiscoveryOf, ConnectorOf
<1>10. \A k \in Keys : KeyIs(st, k, registry, config, t)
  BY <1>1, <1>6, <1>7, <1>8, <1>9 DEF KeyIs
<1>11. Boxed(st)
  BY <1>1, FS_EmptySet DEF Boxed
<1>12. SeenIs(st)
  BY <1>1 DEF SeenIs
<1>q. QED BY <1>1, <1>10, <1>11, <1>12 DEF Agrees, st

\* The state file agrees with the registry, the config and the instant it names.
FileIs(st) ==
    /\ Agrees(st, st.registry, st.config, st.evaluated)
    /\ ~st.failed
    /\ st.evaluated \in Nat \cup {-1} /\ st.reviewed \in Nat \cup {-1}
    /\ \/ st = Discovery!EmptyState
       \/ st.registry \in Registries /\ st.config \in Configs /\ st.evaluated \in Nat

\* The empty file is one.
LEMMA EmptyIsFile == FileIs(Discovery!EmptyState)
<1> DEFINE st == Discovery!EmptyState
<1>1. st.evaluated = -1 /\ st.reviewed = -1 /\ st.failed = FALSE
  BY DEF Discovery!EmptyState
<1> HIDE DEF st
<1>2. Agrees(st, st.registry, st.config, st.evaluated)
  BY <1>1, EmptyAgrees DEF st
<1>q. QED BY <1>1, <1>2 DEF FileIs, st

\* A run that fails nothing leaves a state file that agrees with what it has read.
LEMMA SynchronizeKeeps ==
    ASSUME NEW st, FileIs(st), NEW b \in Batches, NEW registry \in Registries,
           NEW config \in Configs, NEW at \in Nat,
           ~Discovery!SynchronizeBatch(st, b, registry, config, at).failed
    PROVE  LET u == Discovery!SynchronizeBatch(st, b, registry, config, at)
           IN  FileIs(u) /\ Grows(st, u)
<1> DEFINE u == Discovery!SynchronizeBatch(st, b, registry, config, at)
           reconciled == Discovery!ReconcileStoredRecords(st, registry, config, at)
           applied == Discovery!ApplyBatch(reconciled, b, registry, config, at)
           compacted == Discovery!CompactOutbox(applied)
           renewed == Discovery!GateContextChanged(st, registry, config)
           needed == \/ Discovery!ApprovalChanged(st, registry)
                     \/ Discovery!ConfigChanged(st, config)
                     \/ Discovery!ApprovalDue(st, at)
           done == IF needed THEN Discovery!ReconcileRecords(st, renewed, registry, config, at)
                   ELSE st
           failed == [st EXCEPT !.failed = TRUE]
           mark == Discovery!Watermark(st)
<1>1. u = IF at < mark THEN failed ELSE [compacted EXCEPT !.evaluated = at]
  BY DEF Discovery!SynchronizeBatch, Discovery!Fail
<1>2. reconciled = [done EXCEPT !.registry = registry, !.config = config]
  BY Zenon DEF Discovery!ReconcileStoredRecords
<1>3. DOMAIN st = StateFields /\ failed.failed = TRUE
  BY DEF FileIs, Agrees, Boxed, StateFields
<1>4. ~u.failed
  OBVIOUS
<1>5. st.evaluated \in Int /\ st.evaluated <= mark /\ mark \in Int
  BY DEF FileIs, Discovery!Watermark
<1> HIDE DEF u, failed, mark, compacted, reconciled
<1>6. ~(at < mark) /\ u = [compacted EXCEPT !.evaluated = at]
  BY <1>1, <1>3, <1>4
<1>7. st.evaluated <= at
  BY <1>5, <1>6
\* What was evaluated before: of another registry or config only when it is renewed.
<1>8. PICK rg, cf : /\ Agrees(st, rg, cf, st.evaluated)
                    /\ ~renewed => rg = registry /\ cf = config
  <2>1. CASE st = Discovery!EmptyState
    <3>1. Agrees(st, registry, config, st.evaluated)
      BY <1>5, <2>1, EmptyAgrees
    <3>q. QED BY <3>1
  <2>2. CASE st.registry \in Registries /\ st.config \in Configs
    <3>1. st.registry # Discovery!None /\ st.config # Discovery!None
      BY <2>2, DiscoveryAssumption
    <3>2. ~renewed => st.registry = registry /\ st.config = config
      BY <3>1 DEF Discovery!GateContextChanged, Discovery!ApprovalChanged, Discovery!ConfigChanged
    <3>q. QED BY <3>2 DEF FileIs
  <2>q. QED BY <2>1, <2>2 DEF FileIs
<1>9. needed = FALSE => ~renewed
  BY DEF Discovery!GateContextChanged
<1>10. renewed \in BOOLEAN /\ needed \in BOOLEAN
  BY DEF Discovery!GateContextChanged, Discovery!ApprovalChanged, Discovery!ConfigChanged,
         Discovery!ApprovalDue
<1>11. Len(b) \in Nat /\ \A i \in 1..Len(b) : EventIs(b[i])
  <2>1. /\ Len(b) \in Nat /\ DOMAIN b = 1..Len(b)
        /\ \A i \in DOMAIN b : /\ b[i].key \in Keys /\ b[i].ver \in Nat
                               /\ b[i].what \in Discovery!Kinds
                               /\ \A rr \in Registries :
                                    LET grant == GrantOf[rr][<<b[i].key, b[i].ver>>]
                                    IN  grant # NoGrant => {grant.from, grant.until} \subseteq Nat
    BY DiscoveryAssumption
  <2>2. ASSUME NEW i \in 1..Len(b) PROVE EventIs(b[i])
    BY <2>1 DEF EventIs, GrantsAre
  <2>q. QED BY <2>1, <2>2
<1> HIDE DEF renewed, needed
<1>12. /\ DOMAIN done = StateFields
       /\ ~done.failed =>
            Agrees(done, registry, config, at) /\ Grows(st, done) /\ SameContext(st, done)
  <2>1. CASE needed
    <3> DEFINE r == Discovery!ReconcileRecords(st, renewed, registry, config, at)
    <3>1. /\ Boxed(st) /\ DOMAIN st.records = Keys /\ SeenIs(st)
          /\ \A k \in Keys : KeyIs(st, k, rg, cf, st.evaluated)
      BY <1>8 DEF Agrees
    <3>2. /\ DOMAIN r = StateFields
          /\ ~r.failed => Agrees(r, registry, config, at) /\ Grows(st, r) /\ SameContext(st, r)
      <4> HIDE DEF r
      <4>q. QED BY <1>5, <1>7, <1>8, <1>10, <3>1, RecordsKeep DEF r
    <3> HIDE DEF r
    <3>q. QED BY <2>1, <3>2 DEF r
  <2>2. CASE ~needed
    <3>1. Agrees(st, registry, config, st.evaluated)
      BY <1>8, <1>9, <2>2
    <3>2. Agrees(st, registry, config, at)
      BY <1>3, <1>5, <1>7, <3>1, AgreesToo
    <3>3. Grows(st, st) /\ SameContext(st, st)
      BY DEF Grows, SameContext
    <3>q. QED BY <1>3, <2>2, <3>2, <3>3
  <2>q. QED BY <2>1, <2>2
<1> HIDE DEF done
<1>13. /\ DOMAIN reconciled = StateFields /\ reconciled.records = done.records
       /\ reconciled.seen = done.seen /\ reconciled.outbox = done.outbox
       /\ reconciled.next = done.next /\ reconciled.failed = done.failed
       /\ reconciled.registry = registry /\ reconciled.config = config
       /\ reconciled.evaluated = done.evaluated /\ reconciled.reviewed = done.reviewed
  BY <1>2, <1>12 DEF StateFields
<1>14. ASSUME DOMAIN applied = StateFields PROVE ~applied.failed
  <2> DEFINE left == {c \in applied.outbox :
                        c.by = 0 \/ Discovery!Cardinality(Discovery!Newer(applied, c)) < KeptPerChain}
  <2>1. compacted = [applied EXCEPT !.outbox = left]
    BY DEF compacted, Discovery!CompactOutbox
  <2> HIDE DEF applied, left
  <2>2. compacted.failed = applied.failed /\ DOMAIN compacted = StateFields
    BY <1>14, <2>1 DEF StateFields
  <2>q. QED BY <1>4, <1>6, <2>2 DEF StateFields
<1>15. ~done.failed
  <2> SUFFICES ASSUME done.failed PROVE FALSE
    OBVIOUS
  <2>1. reconciled.failed
    BY <1>13
  <2>2. applied = reconciled
    BY <1>11, <2>1, BatchFails
  <2> HIDE DEF applied
  <2>q. QED BY <1>13, <1>14, <2>1, <2>2
<1>16. Agrees(reconciled, registry, config, at)
  BY <1>12, <1>13, <1>15, AgreesToo
<1>17. /\ DOMAIN applied = StateFields
       /\ ~applied.failed => /\ Agrees(applied, registry, config, at)
                             /\ Grows(reconciled, applied) /\ SameContext(reconciled, applied)
  BY <1>11, <1>16, BatchKeeps
<1> HIDE DEF applied
<1>18. /\ Boxed(compacted) /\ SameButOutbox(applied, compacted)
       /\ \A k \in Keys, f \in Families : Of(compacted, k, f) = Of(applied, k, f)
       /\ \A k \in Keys, n \in Int : Bound(applied, k, n) => Bound(compacted, k, n)
  BY <1>14, <1>17, CompactKeeps DEF Agrees, compacted
<1>19. Agrees(compacted, registry, config, at)
  <2>1. ASSUME NEW k \in Keys PROVE KeyIs(compacted, k, registry, config, at)
    <3>1. KeyIs(applied, k, registry, config, at)
      BY <1>14, <1>17 DEF Agrees
    <3>2. applied.records[k].ver \in Int
      BY <3>1 DEF KeyIs, EntryIs
    <3>3. /\ Of(compacted, k, "discovery") = Of(applied, k, "discovery")
          /\ Of(compacted, k, "connector-review") = Of(applied, k, "connector-review")
      BY <1>18 DEF Families
    <3>q. QED BY <1>18, <3>1, <3>2, <3>3 DEF KeyIs, SameButOutbox
  <2>2. SeenIs(compacted) /\ DOMAIN compacted.records = Keys
    BY <1>14, <1>17, <1>18 DEF Agrees, SeenIs, SameButOutbox
  <2>q. QED BY <1>18, <2>1, <2>2 DEF Agrees
<1>20. /\ DOMAIN u = StateFields /\ u.records = compacted.records /\ u.seen = compacted.seen
       /\ u.outbox = compacted.outbox /\ u.next = compacted.next
       /\ u.registry = compacted.registry /\ u.config = compacted.config
       /\ u.evaluated = at /\ u.reviewed = compacted.reviewed
  BY <1>6, <1>18 DEF SameButOutbox, StateFields
<1>21. Agrees(u, registry, config, at)
  BY <1>19, <1>20, AgreesToo
<1>22. u.registry = registry /\ u.config = config /\ u.reviewed = st.reviewed
  BY <1>12, <1>13, <1>14, <1>15, <1>17, <1>18, <1>20 DEF SameContext, SameButOutbox
<1>23. st.reviewed \in Nat \cup {-1}
  BY DEF FileIs
<1>24. FileIs(u)
  <2>1. u.evaluated \in Nat
    BY <1>20
  <2>q. QED BY <1>4, <1>20, <1>21, <1>22, <1>23, <2>1 DEF FileIs
<1>25. Grows(st, u)
  <2>1. Grows(st, done)
    BY <1>12, <1>15
  <2>2. Grows(reconciled, applied)
    BY <1>14, <1>17
  <2>q. QED BY <1>13, <1>18, <1>20, <2>1, <2>2 DEF Grows, SameButOutbox
<1>q. QED BY <1>24, <1>25 DEF u

-----------------------------------------------------------------------------
(* What a state file that agrees promises.                                 *)

\* Two approvals by the same grant decide and project alike.
LEMMA SameGrantSameDecision ==
    ASSUME NEW what, NEW config, NEW a, NEW b, a.verified, b.verified, a.grant = b.grant
    PROVE  /\ Discovery!DecideOffering(what, a) = Discovery!DecideOffering(what, b)
           /\ Discovery!Projection(what, a) = Discovery!Projection(what, b)
           /\ Discovery!Candidate(what, a, config) = Discovery!Candidate(what, b, config)
<1>1. Discovery!DecideOffering(what, a) = Discovery!DecideOffering(what, b)
  BY DEF Discovery!DecideOffering
<1>2. Discovery!IsPublic(what, a) <=> Discovery!IsPublic(what, b)
  BY DEF Discovery!IsPublic
<1>q. QED BY <1>1, <1>2 DEF Discovery!Projection, Discovery!Candidate

\* It passes the validation of the next run.
LEMMA FileIsLoadable == ASSUME NEW st, FileIs(st) PROVE Discovery!Loadable(st)
<1>1. Boxed(st) /\ \A k \in Keys : EntryIs(st.records[k], k, st.registry, st.config)
  BY DEF FileIs, Agrees, KeyIs
<1>2. \A c \in st.outbox \ Discovery!Pending(st) :
         \E d \in Discovery!Chain(st, c) : d.seq = c.by /\ d.seq > c.seq
  BY <1>1 DEF Boxed, Discovery!Pending, Discovery!Chain
<1>3. \A c, d \in Discovery!Pending(st) : c.key = d.key /\ c.family = d.family => c = d
  BY <1>1 DEF Boxed, Discovery!Pending
<1>4. \A k \in Keys : Discovery!Offers(st.records[k]) =>
                        st.records[k].candidate.id \in st.records[k].ids
  BY <1>1 DEF EntryIs
<1>5. /\ \A c, d \in st.outbox : c.seq = d.seq => c = d
      /\ \A c \in st.outbox : c.seq < st.next
  BY <1>1 DEF Boxed
<1>q. QED BY <1>2, <1>3, <1>4, <1>5 DEF Discovery!Loadable

\* What NothingStaysOut says of a state.
Waits(st, k, types) == \E c \in Discovery!Pending(st) : c.key = k /\ c.type \in types

\* Whatever is shown, offered or to be taken back has its command.
LEMMA FileIsComplete ==
    ASSUME NEW st, FileIs(st), NEW k \in Keys
    PROVE  LET e == st.records[k]
           IN  /\ e.shown = None /\ e.wasShown => Waits(st, k, {"DISCOVERY_DELETE"})
               /\ e.shown # None => Waits(st, k, {"DISCOVERY_UPSERT"})
               /\ ~Discovery!Offers(e) /\ e.ids # {} =>
                    Waits(st, k, {"CONNECTOR_REGISTRATION_REVIEW_WITHDRAW"})
               /\ Discovery!Offers(e) =>
                    Waits(st, k, {"CONNECTOR_REGISTRATION_REVIEW",
                                  "CONNECTOR_REGISTRATION_REVIEW_REPLACE"})
<1> DEFINE e == st.records[k]
           D == Of(st, k, "discovery")
           C == Of(st, k, "connector-review")
<1>1. /\ EntryIs(e, k, st.registry, st.config)
      /\ DiscoveryOf(e, D, st.registry, st.config, st.evaluated)
      /\ ConnectorOf(e, C, st.registry, st.config, st.evaluated)
  BY DEF FileIs, Agrees, KeyIs
<1>2. \A c \in D \cup C : c \in Discovery!Pending(st) /\ c.key = k
  BY DEF Of, Discovery!Pending
<1>3. e.shown # None => e.wasShown
  BY <1>1 DEF EntryIs
<1>4. Discovery!Offers(e) => e.ids # {}
  BY <1>1 DEF EntryIs
<1> HIDE DEF e, D, C
<1>5. ASSUME e.wasShown
      PROVE  /\ e.shown = None => Waits(st, k, {"DISCOVERY_DELETE"})
             /\ e.shown # None => Waits(st, k, {"DISCOVERY_UPSERT"})
  <2>1. PICK c \in D : TRUE
    BY <1>1, <1>5 DEF DiscoveryOf
  <2>2. \/ c.type = "DISCOVERY_DELETE" /\ e.shown = None
        \/ c.type = "DISCOVERY_UPSERT" /\ e.shown # None
    BY <1>1, <2>1 DEF DiscoveryOf
  <2>3. c \in Discovery!Pending(st) /\ c.key = k
    BY <1>2, <2>1
  <2>4. /\ e.shown = None => Waits(st, k, {"DISCOVERY_DELETE"})
        /\ e.shown # None => Waits(st, k, {"DISCOVERY_UPSERT"})
    BY <2>2, <2>3 DEF Waits
  <2>q. QED BY <2>4
<1>6. ASSUME e.ids # {}
      PROVE  /\ ~Discovery!Offers(e) => Waits(st, k, {"CONNECTOR_REGISTRATION_REVIEW_WITHDRAW"})
             /\ Discovery!Offers(e) => Waits(st, k, {"CONNECTOR_REGISTRATION_REVIEW",
                                                     "CONNECTOR_REGISTRATION_REVIEW_REPLACE"})
  <2>1. PICK c \in C : TRUE
    BY <1>1, <1>6 DEF ConnectorOf
  <2>2. \/ c.type = "CONNECTOR_REGISTRATION_REVIEW_WITHDRAW" /\ ~Discovery!Offers(e)
        \/ /\ c.type \in {"CONNECTOR_REGISTRATION_REVIEW", "CONNECTOR_REGISTRATION_REVIEW_REPLACE"}
           /\ Discovery!Offers(e)
    BY <1>1, <2>1 DEF ConnectorOf
  <2>3. c \in Discovery!Pending(st) /\ c.key = k
    BY <1>2, <2>1
  <2>4. /\ ~Discovery!Offers(e) => Waits(st, k, {"CONNECTOR_REGISTRATION_REVIEW_WITHDRAW"})
        /\ Discovery!Offers(e) => Waits(st, k, {"CONNECTOR_REGISTRATION_REVIEW",
                                                "CONNECTOR_REGISTRATION_REVIEW_REPLACE"})
    BY <2>2, <2>3 DEF Waits
  <2>q. QED BY <2>4
<1>7. /\ e.shown = None /\ e.wasShown => Waits(st, k, {"DISCOVERY_DELETE"})
      /\ e.shown # None => Waits(st, k, {"DISCOVERY_UPSERT"})
  BY <1>3, <1>5
<1>8. /\ ~Discovery!Offers(e) /\ e.ids # {} =>
           Waits(st, k, {"CONNECTOR_REGISTRATION_REVIEW_WITHDRAW"})
      /\ Discovery!Offers(e) =>
           Waits(st, k, {"CONNECTOR_REGISTRATION_REVIEW", "CONNECTOR_REGISTRATION_REVIEW_REPLACE"})
  BY <1>4, <1>6
<1>q. QED BY <1>7, <1>8 DEF e

\* A command that grants nothing passes the review, and one that grants something
\* passes as long as its grant lasts; then it is blocked.
LEMMA FileIsReviewable ==
    ASSUME NEW st, FileIs(st), NEW c \in Discovery!Pending(st),
           NEW at \in Int, Discovery!Watermark(st) <= at
    PROVE  Discovery!Passes(st, c, st.registry, st.config, at)
<1> DEFINE k == c.key
           e == st.records[k]
           registry == st.registry
           config == st.config
           approval == Discovery!ResolveApproval(registry, k, c.ver, at)
<1>1. /\ c \in st.outbox /\ c.by = 0 /\ k \in Keys /\ c.family \in Families /\ c.ver \in Nat
  BY DEF FileIs, Agrees, Boxed, Discovery!Pending
<1>2. c \in Of(st, k, c.family)
  BY <1>1 DEF Of
<1>3. registry \in Registries /\ st.evaluated \in Nat
  <2>1. st # Discovery!EmptyState
    BY <1>1 DEF Discovery!EmptyState
  <2>q. QED BY <2>1 DEF FileIs
<1>4. at \in Nat /\ st.evaluated <= at
  BY <1>3 DEF FileIs, Discovery!Watermark
<1>5. /\ EntryIs(e, k, registry, config)
      /\ DiscoveryOf(e, Of(st, k, "discovery"), registry, config, st.evaluated)
      /\ ConnectorOf(e, Of(st, k, "connector-review"), registry, config, st.evaluated)
  BY <1>1 DEF FileIs, Agrees, KeyIs
<1>6. Discovery!KnownIds(e) = e.ids
  BY <1>5, KnownIs
<1> HIDE DEF e, registry, config
<1>7. /\ c.ver = e.ver
      /\ \/ c.type = "DISCOVERY_DELETE" /\ e.wasShown /\ e.shown = None
         \/ /\ c.type = "DISCOVERY_UPSERT" /\ e.shown # None /\ c.payload = {e.shown}
            /\ GateIs(c.gate, e, registry, config, st.evaluated)
         \/ /\ c.type = "CONNECTOR_REGISTRATION_REVIEW_WITHDRAW"
            /\ ~Discovery!Offers(e) /\ e.ids # {} /\ c.payload = e.ids
         \/ /\ c.type \in {"CONNECTOR_REGISTRATION_REVIEW", "CONNECTOR_REGISTRATION_REVIEW_REPLACE"}
            /\ Discovery!Offers(e)
            /\ c.payload = <<e.candidate, e.ids \ {e.candidate.id}>>
            /\ GateIs(c.gate, e, registry, config, st.evaluated)
  <2>1. CASE c.family = "discovery"
    <3>1. c \in Of(st, k, "discovery")
      BY <1>2, <2>1
    <3> HIDE DEF k
    <3>q. QED BY <1>5, <3>1 DEF DiscoveryOf
  <2>2. CASE c.family = "connector-review"
    <3>1. c \in Of(st, k, "connector-review")
      BY <1>2, <2>2
    <3> HIDE DEF k
    <3>q. QED BY <1>5, <3>1 DEF ConnectorOf
  <2>q. QED BY <1>1, <2>1, <2>2 DEF Families
<1>8. CASE c.type \in Discovery!Protective
  <2>1. Discovery!ProtectiveHolds(st, c)
    BY <1>6, <1>7, <1>8 DEF Discovery!Protective, Discovery!ProtectiveHolds, e, None
  <2>q. QED BY <1>8, <2>1 DEF Discovery!Passes
<1>9. CASE c.type \notin Discovery!Protective /\ ~approval.verified
  <2>1. Discovery!IsBlocked(st, c, registry, at)
    BY <1>9 DEF Discovery!IsBlocked
  <2>q. QED BY <1>9, <2>1 DEF Discovery!Passes, registry
<1>10. CASE c.type \notin Discovery!Protective /\ approval.verified
  <2>1. /\ GateIs(c.gate, e, registry, config, st.evaluated)
        /\ \/ c.type = "DISCOVERY_UPSERT" /\ e.shown # None /\ c.payload = {e.shown}
           \/ /\ c.type # "DISCOVERY_UPSERT" /\ Discovery!Offers(e)
              /\ c.payload = <<e.candidate, e.ids \ {e.candidate.id}>>
    BY <1>7, <1>10 DEF Discovery!Protective
  <2>2. e.approval.verified
    <3>1. /\ e.shown = Discovery!Projection(e.what, e.approval)
          /\ e.candidate = Discovery!Candidate(e.what, e.approval, config)
      BY <1>5 DEF EntryIs
    <3>2. Discovery!Offers(e) => e.candidate.id # None
      BY DEF Discovery!Offers, None
    <3>q. QED BY <2>1, <3>1, <3>2, ApprovedIs
  <2>3. e.ver \in Nat /\ e.ver # -1 /\ GrantsAre(k, c.ver)
    BY <1>1, <1>5, <1>7 DEF EntryIs
  <2>4. approval.grant = GrantOf[registry][<<k, c.ver>>]
    BY <1>3, <1>4, <1>10, <2>3, ResolvedIs
  <2>5. e.approval.grant = approval.grant
    BY <1>5, <1>7, <2>2, <2>4 DEF EntryIs
  <2> HIDE DEF approval
  <2>6. /\ Discovery!DecideOffering(e.what, approval) = Discovery!DecideOffering(e.what, e.approval)
        /\ Discovery!Projection(e.what, approval) = Discovery!Projection(e.what, e.approval)
        /\ Discovery!Candidate(e.what, approval, config) = Discovery!Candidate(e.what, e.approval, config)
    BY <1>10, <2>2, <2>5, SameGrantSameDecision
  <2>7. /\ e.shown = Discovery!Projection(e.what, approval)
        /\ e.candidate = Discovery!Candidate(e.what, approval, config)
    BY <1>5, <2>6 DEF EntryIs
  <2>8. Discovery!Offers(e) => Discovery!Candidate(e.what, approval, config).id # Discovery!None
    BY <2>7 DEF Discovery!Offers
  <2>9. /\ c.gate.ver = e.ver /\ c.gate.registry = registry /\ c.gate.config = config
        /\ c.gate.grant = approval.grant /\ c.gate.grant = e.approval.grant
        /\ c.gate.at \in approval.grant.from..approval.grant.until
        /\ c.gate.at <= st.evaluated /\ c.gate.at <= at
    <3>1. c.gate.at \in Nat /\ approval.grant.from <= c.gate.at /\ c.gate.at <= approval.grant.until
      BY <2>1, <2>5 DEF GateIs
    <3>2. approval.grant.from \in Int /\ approval.grant.until \in Int
      <4>1. approval.grant = GrantOf[registry][<<k, c.ver>>] /\ approval.grant # NoGrant
        BY <1>3, <1>4, <1>10, <2>3, ResolvedIs DEF approval
      <4>q. QED BY <1>3, <2>3, <4>1 DEF GrantsAre
    <3>q. QED BY <1>3, <1>4, <2>1, <2>5, <3>1, <3>2 DEF GateIs
  <2>10. Discovery!GateHolds(st, c, registry, config, at)
    <3>1. approval = Discovery!ResolveApproval(registry, c.key, e.ver, at)
      BY <1>7 DEF approval
    <3> DEFINE expected == Discovery!Candidate(e.what, approval, config)
    <3>2. IF c.type = "DISCOVERY_UPSERT"
          THEN e.shown = Discovery!Projection(e.what, approval) /\ c.payload = {e.shown}
          ELSE /\ expected = e.candidate /\ expected.id # Discovery!None
               /\ c.payload = <<expected, Discovery!KnownIds(e) \ {expected.id}>>
      <4>1. CASE c.type = "DISCOVERY_UPSERT"
        <5> HIDE DEF expected
        <5>q. QED BY <2>1, <2>7, <4>1
      <4>2. CASE c.type # "DISCOVERY_UPSERT"
        <5>1. expected = e.candidate /\ expected.id # Discovery!None
          BY <2>1, <2>7, <2>8, <4>2
        <5>2. c.payload = <<expected, e.ids \ {expected.id}>>
          BY <2>1, <4>2, <5>1
        <5> HIDE DEF expected
        <5>q. QED BY <1>6, <4>2, <5>1, <5>2
      <4>q. QED BY <4>1, <4>2
    <3>3. st.registry = registry /\ st.config = config /\ st.records[c.key] = e
      BY DEF registry, config, e
    <3> HIDE DEF approval, k
    <3>q. QED BY <1>7, <2>6, <2>9, <3>1, <3>2, <3>3, Zenon DEF Discovery!GateHolds
  <2>q. QED BY <1>10, <2>10 DEF Discovery!Passes, registry, config
<1>q. QED BY <1>8, <1>9, <1>10

-----------------------------------------------------------------------------
(* The runs of the command line                                            *)

RunFields == {"pc", "cmd", "batch", "registry", "config", "state", "at", "listed"}

\* A run works on the state file while it holds the lock, with inputs it has read.
RunIs(r) ==
    /\ DOMAIN running[r] = RunFields
    /\ running[r].pc \in {"idle", "read", "locked", "done"}
    /\ running[r].pc \in {"read", "locked"} =>
          /\ running[r].registry \in Registries /\ running[r].config \in Configs
          /\ running[r].cmd = "sync" => running[r].batch \in Batches
    /\ running[r].pc \in {"locked", "done"} => latch = r
    /\ running[r].pc = "locked" => running[r].state = state

\* The commands a run lists are approved by the registry it has read.
ListIs(r) == \A c \in running[r].listed : c.type \notin Discovery!Protective =>
    /\ c.gate.registry = running[r].registry /\ c.gate.config = running[r].config
    /\ LET approval == Discovery!ResolveApproval(running[r].registry, c.key, c.ver, running[r].at)
       IN  approval.verified /\ approval.grant = c.gate.grant

\* The inductive invariant.
DiscoveryInv ==
    /\ FileIs(state)
    /\ DOMAIN running = Runs
    /\ \A r \in Runs : RunIs(r) /\ ListIs(r)

LEMMA InvIsSound == DiscoveryInv => StateIsSound
<1> SUFFICES ASSUME DiscoveryInv PROVE StateIsSound
  OBVIOUS
<1>1. FileIs(state)
  BY DEF DiscoveryInv
<1>2. Discovery!StateIsLoadable
  BY <1>1, FileIsLoadable DEF Discovery!StateIsLoadable
<1>3. Discovery!PendingIsReviewable
  <2> SUFFICES ASSUME NEW c \in Discovery!Pending(state),
                      NEW at \in Discovery!Watermark(state)..MaxTime
               PROVE  Discovery!Passes(state, c, state.registry, state.config, at)
    BY DEF Discovery!PendingIsReviewable
  <2>1. Discovery!Watermark(state) \in Int /\ MaxTime \in Int
    BY <1>1, DiscoveryAssumption DEF FileIs, Discovery!Watermark
  <2>2. at \in Int /\ Discovery!Watermark(state) <= at
    BY <2>1
  <2>q. QED BY <1>1, <2>2, FileIsReviewable
<1>4. Discovery!NothingStaysOut
  <2>1. ASSUME NEW k \in Keys
        PROVE  LET e == state.records[k]
               IN  /\ e.shown = None /\ e.wasShown => Waits(state, k, {"DISCOVERY_DELETE"})
                   /\ e.shown # None => Waits(state, k, {"DISCOVERY_UPSERT"})
                   /\ ~Discovery!Offers(e) /\ e.ids # {} =>
                        Waits(state, k, {"CONNECTOR_REGISTRATION_REVIEW_WITHDRAW"})
                   /\ Discovery!Offers(e) =>
                        Waits(state, k, {"CONNECTOR_REGISTRATION_REVIEW",
                                         "CONNECTOR_REGISTRATION_REVIEW_REPLACE"})
    BY <1>1, FileIsComplete
  <2>q. QED BY <2>1, Zenon DEF Discovery!NothingStaysOut, Waits, None
<1>5. Discovery!LatestEventWins
  <2>1. SeenIs(state)
    BY <1>1 DEF FileIs, Agrees
  <2>q. QED BY <2>1 DEF SeenIs, Discovery!LatestEventWins
<1>6. Discovery!ListedIsApproved
  BY Zenon DEF DiscoveryInv, ListIs, Discovery!ListedIsApproved
<1>q. QED BY <1>2, <1>3, <1>4, <1>5, <1>6 DEF StateIsSound

LEMMA InitInv == Discovery!Init => DiscoveryInv
<1> SUFFICES ASSUME Discovery!Init PROVE DiscoveryInv
  OBVIOUS
<1>1. FileIs(state)
  BY EmptyIsFile DEF Discovery!Init
<1>2. DOMAIN running = Runs /\ \A r \in Runs : running[r] = Discovery!Idle
  BY DEF Discovery!Init
<1>3. /\ DOMAIN Discovery!Idle = RunFields /\ Discovery!Idle.pc = "idle"
      /\ Discovery!Idle.listed = {}
  BY DEF Discovery!Idle, RunFields
<1>4. \A r \in Runs : RunIs(r) /\ ListIs(r)
  BY <1>2, <1>3 DEF RunIs, ListIs
<1>q. QED BY <1>1, <1>2, <1>4 DEF DiscoveryInv

\* The other runs stay when one of them moves and the lock and the file stay theirs.
LEMMA OtherRunsStay ==
    ASSUME NEW r \in Runs, NEW q \in Runs, q # r, RunIs(q), ListIs(q), running'[q] = running[q],
           running[q].pc \in {"locked", "done"} => latch' = latch,
           running[q].pc = "locked" => state' = state
    PROVE  RunIs(q)' /\ ListIs(q)'
BY DEF RunIs, ListIs

\* While a run has the lock no other one works on the file.
LEMMA OneRunWorks ==
    ASSUME NEW r \in Runs, NEW q \in Runs, q # r, RunIs(q), latch = r
    PROVE  running[q].pc \notin {"locked", "done"}
BY DEF RunIs

LEMMA RunStarts ==
    ASSUME DiscoveryInv, NEW r \in Runs, NEW input \in Inputs, NEW cmd \in {"sync", "review"},
           NEW b, cmd = "sync" => b \in Batches, Discovery!Start(r, cmd, b, input)
    PROVE  DiscoveryInv' /\ Grows(state, state')
<1> DEFINE w == [Discovery!Idle EXCEPT !.pc = "read", !.cmd = cmd, !.batch = b,
                                       !.registry = input.registry, !.config = input.config]
<1>1. running' = [running EXCEPT ![r] = w] /\ state' = state /\ latch' = latch
  BY DEF Discovery!Start
<1>2. /\ DOMAIN w = RunFields /\ w.pc = "read" /\ w.cmd = cmd /\ w.batch = b
      /\ w.registry = input.registry /\ w.config = input.config /\ w.listed = {}
  BY DEF Discovery!Idle, RunFields
<1> HIDE DEF w
<1>3. DOMAIN running' = Runs /\ running'[r] = w /\ \A q \in Runs : q # r => running'[q] = running[q]
  BY <1>1 DEF DiscoveryInv
<1>4. RunIs(r)' /\ ListIs(r)'
  BY <1>2, <1>3, DiscoveryAssumption DEF RunIs, ListIs
<1>5. \A q \in Runs : q # r => RunIs(q)' /\ ListIs(q)'
  BY <1>1, <1>3, OtherRunsStay DEF DiscoveryInv
<1>6. FileIs(state)'
  BY <1>1 DEF DiscoveryInv
<1>q. QED BY <1>1, <1>3, <1>4, <1>5, <1>6 DEF DiscoveryInv, Grows

\* The lock is taken only when no run has it.
LEMMA RunLocks ==
    ASSUME DiscoveryInv, NEW r \in Runs, Discovery!WithStateLock(r)
    PROVE  DiscoveryInv' /\ Grows(state, state')
<1> DEFINE w == [running[r] EXCEPT !.pc = "locked", !.state = state]
<1>1. Discovery!Loadable(state)
  BY FileIsLoadable DEF DiscoveryInv
<1>2. /\ running[r].pc = "read" /\ state' = state
      /\ IF latch = NoRun
         THEN latch' = r /\ running' = [running EXCEPT ![r].pc = "locked", ![r].state = state]
         ELSE latch' = latch /\ running' = [running EXCEPT ![r] = Discovery!Idle]
  BY <1>1 DEF Discovery!WithStateLock, Discovery!IsFree
<1>3. RunIs(r) /\ ListIs(r) /\ DOMAIN running = Runs
  BY DEF DiscoveryInv
<1>4. /\ DOMAIN w = RunFields /\ w.pc = "locked" /\ w.state = state
      /\ w.cmd = running[r].cmd /\ w.batch = running[r].batch
      /\ w.registry = running[r].registry /\ w.config = running[r].config
      /\ w.at = running[r].at /\ w.listed = running[r].listed
  BY <1>3 DEF RunIs, RunFields
<1>5. /\ DOMAIN Discovery!Idle = RunFields /\ Discovery!Idle.pc = "idle"
      /\ Discovery!Idle.listed = {}
  BY DEF Discovery!Idle, RunFields
<1>6. /\ DOMAIN running' = Runs
      /\ running'[r] = IF latch = NoRun THEN w ELSE Discovery!Idle
      /\ \A q \in Runs : q # r => running'[q] = running[q]
  <2>1. CASE latch = NoRun
    <3>1. running' = [running EXCEPT ![r] = w]
      BY <1>2, <1>3, <2>1
    <3> HIDE DEF w
    <3>q. QED BY <1>3, <2>1, <3>1
  <2>2. CASE latch # NoRun
    BY <1>2, <1>3, <2>2
  <2>q. QED BY <2>1, <2>2
<1> HIDE DEF w
<1>7. RunIs(r)' /\ ListIs(r)'
  <2>1. CASE latch = NoRun
    BY <1>2, <1>3, <1>4, <1>6, <2>1 DEF RunIs, ListIs
  <2>2. CASE latch # NoRun
    BY <1>2, <1>5, <1>6, <2>2 DEF RunIs, ListIs
  <2>q. QED BY <2>1, <2>2
<1>8. ASSUME NEW q \in Runs, q # r PROVE RunIs(q)' /\ ListIs(q)'
  <2>1. RunIs(q) /\ ListIs(q)
    BY DEF DiscoveryInv
  <2>2. running[q].pc \in {"locked", "done"} => latch = q
    BY <2>1 DEF RunIs
  <2>3. running[q].pc \in {"locked", "done"} => latch' = latch
    BY <1>2, <2>2, DiscoveryAssumption
  <2>q. QED BY <1>2, <1>6, <1>8, <2>1, <2>3, OtherRunsStay
<1>9. FileIs(state)'
  BY <1>2 DEF DiscoveryInv
<1>q. QED BY <1>2, <1>6, <1>7, <1>8, <1>9 DEF DiscoveryInv, Grows

\* A run that holds the lock goes on without it, or ends with a list.
LEMMA RunGoesOn ==
    ASSUME DiscoveryInv, NEW r \in Runs, latch = r, DOMAIN running' = Runs,
           \A q \in Runs : q # r => running'[q] = running[q],
           DOMAIN running'[r] = RunFields,
           \/ running'[r].pc = "done" /\ latch' = latch
           \/ running'[r].pc = "idle",
           ListIs(r)', FileIs(state)'
    PROVE  DiscoveryInv'
<1>1. RunIs(r)'
  BY DEF RunIs
<1>2. ASSUME NEW q \in Runs, q # r PROVE RunIs(q)' /\ ListIs(q)'
  <2>1. RunIs(q) /\ ListIs(q)
    BY DEF DiscoveryInv
  <2>2. running[q].pc \notin {"locked", "done"}
    BY <1>2, <2>1, OneRunWorks
  <2>q. QED BY <1>2, <2>1, <2>2, OtherRunsStay
<1>q. QED BY <1>1, <1>2 DEF DiscoveryInv

\* A run that fails leaves the file.
LEMMA RunRefuses ==
    ASSUME DiscoveryInv, NEW r \in Runs, running[r].pc = "locked", Discovery!Refuse(r)
    PROVE  DiscoveryInv' /\ Grows(state, state')
<1> DEFINE w == [running[r] EXCEPT !.pc = "done", !.state = Discovery!EmptyState]
<1>1. RunIs(r) /\ ListIs(r) /\ DOMAIN running = Runs /\ FileIs(state)
  BY DEF DiscoveryInv
<1>2. running' = [running EXCEPT ![r] = w] /\ state' = state /\ latch' = latch /\ latch = r
  BY <1>1 DEF Discovery!Refuse, RunIs
<1>3. /\ DOMAIN w = RunFields /\ w.pc = "done" /\ w.registry = running[r].registry
      /\ w.config = running[r].config /\ w.at = running[r].at /\ w.listed = running[r].listed
  BY <1>1 DEF RunIs, RunFields
<1> HIDE DEF w
<1>4. DOMAIN running' = Runs /\ running'[r] = w /\ \A q \in Runs : q # r => running'[q] = running[q]
  BY <1>1, <1>2
<1>5. ListIs(r)'
  BY <1>1, <1>3, <1>4 DEF ListIs
<1>6. DiscoveryInv'
  BY <1>1, <1>2, <1>3, <1>4, <1>5, RunGoesOn
<1>q. QED BY <1>2, <1>6 DEF Grows

\* A run that fails nothing replaces the file it has loaded, which nobody else has touched.
LEMMA RunSyncs ==
    ASSUME DiscoveryInv, NEW r \in Runs, NEW at \in Discovery!Times, Discovery!Sync(r, at)
    PROVE  DiscoveryInv' /\ Grows(state, state')
<1> DEFINE result == Discovery!SynchronizeBatch(running[r].state, running[r].batch,
                                                running[r].registry, running[r].config, at)
           w == [running[r] EXCEPT !.pc = "done", !.state = Discovery!EmptyState]
<1>1. /\ running[r].pc = "locked" /\ running[r].cmd = "sync"
      /\ IF result.failed THEN Discovery!Refuse(r)
         ELSE /\ state' = result /\ latch' = latch
              /\ running' = [running EXCEPT ![r].pc = "done", ![r].state = Discovery!EmptyState]
  BY DEF Discovery!Sync
<1>2. RunIs(r) /\ ListIs(r) /\ DOMAIN running = Runs /\ FileIs(state)
  BY DEF DiscoveryInv
<1>3. /\ running[r].state = state /\ running[r].batch \in Batches /\ latch = r
      /\ running[r].registry \in Registries /\ running[r].config \in Configs
  BY <1>1, <1>2 DEF RunIs
<1>4. at \in Nat
  BY DiscoveryAssumption DEF Discovery!Times
<1>5. CASE result.failed
  BY <1>1, <1>5, RunRefuses
<1>6. CASE ~result.failed
  <2>1. FileIs(result) /\ Grows(state, result)
    BY <1>2, <1>3, <1>4, <1>6, SynchronizeKeeps
  <2> HIDE DEF result
  <2>2. state' = result /\ latch' = latch /\ running' = [running EXCEPT ![r] = w]
    BY <1>1, <1>2, <1>6
  <2>3. /\ DOMAIN w = RunFields /\ w.pc = "done" /\ w.registry = running[r].registry
        /\ w.config = running[r].config /\ w.at = running[r].at /\ w.listed = running[r].listed
    BY <1>2 DEF RunIs, RunFields
  <2> HIDE DEF w
  <2>4. DOMAIN running' = Runs /\ running'[r] = w
        /\ \A q \in Runs : q # r => running'[q] = running[q]
    BY <1>2, <2>2
  <2>5. ListIs(r)'
    BY <1>2, <2>3, <2>4 DEF ListIs
  <2>6. FileIs(state)'
    BY <2>1, <2>2
  <2>7. DiscoveryInv'
    BY <1>3, <2>2, <2>3, <2>4, <2>5, <2>6, RunGoesOn
  <2>q. QED BY <2>1, <2>2, <2>7
<1>q. QED BY <1>5, <1>6

\* The list of a review was approved under the lock, by the inputs it was read with.
LEMMA RunReviews ==
    ASSUME DiscoveryInv, NEW r \in Runs, NEW at \in Discovery!Times, Discovery!Review(r, at)
    PROVE  DiscoveryInv' /\ Grows(state, state')
<1> DEFINE st == running[r].state
           registry == running[r].registry
           config == running[r].config
           admitted == /\ Discovery!ReviewAdmits(st, registry, config, at)
                       /\ \A c \in Discovery!Pending(st) : Discovery!Passes(st, c, registry, config, at)
           w == [running[r] EXCEPT !.pc = "done", !.at = at, !.state = Discovery!EmptyState,
                                   !.listed = Discovery!Reviewable(st, registry, at)]
           reviewed == [state EXCEPT !.reviewed = at]
<1>1. /\ running[r].pc = "locked"
      /\ IF admitted
         THEN /\ state' = [st EXCEPT !.reviewed = at] /\ latch' = latch
              /\ running' = [running EXCEPT ![r].pc = "done", ![r].at = at,
                                            ![r].state = Discovery!EmptyState,
                                            ![r].listed = Discovery!Reviewable(st, registry, at)]
         ELSE Discovery!Refuse(r)
  BY DEF Discovery!Review
<1>2. RunIs(r) /\ ListIs(r) /\ DOMAIN running = Runs /\ FileIs(state)
  BY DEF DiscoveryInv
<1>3. st = state /\ latch = r
  BY <1>1, <1>2 DEF RunIs
<1>4. at \in Nat
  BY DiscoveryAssumption DEF Discovery!Times
<1>5. CASE ~admitted
  BY <1>1, <1>5, RunRefuses
<1>6. CASE admitted
  <2>1. /\ state.registry = registry /\ state.config = config /\ state.evaluated >= 0
        /\ \A c \in Discovery!Pending(state) : Discovery!Passes(state, c, registry, config, at)
    <3> HIDE DEF st
    <3>q. QED BY <1>3, <1>6 DEF Discovery!ReviewAdmits
  <2> DEFINE listed == Discovery!Reviewable(state, registry, at)
  <2>2. state' = reviewed /\ latch' = latch /\ running' = [running EXCEPT ![r] = w]
    BY <1>1, <1>2, <1>3, <1>6
  <2>3. /\ DOMAIN w = RunFields /\ w.pc = "done" /\ w.registry = registry
        /\ w.config = config /\ w.at = at /\ w.listed = listed
    BY <1>2, <1>3 DEF RunIs, RunFields
  <2> HIDE DEF admitted, st, w, listed
  <2>4. /\ DOMAIN running' = Runs /\ running'[r] = w
        /\ \A q \in Runs : q # r => running'[q] = running[q]
    BY <1>2, <2>2
  <2>5. /\ DOMAIN reviewed = StateFields /\ reviewed.records = state.records
        /\ reviewed.seen = state.seen /\ reviewed.outbox = state.outbox
        /\ reviewed.next = state.next /\ reviewed.failed = state.failed
        /\ reviewed.registry = state.registry /\ reviewed.config = state.config
        /\ reviewed.evaluated = state.evaluated /\ reviewed.reviewed = at
    BY <1>2 DEF FileIs, Agrees, Boxed, StateFields
  <2> HIDE DEF reviewed
  <2>6. FileIs(reviewed)
    <3>1. state # Discovery!EmptyState
      <4>1. Discovery!EmptyState.evaluated = -1
        BY DEF Discovery!EmptyState
      <4>q. QED BY <2>1, <4>1
    <3>2. /\ Agrees(state, state.registry, state.config, state.evaluated)
          /\ state.registry \in Registries /\ state.config \in Configs /\ state.evaluated \in Nat
          /\ ~state.failed
      BY <1>2, <3>1 DEF FileIs
    <3>3. Agrees(reviewed, state.registry, state.config, state.evaluated)
      BY <2>5, <3>2, AgreesToo
    <3>q. QED BY <1>4, <2>5, <3>2, <3>3 DEF FileIs
  <2>7. ASSUME NEW c \in listed, c.type \notin Discovery!Protective
        PROVE  /\ c.gate.registry = registry /\ c.gate.config = config
               /\ Discovery!ResolveApproval(registry, c.key, c.ver, at).verified
               /\ Discovery!ResolveApproval(registry, c.key, c.ver, at).grant = c.gate.grant
    <3>1. c \in Discovery!Pending(state) /\ ~Discovery!IsBlocked(state, c, registry, at)
      BY DEF listed, Discovery!Reviewable
    <3>2. Discovery!Passes(state, c, registry, config, at)
      BY <2>1, <3>1
    <3>3. Discovery!GateHolds(state, c, registry, config, at)
      BY <2>7, <3>1, <3>2 DEF Discovery!Passes
    <3>4. Discovery!ResolveApproval(registry, c.key, c.ver, at).verified
      BY <2>7, <3>1 DEF Discovery!IsBlocked
    <3>5. /\ state.records[c.key].ver = c.ver
          /\ c.gate.registry = state.registry /\ c.gate.config = state.config
          /\ c.gate.grant = Discovery!ResolveApproval(registry, c.key, state.records[c.key].ver, at).grant
      BY <3>3, Zenon DEF Discovery!GateHolds
    <3>q. QED BY <2>1, <3>4, <3>5
  <2>8. ListIs(r)'
    BY <2>3, <2>4, <2>7 DEF ListIs
  <2>9. FileIs(state)'
    BY <2>2, <2>6
  <2>10. DiscoveryInv'
    BY <1>3, <2>2, <2>3, <2>4, <2>8, <2>9, RunGoesOn
  <2>11. Grows(state, state')
    BY <2>2, <2>5 DEF Grows
  <2>q. QED BY <2>10, <2>11
<1>q. QED BY <1>5, <1>6

\* A run that ends or dies leaves the file.
LEMMA RunEnds ==
    ASSUME DiscoveryInv, NEW r \in Runs, Discovery!Release(r) \/ Discovery!Crash(r)
    PROVE  DiscoveryInv' /\ Grows(state, state')
<1>1. RunIs(r) /\ DOMAIN running = Runs /\ FileIs(state)
  BY DEF DiscoveryInv
<1>2. /\ latch = r /\ state' = state
      /\ running' = [running EXCEPT ![r] = Discovery!Idle]
  BY <1>1 DEF Discovery!Release, Discovery!Crash, RunIs
<1>3. /\ DOMAIN Discovery!Idle = RunFields /\ Discovery!Idle.pc = "idle"
      /\ Discovery!Idle.listed = {}
  BY DEF Discovery!Idle, RunFields
<1>4. DOMAIN running' = Runs /\ running'[r] = Discovery!Idle
      /\ \A q \in Runs : q # r => running'[q] = running[q]
  BY <1>1, <1>2
<1>5. ListIs(r)'
  BY <1>3, <1>4 DEF ListIs
<1>6. DiscoveryInv'
  BY <1>1, <1>2, <1>3, <1>4, <1>5, RunGoesOn
<1>q. QED BY <1>2, <1>6 DEF Grows

LEMMA LockIsCleared ==
    ASSUME DiscoveryInv, Discovery!ClearLock
    PROVE  DiscoveryInv' /\ Grows(state, state')
<1>1. latch = Orphan /\ state' = state /\ running' = running
  BY DEF Discovery!ClearLock
<1>2. \A r \in Runs : RunIs(r)' /\ ListIs(r)'
  BY <1>1, DiscoveryAssumption DEF DiscoveryInv, RunIs, ListIs
<1>q. QED BY <1>1, <1>2 DEF DiscoveryInv, Grows

\* Every step keeps the invariant, the events and the withdrawals.
LEMMA DiscoveryKeeps ==
    DiscoveryInv /\ [Discovery!Next]_discovery_vars => DiscoveryInv' /\ Grows(state, state')
<1> SUFFICES ASSUME DiscoveryInv, [Discovery!Next]_discovery_vars
             PROVE  DiscoveryInv' /\ Grows(state, state')
  OBVIOUS
<1>1. CASE \E r \in Runs, input \in Inputs :
             \/ \E b \in Batches : Discovery!Start(r, "sync", b, input)
             \/ Discovery!Start(r, "review", <<>>, input)
  <2>1. PICK r \in Runs, input \in Inputs :
             \/ \E b \in Batches : Discovery!Start(r, "sync", b, input)
             \/ Discovery!Start(r, "review", <<>>, input)
    BY <1>1
  <2>2. ASSUME NEW b \in Batches, Discovery!Start(r, "sync", b, input)
        PROVE  DiscoveryInv' /\ Grows(state, state')
    BY <2>2, RunStarts
  <2>3. ASSUME Discovery!Start(r, "review", <<>>, input)
        PROVE  DiscoveryInv' /\ Grows(state, state')
    <3>1. "review" # "sync"
      OBVIOUS
    <3>q. QED BY <2>3, <3>1, RunStarts
  <2>q. QED BY <2>1, <2>2, <2>3
<1>2. CASE \E r \in Runs : Discovery!WithStateLock(r)
  BY <1>2, RunLocks
<1>3. CASE \E r \in Runs : \E at \in Discovery!Times : Discovery!Sync(r, at) \/ Discovery!Review(r, at)
  BY <1>3, RunSyncs, RunReviews
<1>4. CASE \E r \in Runs : Discovery!Release(r) \/ Discovery!Crash(r)
  BY <1>4, RunEnds
<1>5. CASE Discovery!ClearLock
  BY <1>5, LockIsCleared
<1>6. CASE UNCHANGED discovery_vars
  <2>1. state' = state /\ latch' = latch /\ running' = running
    BY <1>6 DEF discovery_vars
  <2>2. FileIs(state)' /\ \A r \in Runs : RunIs(r)' /\ ListIs(r)'
    BY <2>1 DEF DiscoveryInv, RunIs, ListIs
  <2>q. QED BY <2>1, <2>2 DEF DiscoveryInv, Grows
<1>q. QED BY <1>1, <1>2, <1>3, <1>4, <1>5, <1>6 DEF Discovery!Next

\* In Queues only a step of Discovery touches its part.
LEMMA OneKeeps == DiscoveryInv /\ [OneNext]_queues_vars => DiscoveryInv' /\ Grows(state, state')
<1>1. [OneNext]_queues_vars => [Discovery!Next]_discovery_vars
  BY DEF OneNext, OfBridge, OfArchive, OfDiscovery, queues_vars
<1>q. QED BY <1>1, DiscoveryKeeps

\* The state file is loadable, its pending commands are reviewable at any later
\* instant, everything shown or offered and no longer approved is being taken back,
\* the latest event wins, and a list is of what its review's registry approves
\* (synchronizeBatch, reviewPendingOutboxEvents).
THEOREM StateStaysSound == QueuesSpec => []StateIsSound
<1>1. BothInit => DiscoveryInv
  BY InitInv DEF BothInit
<1>q. QED BY <1>1, OneKeeps, InvIsSound, PTL DEF QueuesSpec

\* No run and no crash undoes an applied event or revives a withdrawn record
\* (withStateLock, TERMINAL_RECORD_REVIVAL).
THEOREM StateStaysKept == QueuesSpec => StateIsKept
<1>1. BothInit => DiscoveryInv
  BY InitInv DEF BothInit
<1>2. DiscoveryInv /\ [OneNext]_queues_vars =>
        [state.seen \subseteq state'.seen]_discovery_vars
  BY OneKeeps DEF Grows
<1>3. DiscoveryInv /\ [OneNext]_queues_vars =>
        [\A k \in Keys : state.records[k].what = "deleted" =>
                           state'.records[k].what = "deleted"]_discovery_vars
  BY OneKeeps DEF Grows
<1>q. QED BY <1>1, <1>2, <1>3, OneKeeps, PTL
          DEF QueuesSpec, StateIsKept, Discovery!AppliedIsKept, Discovery!WithdrawnIsFinal,
              Discovery!vars, discovery_vars
=============================================================================

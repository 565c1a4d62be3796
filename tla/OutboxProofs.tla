---------------------------- MODULE OutboxProofs ----------------------------
(***************************************************************************)
(* What the outbox guarantees for any events, workers, batches, attempts   *)
(* and faults, with either sink.  The argument: a worker that is about to  *)
(* acknowledge has seen its event in the sink, and the sink only grows; a  *)
(* worker that is idle holds no claims, so a claim that it holds and that  *)
(* is still in its name is the last one of the event.                      *)
(***************************************************************************)
EXTENDS Outbox, TLAPS

-----------------------------------------------------------------------------
(* The inductive invariant                                                 *)

\* What each place of a worker implies.
Places ==
    \A w \in Workers :
        /\ pc[w] = "idle" => batch[w] = {}
        /\ pc[w] \notin {"idle", "next"} => current[w] \in Claims
        /\ pc[w] \notin {"idle", "next", "reject"} => current[w].event \notin Invalid
        /\ pc[w] \in {"lookup", "head", "append", "readback"} => Archive
        /\ pc[w] = "export" => ~Archive
        /\ pc[w] \in {"readback", "acknowledge"} => current[w].event \in Range(stored)

\* A claim that is still in its worker's name is the last one of its event.
LastClaims ==
    \A w \in Workers :
        /\ \A claim \in batch[w] :
              claimedBy[claim.event] = w => claim.attempt = attempts[claim.event]
        /\ pc[w] \notin {"idle", "next"} /\ claimedBy[current[w].event] = w =>
              current[w].attempt = attempts[current[w].event]

IInv == TypeOK /\ Places /\ LastClaims /\ PublishedIsStored /\ StoredOnce

-----------------------------------------------------------------------------
(* The sink                                                                *)

\* What is stored stays stored, and a new event is stored after it.
LEMMA StoredGrows ==
    ASSUME NEW S, NEW s \in Seq(S), NEW x \in S
    PROVE  /\ Append(s, x) \in Seq(S)
           /\ Range(Append(s, x)) = Range(s) \cup {x}
<1>1. Append(s, x) \in Seq(S) /\ Len(Append(s, x)) = Len(s) + 1 /\ Len(s) \in Nat
      /\ DOMAIN s = 1..Len(s) /\ DOMAIN Append(s, x) = 1..(Len(s) + 1)
  OBVIOUS
<1>2. \A i \in 1..Len(s) : Append(s, x)[i] = s[i]
  OBVIOUS
<1>3. Append(s, x)[Len(s) + 1] = x
  OBVIOUS
<1>4. 1..(Len(s) + 1) = 1..Len(s) \cup {Len(s) + 1}
  BY <1>1
<1>5. QED BY <1>1, <1>2, <1>3, <1>4 DEF Range

\* A new event is stored beside the others.
LEMMA StoredApart ==
    ASSUME NEW S, NEW s \in Seq(S), NEW x \in S, x \notin Range(s), IsInjective(s)
    PROVE  IsInjective(Append(s, x))
<1>1. DOMAIN s = 1..Len(s) /\ DOMAIN Append(s, x) = 1..(Len(s) + 1) /\ Len(s) \in Nat
  OBVIOUS
<1>2. \A i \in 1..Len(s) : Append(s, x)[i] = s[i]
  OBVIOUS
<1>3. Append(s, x)[Len(s) + 1] = x
  OBVIOUS
<1>4. \A i \in 1..Len(s) : s[i] # x
  BY <1>1 DEF Range
<1>5. \A i, j \in 1..Len(s) : s[i] = s[j] => i = j
  BY <1>1 DEF IsInjective
<1>6. \A i \in 1..(Len(s) + 1) : i \in 1..Len(s) \/ i = Len(s) + 1
  BY <1>1
<1>7. \A i, j \in 1..(Len(s) + 1) : Append(s, x)[i] = Append(s, x)[j] => i = j
  BY <1>2, <1>3, <1>4, <1>5, <1>6
<1>8. QED BY <1>1, <1>7 DEF IsInjective

-----------------------------------------------------------------------------
(* Every action keeps the invariant                                        *)

\* A new event is neither published nor claimed.
LEMMA EmitKeeps == ASSUME IInv, NEW e \in Events, Emit(e) PROVE IInv'
BY DEF Emit, IInv, TypeOK, Places, LastClaims, PublishedIsStored, StoredOnce, worker

\* Time changes no claim.
LEMMA TimePassesKeeps == ASSUME IInv, NEW e \in Events, TimePasses(e) PROVE IInv'
BY DEF TimePasses, IInv, TypeOK, Places, LastClaims, PublishedIsStored, StoredOnce, worker

\* A claim is the last one of its event, and takes it from its former worker.
LEMMA ClaimKeeps ==
    ASSUME IInv, NEW w \in Workers, Claim(w)
    PROVE  IInv'
<1> USE DEF IInv
<1>1. PICK taken \in (SUBSET Claimable) \ {{}} :
         /\ claimedBy' = [e \in Events |-> IF e \in taken THEN w ELSE claimedBy[e]]
         /\ attempts' = [e \in Events |-> IF e \in taken THEN attempts[e] + 1 ELSE attempts[e]]
         /\ due' = [e \in Events |-> due[e] /\ e \notin taken]
         /\ \/ /\ batch' = [batch EXCEPT ![w] =
                              {[event |-> e, attempt |-> attempts'[e]] : e \in taken}]
               /\ Goto(w, "next") /\ UNCHANGED faults
            \/ Fault /\ UNCHANGED <<pc, batch>>
  BY DEF Claim
<1>2. \A e \in taken : e \in Events /\ attempts[e] + 1 \in 0..MaxAttempts
  BY BoundsAssumption DEF TypeOK, Claimable
<1>3. attempts' \in [Events -> 0..MaxAttempts]
  BY <1>1, <1>2 DEF TypeOK
<1>4. claimedBy' \in [Events -> Workers \cup {Nobody}] /\ due' \in [Events -> BOOLEAN]
  BY <1>1 DEF TypeOK
<1>5. {[event |-> e, attempt |-> attempts'[e]] : e \in taken} \subseteq Claims
  BY <1>2, <1>3 DEF Claims
<1>6. batch' \in [Workers -> SUBSET Claims]
  BY <1>1, <1>5 DEF TypeOK
<1>7. pc' \in [Workers -> {"idle", "next", "lookup", "head", "append", "readback",
                           "export", "acknowledge", "reject"}]
  BY <1>1 DEF TypeOK, Goto
<1>8. faults' \in 0..MaxFaults
  BY <1>1, FaultsAssumption DEF TypeOK, Fault
<1>9. TypeOK'
  BY <1>3, <1>4, <1>6, <1>7, <1>8 DEF TypeOK, Claim
<1>10. pc[w] = "idle" /\ batch[w] = {}
  BY DEF Claim, Places
<1>11. \A v \in Workers \ {w} : pc'[v] = pc[v] /\ batch'[v] = batch[v]
  BY <1>1 DEF TypeOK, Goto
<1>12. \/ pc'[w] = "idle" /\ batch'[w] = {}
       \/ /\ pc'[w] = "next"
          /\ batch'[w] = {[event |-> e, attempt |-> attempts'[e]] : e \in taken}
  BY <1>1, <1>10 DEF TypeOK, Goto
<1>13. Places'
  BY <1>11, <1>12 DEF Places, Claim
<1>14. \A v \in Workers \ {w}, e \in Events :
          claimedBy'[e] = v => claimedBy[e] = v /\ attempts'[e] = attempts[e]
  BY <1>1 DEF TypeOK
<1>15. LastClaims'
  <2>1. ASSUME NEW v \in Workers, v # w
        PROVE  /\ \A claim \in batch'[v] :
                     claimedBy'[claim.event] = v => claim.attempt = attempts'[claim.event]
               /\ pc'[v] \notin {"idle", "next"} /\ claimedBy'[current'[v].event] = v =>
                     current'[v].attempt = attempts'[current'[v].event]
    <3>1. \A claim \in batch[v] : claim.event \in Events
      BY DEF TypeOK, Claims
    <3>2. pc[v] \notin {"idle", "next"} => current[v].event \in Events
      BY DEF Places, Claims
    <3>3. QED BY <2>1, <3>1, <3>2, <1>11, <1>14 DEF LastClaims, Claim
  <2>2. \A claim \in batch'[w] : claim.attempt = attempts'[claim.event]
    BY <1>12
  <2>3. QED BY <2>1, <2>2, <1>12 DEF LastClaims
<1>16. PublishedIsStored' /\ StoredOnce'
  BY DEF PublishedIsStored, StoredOnce, Claim
<1>17. QED BY <1>9, <1>13, <1>15, <1>16

\* What is taken was claimed.
LEMMA TakeKeeps ==
    ASSUME IInv, NEW w \in Workers, Take(w)
    PROVE  IInv'
<1> USE DEF IInv, Take, Goto
<1>1. PICK claim \in batch[w] :
         /\ current' = [current EXCEPT ![w] = claim]
         /\ batch' = [batch EXCEPT ![w] = @ \ {claim}]
         /\ pc' = [pc EXCEPT ![w] = IF claim.event \in Invalid THEN "reject"
                                    ELSE IF Archive THEN "lookup" ELSE "export"]
  OBVIOUS
<1>2. claim \in Claims
  BY DEF TypeOK
<1>3. TypeOK'
  BY <1>1, <1>2 DEF TypeOK, row
<1>4. Places'
  BY <1>1, <1>2 DEF TypeOK, Places
<1>5. LastClaims'
  BY <1>1 DEF TypeOK, LastClaims, row
<1>6. PublishedIsStored' /\ StoredOnce'
  BY DEF PublishedIsStored, StoredOnce, row
<1>7. QED BY <1>3, <1>4, <1>5, <1>6

\* A finished batch is empty.
LEMMA FinishKeeps ==
    ASSUME IInv, NEW w \in Workers, Finish(w)
    PROVE  IInv'
BY DEF Finish, Goto, row, IInv, TypeOK, Places, LastClaims, PublishedIsStored, StoredOnce

\* A request that only reads changes the place of its worker.
LEMMA ReadKeeps ==
    ASSUME IInv, NEW w \in Workers, Lookup(w) \/ ReadHead(w) \/ ReadBack(w)
    PROVE  IInv'
<1> USE DEF IInv, Lookup, ReadHead, ReadBack, Read, Delivery, Goto, row
<1>1. TypeOK'
  <2>1. Len(stored) \in Nat
    BY DEF TypeOK
  <2>2. QED BY <2>1, FaultsAssumption DEF TypeOK, Fault
<1>2. Places'
  BY DEF TypeOK, Places
<1>3. LastClaims'
  BY DEF TypeOK, LastClaims
<1>4. PublishedIsStored' /\ StoredOnce'
  BY DEF PublishedIsStored, StoredOnce
<1>5. QED BY <1>1, <1>2, <1>3, <1>4

\* A request that writes adds an event, and the archive only one it does not have.
LEMMA WriteKeeps ==
    ASSUME IInv, NEW w \in Workers, AppendRecord(w) \/ Export(w)
    PROVE  IInv'
<1> USE DEF IInv
<1> DEFINE e == current[w].event
<1>1. /\ e \in Events \ Invalid /\ stored \in Seq(Events \ Invalid)
      /\ pc[w] \in {"append", "export"}
  BY DEF AppendRecord, Export, Delivery, TypeOK, Places, Claims
<1>2. /\ Append(stored, e) \in Seq(Events \ Invalid)
      /\ Range(Append(stored, e)) = Range(stored) \cup {e}
  BY <1>1, StoredGrows
<1>3. /\ \/ stored' = stored /\ pc' = [pc EXCEPT ![w] = "reject"]
         \/ /\ stored' = Append(stored, e)
            /\ Archive => e \notin Range(stored)
            /\ \/ Archive /\ pc' = [pc EXCEPT ![w] = "readback"]
               \/ pc' = [pc EXCEPT ![w] = "acknowledge"]
               \/ pc' = [pc EXCEPT ![w] = "reject"]
      /\ faults' = faults \/ Fault
      /\ UNCHANGED <<row, batch, current, head>>
  BY DEF AppendRecord, Export, Delivery, Goto, Places, Accepts
<1>4. TypeOK'
  <2>1. faults' \in 0..MaxFaults
    BY <1>3, FaultsAssumption DEF TypeOK, Fault
  <2>2. stored' \in Seq(Events \ Invalid)
    BY <1>1, <1>2, <1>3
  <2>3. QED BY <1>3, <2>1, <2>2 DEF TypeOK, row
<1>5. Range(stored) \subseteq Range(stored')
  BY <1>2, <1>3
<1>6. Places'
  BY <1>1, <1>2, <1>3, <1>5 DEF TypeOK, Places
<1>7. LastClaims'
  BY <1>1, <1>3 DEF TypeOK, LastClaims, row
<1>8. PublishedIsStored'
  BY <1>3, <1>5 DEF PublishedIsStored, row
<1>9. StoredOnce'
  <2>1. CASE stored' = stored
    BY <2>1 DEF StoredOnce
  <2>2. CASE stored' = Append(stored, e) /\ (Archive => e \notin Range(stored))
    BY <1>1, <2>2, StoredApart DEF StoredOnce
  <2>3. QED BY <1>3, <2>1, <2>2
<1>10. QED BY <1>4, <1>6, <1>7, <1>8, <1>9

\* What is acknowledged is stored.
LEMMA AcknowledgeKeeps ==
    ASSUME IInv, NEW w \in Workers, Acknowledge(w)
    PROVE  IInv'
<1> USE DEF IInv
<1> DEFINE e == current[w].event
<1>1. e \in Events /\ e \in Range(stored) /\ pc[w] = "acknowledge"
  BY DEF Acknowledge, Places, Claims
<1>2. /\ pc' \in {[pc EXCEPT ![w] = "next"], [pc EXCEPT ![w] = "reject"]}
      /\ \/ UNCHANGED row
         \/ /\ status' = [status EXCEPT ![e] = "published"]
            /\ claimedBy' = [claimedBy EXCEPT ![e] = Nobody]
            /\ UNCHANGED <<attempts, due>>
      /\ faults' = faults \/ Fault
      /\ UNCHANGED <<batch, current, head, stored>>
  BY DEF Acknowledge, Goto, row
<1>3. TypeOK'
  <2>1. faults' \in 0..MaxFaults
    BY <1>2, FaultsAssumption DEF TypeOK, Fault
  <2>2. QED BY <1>1, <1>2, <2>1 DEF TypeOK, row
<1>4. Places'
  BY <1>1, <1>2 DEF TypeOK, Places
<1>5. LastClaims'
  <2>1. UNCHANGED attempts /\ current' = current
    BY <1>2 DEF row
  <2>2. ASSUME NEW v \in Workers, NEW f \in Events, claimedBy'[f] = v
        PROVE  claimedBy[f] = v
    BY <1>1, <1>2, <2>2, WorkersAssumption DEF TypeOK, row
  <2>3. \A v \in Workers : batch'[v] \subseteq batch[v]
    BY <1>2 DEF TypeOK
  <2>4. \A v \in Workers : pc'[v] \notin {"idle", "next"} => pc[v] \notin {"idle", "next"}
    BY <1>1, <1>2 DEF TypeOK
  <2>5. \A v \in Workers : /\ \A claim \in batch[v] : claim.event \in Events
                           /\ pc[v] \notin {"idle", "next"} => current[v].event \in Events
    BY DEF TypeOK, Places, Claims
  <2>6. ASSUME NEW v \in Workers, NEW claim \in batch'[v], claimedBy'[claim.event] = v
        PROVE  claim.attempt = attempts'[claim.event]
    BY <2>1, <2>2, <2>3, <2>5, <2>6 DEF LastClaims
  <2>7. ASSUME NEW v \in Workers, pc'[v] \notin {"idle", "next"},
               claimedBy'[current'[v].event] = v
        PROVE  current'[v].attempt = attempts'[current'[v].event]
    BY <2>1, <2>2, <2>4, <2>5, <2>7 DEF LastClaims
  <2>8. QED BY <2>6, <2>7 DEF LastClaims
<1>6. PublishedIsStored' /\ StoredOnce'
  BY <1>1, <1>2 DEF TypeOK, PublishedIsStored, StoredOnce, row
<1>7. QED BY <1>3, <1>4, <1>5, <1>6

\* A rejection gives its claim up and publishes nothing.
LEMMA RejectKeeps ==
    ASSUME IInv, NEW w \in Workers, Reject(w)
    PROVE  IInv'
<1> USE DEF IInv
<1> DEFINE e == current[w].event
<1>1. e \in Events /\ pc[w] = "reject"
  BY DEF Reject, Places, Claims
<1>2. /\ \/ pc' = [pc EXCEPT ![w] = "next"] /\ batch' = batch
         \/ pc' = [pc EXCEPT ![w] = "idle"] /\ batch' = [batch EXCEPT ![w] = {}]
      /\ \/ UNCHANGED row
         \/ /\ status' \in {status, [status EXCEPT ![e] = "dead"]}
            /\ due' \in {due, [due EXCEPT ![e] = FALSE]}
            /\ claimedBy' = [claimedBy EXCEPT ![e] = Nobody]
            /\ UNCHANGED attempts
      /\ faults' = faults \/ Fault
      /\ UNCHANGED <<current, head, stored>>
  BY DEF Reject, Goto, Abandon, Released, row
<1>3. TypeOK'
  <2>1. faults' \in 0..MaxFaults
    BY <1>2, FaultsAssumption DEF TypeOK, Fault
  <2>2. QED BY <1>1, <1>2, <2>1 DEF TypeOK, row
<1>4. Places'
  <2>1. \A v \in Workers \ {w} : pc'[v] = pc[v] /\ batch'[v] = batch[v]
    BY <1>2 DEF TypeOK
  <2>2. pc'[w] = "next" \/ (pc'[w] = "idle" /\ batch'[w] = {})
    BY <1>2 DEF TypeOK
  <2>3. QED BY <1>2, <2>1, <2>2 DEF Places
<1>5. LastClaims'
  <2>1. UNCHANGED attempts /\ current' = current
    BY <1>2 DEF row
  <2>2. ASSUME NEW v \in Workers, NEW f \in Events, claimedBy'[f] = v
        PROVE  claimedBy[f] = v
    BY <1>1, <1>2, <2>2, WorkersAssumption DEF TypeOK, row
  <2>3. \A v \in Workers : batch'[v] \subseteq batch[v]
    BY <1>2 DEF TypeOK
  <2>4. \A v \in Workers : pc'[v] \notin {"idle", "next"} => pc[v] \notin {"idle", "next"}
    BY <1>1, <1>2 DEF TypeOK
  <2>5. \A v \in Workers : /\ \A claim \in batch[v] : claim.event \in Events
                           /\ pc[v] \notin {"idle", "next"} => current[v].event \in Events
    BY DEF TypeOK, Places, Claims
  <2>6. ASSUME NEW v \in Workers, NEW claim \in batch'[v], claimedBy'[claim.event] = v
        PROVE  claim.attempt = attempts'[claim.event]
    BY <2>1, <2>2, <2>3, <2>5, <2>6 DEF LastClaims
  <2>7. ASSUME NEW v \in Workers, pc'[v] \notin {"idle", "next"},
               claimedBy'[current'[v].event] = v
        PROVE  current'[v].attempt = attempts'[current'[v].event]
    BY <2>1, <2>2, <2>4, <2>5, <2>7 DEF LastClaims
  <2>8. QED BY <2>6, <2>7 DEF LastClaims
<1>6. PublishedIsStored' /\ StoredOnce'
  BY <1>1, <1>2 DEF TypeOK, PublishedIsStored, StoredOnce, row
<1>7. QED BY <1>3, <1>4, <1>5, <1>6

\* A worker that died has no claims in hand.
LEMMA CrashKeeps ==
    ASSUME IInv, NEW w \in Workers, Crash(w)
    PROVE  IInv'
<1> USE DEF IInv, Crash, Abandon, Goto, row
<1>1. TypeOK'
  BY FaultsAssumption DEF TypeOK, Fault
<1>2. Places'
  BY DEF TypeOK, Places
<1>3. LastClaims'
  BY DEF TypeOK, LastClaims
<1>4. PublishedIsStored' /\ StoredOnce'
  BY DEF PublishedIsStored, StoredOnce
<1>5. QED BY <1>1, <1>2, <1>3, <1>4

-----------------------------------------------------------------------------
(* The theorems                                                            *)

\* An empty outbox has the invariant.
LEMMA InitIInv == Init => IInv
<1> SUFFICES ASSUME Init PROVE IInv
  OBVIOUS
<1>1. TypeOK
  BY BoundsAssumption, FaultsAssumption DEF Init, TypeOK
<1>2. Places /\ LastClaims /\ PublishedIsStored
  BY DEF Init, Places, LastClaims, PublishedIsStored
<1>3. StoredOnce
  BY DEF Init, StoredOnce, IsInjective
<1>4. QED BY <1>1, <1>2, <1>3 DEF IInv

\* Every step keeps the invariant.
LEMMA NextKeeps == IInv /\ [Next]_vars => IInv'
<1> SUFFICES ASSUME IInv, [Next]_vars PROVE IInv'
  OBVIOUS
<1>1. CASE UNCHANGED vars
  BY <1>1 DEF vars, row, worker, IInv, TypeOK, Places, LastClaims, PublishedIsStored, StoredOnce
<1>2. ASSUME NEW e \in Events, Emit(e) \/ TimePasses(e) PROVE IInv'
  BY <1>2, EmitKeeps, TimePassesKeeps
<1>3. ASSUME NEW w \in Workers, Step(w) \/ Crash(w) PROVE IInv'
  BY <1>3, ClaimKeeps, TakeKeeps, FinishKeeps, ReadKeeps, WriteKeeps, AcknowledgeKeeps,
      RejectKeeps, CrashKeeps DEF Step
<1>4. QED BY <1>1, <1>2, <1>3 DEF Next

\* The invariant holds in every reachable state.
THEOREM InvariantHolds == Spec => []IInv
BY InitIInv, NextKeeps, PTL DEF Spec

\* The rows, the workers and the sink keep their types; no event is claimed more
\* often than maxAttempts, and none that is invalid reaches the sink.
THEOREM TypeCorrect == Spec => []TypeOK
<1>1. IInv => TypeOK BY DEF IInv
<1>2. QED BY <1>1, InvariantHolds, PTL

\* What is published is in the sink, whatever was lost or repeated.
THEOREM PublishedIsInTheSink == Spec => []PublishedIsStored
<1>1. IInv => PublishedIsStored BY DEF IInv
<1>2. QED BY <1>1, InvariantHolds, PTL

\* The archive has at most one record of an event.
THEOREM ArchivedOnce == Spec => []StoredOnce
<1>1. IInv => StoredOnce BY DEF IInv
<1>2. QED BY <1>1, InvariantHolds, PTL

\* No worker answers for an attempt of another one, or for an earlier one of its own.
THEOREM AnswersAreForTheLastAttempt == Spec => AnswersItsAttempt
<1> DEFINE Answered ==
      \A e \in Events :
          status[e] = "pending" /\ claimedBy'[e] = Nobody /\ claimedBy[e] # Nobody =>
             \E w \in Workers : /\ Delivering(w)
                                /\ current[w] = [event |-> e, attempt |-> attempts[e]]
<1>1. IInv /\ [Next]_vars => [Answered]_vars
  <2> SUFFICES ASSUME IInv, Next, NEW e \in Events,
                      claimedBy'[e] = Nobody, claimedBy[e] # Nobody
               PROVE  \E w \in Workers : /\ Delivering(w)
                                         /\ current[w] = [event |-> e, attempt |-> attempts[e]]
    OBVIOUS
  <2>1. PICK w \in Workers : Acknowledge(w) \/ Reject(w)
    <3>1. ASSUME NEW w \in Workers, Claim(w) PROVE FALSE
      BY <3>1, WorkersAssumption DEF Claim, IInv, TypeOK
    <3>2. ASSUME NEW f \in Events, Emit(f) \/ TimePasses(f) PROVE FALSE
      BY <3>2 DEF Emit, TimePasses
    <3>3. ASSUME NEW w \in Workers, \/ Take(w) \/ Finish(w) \/ Lookup(w) \/ ReadHead(w)
                                    \/ AppendRecord(w) \/ ReadBack(w) \/ Export(w) \/ Crash(w)
          PROVE  FALSE
      BY <3>3 DEF Take, Finish, Lookup, ReadHead, AppendRecord, ReadBack, Export, Crash, Read,
          Delivery, row
    <3>4. QED BY <3>1, <3>2, <3>3 DEF Next, Step
  <2>2. Delivering(w) /\ current[w] \in Claims
    BY <2>1 DEF Acknowledge, Reject, Delivering, IInv, Places
  <2>3. claimedBy[current[w].event] = w /\ current[w].event = e
    BY <2>1, <2>2 DEF Acknowledge, Reject, Holds, IInv, TypeOK, row, Claims
  <2>4. current[w].attempt = attempts[e]
    BY <2>1, <2>3 DEF Acknowledge, Reject, IInv, LastClaims
  <2>5. QED BY <2>2, <2>3, <2>4 DEF Claims
<1>2. QED BY <1>1, InvariantHolds, PTL DEF Spec, AnswersItsAttempt

=============================================================================

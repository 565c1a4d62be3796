-------------------------------- MODULE Outbox --------------------------------
(***************************************************************************)
(* The transactional outbox (PostgresOutbox) and the dispatchers that      *)
(* carry its events to the WORM archive or to the usage log sink.          *)
(*                                                                         *)
(* Workers claim events for a time, deliver them one after another and     *)
(* acknowledge or reject each.  A claim runs out while its worker is still *)
(* busy; a transaction may commit and its answer be lost; a request to the *)
(* sink may fail with or without effect; a worker may die or be aborted    *)
(* anywhere and comes back under the same identity.                        *)
(***************************************************************************)
EXTENDS Naturals, FiniteSets, Sequences, Functions

CONSTANTS
    Events,       \* the events of one component
    Invalid,      \* events whose payload does not pass the transformer
    Workers,      \* worker identities
    Nobody,       \* claimed_by is NULL
    MaxAttempts,  \* claims after which an event is given up
    BatchSize,    \* events per claim
    Archive,      \* the sink is the WORM archive, else the usage log
    MaxFaults     \* bound: lost answers, failed requests and crashes

ASSUME EventsAssumption  == Invalid \subseteq Events
ASSUME WorkersAssumption == Nobody \notin Workers
ASSUME BoundsAssumption  == MaxAttempts \in Nat \ {0} /\ BatchSize \in Nat \ {0}
ASSUME FaultsAssumption  == MaxFaults \in Nat
ASSUME ArchiveAssumption == Archive \in BOOLEAN

VARIABLES
    status,     \* of an event: "absent", "pending", "published" or "dead"
    claimedBy,  \* the worker of its last claim, until it answers
    attempts,   \* how often it was claimed
    due,        \* neither its claim nor its retry delay is running
    pc,         \* where each worker stands
    batch,      \* the claims of a worker that are still to be delivered
    current,    \* the claim it is delivering
    head,       \* the head of the archive it read
    stored,     \* what the sink has, in order
    faults

row    == <<status, claimedBy, attempts, due>>
worker == <<pc, batch, current, head>>
vars   == <<row, worker, stored, faults>>

\* A claim as its worker holds it: the event and the attempts it was read with.
Claims  == [event : Events, attempt : 0..MaxAttempts]
NoClaim == [event |-> Nobody, attempt |-> 0]

Goto(w, l) == pc' = [pc EXCEPT ![w] = l]
Fault      == faults < MaxFaults /\ faults' = faults + 1

-----------------------------------------------------------------------------
(* Claims                                                                  *)

\* The transaction that changes the state also inserts the event.
Emit(e) ==
    /\ status[e] = "absent"
    /\ status' = [status EXCEPT ![e] = "pending"]
    /\ due' = [due EXCEPT ![e] = TRUE]
    /\ UNCHANGED <<claimedBy, attempts, worker, stored, faults>>

\* A claim or a retry delay runs out.
TimePasses(e) ==
    /\ status[e] = "pending" /\ ~due[e]
    /\ due' = [due EXCEPT ![e] = TRUE]
    /\ UNCHANGED <<status, claimedBy, attempts, worker, stored, faults>>

\* Mutant: only events that nobody claimed, not those whose claim has run out.
Claimable_Unclaimed ==
    {e \in Events : /\ status[e] = "pending" /\ due[e] /\ claimedBy[e] = Nobody
                    /\ attempts[e] < MaxAttempts}

Claimable ==
    {e \in Events : status[e] = "pending" /\ due[e] /\ attempts[e] < MaxAttempts}

\* Some of the claimable events: others may be locked by another transaction or
\* belong to a tenant whose turn comes later.  The worker learns of its claims, or
\* the claims commit and it does not: the answer is lost, or the transaction of
\* a later tenant fails.
Claim(w) ==
    /\ pc[w] = "idle"
    /\ \E taken \in (SUBSET Claimable) \ {{}} :
          /\ Cardinality(taken) <= BatchSize
          /\ claimedBy' = [e \in Events |-> IF e \in taken THEN w ELSE claimedBy[e]]
          /\ attempts' = [e \in Events |-> IF e \in taken THEN attempts[e] + 1 ELSE attempts[e]]
          /\ due' = [e \in Events |-> due[e] /\ e \notin taken]
          /\ \/ /\ batch' = [batch EXCEPT ![w] =
                               {[event |-> e, attempt |-> attempts'[e]] : e \in taken}]
                /\ Goto(w, "next") /\ UNCHANGED faults
             \/ Fault /\ UNCHANGED <<pc, batch>>
    /\ UNCHANGED <<status, current, head, stored>>

-----------------------------------------------------------------------------
(* Delivery                                                                *)

\* The next claim of the batch; an event that does not pass is never delivered.
Take(w) ==
    /\ pc[w] = "next"
    /\ \E claim \in batch[w] :
          /\ current' = [current EXCEPT ![w] = claim]
          /\ batch' = [batch EXCEPT ![w] = @ \ {claim}]
          /\ Goto(w, IF claim.event \in Invalid THEN "reject"
                     ELSE IF Archive THEN "lookup" ELSE "export")
    /\ UNCHANGED <<row, head, stored, faults>>

\* The whole batch has been answered.
Finish(w) ==
    /\ pc[w] = "next" /\ batch[w] = {}
    /\ Goto(w, "idle")
    /\ UNCHANGED <<row, batch, current, head, stored, faults>>

Delivery(w, from) == pc[w] = from /\ UNCHANGED <<row, batch, current>>

\* A request that only reads: it is answered or fails.
Read(w, from, l) ==
    /\ Delivery(w, from)
    /\ \/ Goto(w, l) /\ UNCHANGED faults
       \/ Goto(w, "reject") /\ Fault
    /\ UNCHANGED stored

\* WormAuditExporter.append: an event that is archived already is a replay.
Lookup(w) ==
    /\ Read(w, "lookup", IF current[w].event \in Range(stored) THEN "acknowledge" ELSE "head")
    /\ UNCHANGED head

ReadHead(w) ==
    /\ Read(w, "head", "append")
    /\ head' = [head EXCEPT ![w] = Len(stored)]

\* Mutant: the archive relies on the lookup of its writers.
Accepts_AnyEvent(w) == head[w] = Len(stored)

\* The archive takes an event once, and only on the head its writer has seen.
Accepts(w) == head[w] = Len(stored) /\ current[w].event \notin Range(stored)

AppendRecord(w) ==
    /\ Delivery(w, "append")
    /\ \/ /\ Accepts(w) /\ stored' = Append(stored, current[w].event)
          /\ \/ Goto(w, "readback") /\ UNCHANGED faults
             \/ Goto(w, "reject") /\ Fault
       \/ /\ ~Accepts(w) /\ Goto(w, "reject")
          /\ UNCHANGED <<stored, faults>>
       \/ Goto(w, "reject") /\ Fault /\ UNCHANGED stored
    /\ UNCHANGED head

ReadBack(w) == Read(w, "readback", "acknowledge") /\ UNCHANGED head

\* Mutant: an error of the sink is not seen.
Export_ErrorIsAnswered(w) ==
    /\ Delivery(w, "export") /\ Goto(w, "acknowledge")
    /\ \/ stored' = Append(stored, current[w].event) /\ UNCHANGED faults
       \/ Fault /\ UNCHANGED stored
    /\ UNCHANGED head

\* The usage log takes every copy; it is to drop duplicates by event ID.
Export(w) ==
    /\ Delivery(w, "export")
    /\ \/ /\ stored' = Append(stored, current[w].event)
          /\ \/ Goto(w, "acknowledge") /\ UNCHANGED faults
             \/ Goto(w, "reject") /\ Fault
       \/ Goto(w, "reject") /\ Fault /\ UNCHANGED stored
    /\ UNCHANGED head

-----------------------------------------------------------------------------
(* Answers                                                                 *)

\* Mutant: an answer counts whoever holds the claim.
Holds_Anyone(w, e) == status[e] = "pending"

\* An answer counts if the last claim of the event is this worker's.
Holds(w, e) == status[e] = "pending" /\ claimedBy[e] = w

Acknowledge(w) ==
    LET e == current[w].event
        Published == /\ Holds(w, e)
                     /\ status' = [status EXCEPT ![e] = "published"]
                     /\ claimedBy' = [claimedBy EXCEPT ![e] = Nobody]
                     /\ UNCHANGED <<attempts, due>>
    IN  /\ pc[w] = "acknowledge"
        /\ \/ Published /\ Goto(w, "next") /\ UNCHANGED faults
           \/ Published /\ Goto(w, "reject") /\ Fault
           \/ ~Holds(w, e) /\ Goto(w, "reject") /\ UNCHANGED <<row, faults>>
           \/ Goto(w, "reject") /\ Fault /\ UNCHANGED row
        /\ UNCHANGED <<batch, current, head, stored>>

\* runOnce ends with an error and forgets what is left of its batch.
Abandon(w) == Goto(w, "idle") /\ batch' = [batch EXCEPT ![w] = {}]

\* A rejected event waits for its retry delay, or is given up.
Released(e) ==
    IF attempts[e] >= MaxAttempts
    THEN status' = [status EXCEPT ![e] = "dead"] /\ UNCHANGED <<attempts, due>>
    ELSE due' = [due EXCEPT ![e] = FALSE] /\ UNCHANGED <<status, attempts>>

Reject(w) ==
    LET e == current[w].event
        Rejected == /\ Holds(w, e)
                    /\ Released(e)
                    /\ claimedBy' = [claimedBy EXCEPT ![e] = Nobody]
    IN  /\ pc[w] = "reject"
        /\ \/ Rejected /\ Goto(w, "next") /\ UNCHANGED <<batch, faults>>
           \/ Rejected /\ Abandon(w) /\ Fault
           \/ ~Holds(w, e) /\ Abandon(w) /\ UNCHANGED <<row, faults>>
           \/ Abandon(w) /\ Fault /\ UNCHANGED row
        /\ UNCHANGED <<current, head, stored>>

\* The process dies or its operation is aborted; a loop starts again.
Crash(w) ==
    /\ pc[w] # "idle" /\ Fault
    /\ Abandon(w)
    /\ UNCHANGED <<row, current, head, stored>>

-----------------------------------------------------------------------------
Init ==
    /\ status = [e \in Events |-> "absent"]
    /\ claimedBy = [e \in Events |-> Nobody]
    /\ attempts = [e \in Events |-> 0] /\ due = [e \in Events |-> FALSE]
    /\ pc = [w \in Workers |-> "idle"] /\ batch = [w \in Workers |-> {}]
    /\ current = [w \in Workers |-> NoClaim] /\ head = [w \in Workers |-> 0]
    /\ stored = <<>> /\ faults = 0

Step(w) ==
    \/ Claim(w) \/ Take(w) \/ Finish(w)
    \/ Lookup(w) \/ ReadHead(w) \/ AppendRecord(w) \/ ReadBack(w) \/ Export(w)
    \/ Acknowledge(w) \/ Reject(w)

Next ==
    \/ \E e \in Events : Emit(e) \/ TimePasses(e)
    \/ \E w \in Workers : Step(w) \/ Crash(w)

Spec == Init /\ [][Next]_vars

\* A worker that lives goes on with its batch and claims again; time passes.
Fairness ==
    /\ \A w \in Workers : WF_vars(Step(w))
    /\ \A e \in Events : WF_vars(TimePasses(e))

FairSpec == Spec /\ Fairness

-----------------------------------------------------------------------------
(* Properties                                                              *)

\* The type invariant: the rows of the outbox, the workers and the sink.
TypeOK ==
    /\ status \in [Events -> {"absent", "pending", "published", "dead"}]
    /\ claimedBy \in [Events -> Workers \cup {Nobody}]
    /\ attempts \in [Events -> 0..MaxAttempts] /\ due \in [Events -> BOOLEAN]
    /\ pc \in [Workers -> {"idle", "next", "lookup", "head", "append", "readback",
                           "export", "acknowledge", "reject"}]
    /\ batch \in [Workers -> SUBSET Claims]
    /\ current \in [Workers -> Claims \cup {NoClaim}]
    /\ head \in [Workers -> Nat] /\ stored \in Seq(Events \ Invalid)
    /\ faults \in 0..MaxFaults

\* An event that is published is in the sink: no conflict, lost answer or replay
\* makes the dispatcher acknowledge what the sink does not have.
PublishedIsStored == \A e \in Events : status[e] = "published" => e \in Range(stored)

\* The archive has one record per event, however often and by however many
\* workers it was delivered (observability-worm-dispatcher.test.mjs:168).
StoredOnce == Archive => IsInjective(stored)

\* An answer counts for the attempt it belongs to: a worker whose claim ran out
\* neither settles nor releases an event that was claimed again since.
Delivering(w) == pc[w] \in {"acknowledge", "reject"}
AnswersItsAttempt ==
    [][\A e \in Events :
          status[e] = "pending" /\ claimedBy'[e] = Nobody /\ claimedBy[e] # Nobody =>
             \E w \in Workers : /\ Delivering(w)
                                /\ current[w] = [event |-> e, attempt |-> attempts[e]]]_vars

\* An event is delivered until it is settled or has used up its attempts: no claim
\* of a dead worker keeps it back (claimed_until, postgres-outbox.mjs:195).
NothingIsForgotten ==
    \A e \in Events : status[e] = "pending" ~> status[e] # "pending" \/ attempts[e] = MaxAttempts

\* The outbox is ready as long as no event is dead.
Ready == \A e \in Events : status[e] # "dead"

\* A worker is still to answer for the last claim of the event.
InHand(e) ==
    \E w \in Workers : LET claim == [event |-> e, attempt |-> attempts[e]]
                       IN  claim \in batch[w] \/ (current[w] = claim /\ pc[w] \notin {"idle", "next"})

\* At maxAttempts an event is a dead letter and readiness fails
\* (docs/04-implementation/observability-and-supply-chain.md:183): an event that
\* is not claimed again and that no worker answers for is seen.
ExhaustedIsSeen ==
    \A e \in Events :
        status[e] = "pending" /\ attempts[e] = MaxAttempts /\ due[e] /\ ~InHand(e) => ~Ready

=============================================================================

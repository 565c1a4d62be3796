----------------------------- MODULE BridgeQueue ------------------------------
(***************************************************************************)
(* The bridge worker (BridgeRuntime) and its durable queue: a process      *)
(* polls the records of a provider, puts them into a queue that lives in   *)
(* one file, and publishes them one at a time to the connector.            *)
(*                                                                         *)
(* Every access to the file is a transaction under a lock file; a process  *)
(* that meets the lock fails.  Calls and saves may fail with or without    *)
(* effect, a lease may run out while its holder publishes, the approvals   *)
(* and the source may change at any time, even between two pages of a      *)
(* poll, a process may die anywhere.                                       *)
(***************************************************************************)
EXTENDS Naturals

CONSTANTS
    Items,        \* record versions, each with its idempotency key
    Versions,     \* states of the source: 1..Versions
    Offered,      \* Offered[v]: the items of the source in state v
    FirstPage,    \* the items on the first page of an answer
    Workers,      \* processes on the same file
    Nobody,       \* no process, or one that is gone
    Gone,         \* a lock file that nobody will remove
    MaxAttempts,  \* refused deliveries after which an item is a dead letter
    MaxFaults     \* bound: failed calls and saves, crashes

ASSUME WorkersAssumption  == Nobody \notin Workers /\ Gone \notin Workers /\ Gone # Nobody
ASSUME VersionsAssumption == Versions \in Nat \ {0} /\ Offered \in [1..Versions -> SUBSET Items]
ASSUME PagesAssumption    == FirstPage \subseteq Items /\ Nobody \notin Items
ASSUME AttemptsAssumption == MaxAttempts \in Nat \ {0}
ASSUME FaultsAssumption   == MaxFaults \in Nat

VARIABLES
    status,      \* of an item: "absent", "ready", "leased", "completed" or "dead"
    owner,       \* leaseOwner of a leased item
    attempts,    \* refused deliveries of an item
    due,         \* its lease has expired, or its delay is over
    checkpoint,  \* state of the source whose records are all queued; 0 is none
    lock,        \* the process that holds the lock file
    pc,          \* where each process stands
    seen,        \* the state of the source it polled; 0 is not modified
    records,     \* the items of its poll
    accepted,    \* those of them that passed
    item,        \* the item it delivers
    beat,        \* its heartbeat runs and has not failed
    source,      \* state of the source
    approved,    \* items with an approval
    published,   \* items the connector has
    faults

file  == <<status, owner, attempts, due, checkpoint>>
local == <<seen, records, accepted, item, beat>>
world == <<source, approved>>
vars  == <<file, lock, pc, local, world, published, faults>>

NoItem     == Nobody
Goto(w, l) == pc' = [pc EXCEPT ![w] = l]
Fault      == faults < MaxFaults /\ faults' = faults + 1

-----------------------------------------------------------------------------
(* Transactions on the file                                                *)

Transactions == {"read", "store", "claim", "ack", "nack"}

\* An acknowledgement that fails is followed by a refusal; every other error
\* ends the process.
OnError(place) == IF place = "ack" THEN "nack" ELSE "down"

\* The lock file of another process, or of the heartbeat of another process.
Met(w) == lock # Nobody \/ \E o \in Workers \ {w} : beat[o]

\* The file is created, or it is there and the transaction fails, or it is
\* created and cannot be written, and stays.
Lock(w) ==
    /\ pc[w] \in Transactions /\ lock # w
    /\ \/ lock = Nobody /\ lock' = w /\ UNCHANGED <<pc, faults>>
       \/ Met(w) /\ Goto(w, OnError(pc[w])) /\ UNCHANGED <<lock, faults>>
       \/ lock = Nobody /\ lock' = Gone /\ Goto(w, OnError(pc[w])) /\ Fault
    /\ UNCHANGED <<file, local, world, published>>

\* withRuntimeLock: the change is saved, the lock file removed, and the process goes
\* on with what it got; or the save or the removal fails, with the new file in place
\* or not.
Commit(w, from, Change, Got, l) ==
    /\ pc[w] = from /\ lock = w
    /\ \/ Change /\ Got /\ Goto(w, l) /\ lock' = Nobody /\ UNCHANGED faults
       \/ /\ Change \/ UNCHANGED file
          /\ Goto(w, OnError(from)) /\ lock' \in {Nobody, Gone} /\ Fault /\ UNCHANGED local
    /\ UNCHANGED <<world, published>>

\* The transaction fails on a condition, and nothing is saved.
Refuse(w, from) ==
    /\ pc[w] = from /\ lock = w /\ lock' = Nobody
    /\ Goto(w, OnError(from))
    /\ UNCHANGED <<file, local, world, published, faults>>

-----------------------------------------------------------------------------
(* Poll                                                                    *)

ReadCheckpoint(w) ==
    Commit(w, "read",
           UNCHANGED file,
           /\ seen' = [seen EXCEPT ![w] = checkpoint]
           /\ item' = [item EXCEPT ![w] = NoItem]
           /\ UNCHANGED <<records, accepted, beat>>,
           "fetch")

\* A step outside the file.
Outside(w, from) == pc[w] = from /\ UNCHANGED <<file, lock, item, beat, world, published>>

\* The source answers that nothing was modified since the checkpoint, or with its
\* first page and the validator of its state.
Fetch(w) ==
    /\ Outside(w, "fetch") /\ UNCHANGED accepted
    /\ \/ /\ source = seen[w]
          /\ seen' = [seen EXCEPT ![w] = 0]
          /\ Goto(w, "assess") /\ UNCHANGED <<records, faults>>
       \/ /\ source # seen[w]
          /\ seen' = [seen EXCEPT ![w] = source]
          /\ records' = [records EXCEPT ![w] = Offered[source] \cap FirstPage]
          /\ Goto(w, "rest") /\ UNCHANGED faults
       \/ Goto(w, "down") /\ Fault /\ UNCHANGED <<seen, records>>

\* The other pages, of the state the source is in by now.
FetchRest(w) ==
    /\ Outside(w, "rest") /\ UNCHANGED <<seen, accepted>>
    /\ \/ /\ records' = [records EXCEPT ![w] = @ \cup (Offered[source] \ FirstPage)]
          /\ Goto(w, "assess") /\ UNCHANGED faults
       \/ Goto(w, "down") /\ Fault /\ UNCHANGED records

\* Records without an approval are rejected; the registry may not be readable.
Assess(w) ==
    /\ Outside(w, "assess") /\ UNCHANGED <<seen, records>>
    /\ \/ /\ accepted' = [accepted EXCEPT ![w] = records[w] \cap approved]
          /\ Goto(w, "store") /\ UNCHANGED faults
       \/ Goto(w, "down") /\ Fault /\ UNCHANGED accepted

\* Mutant: only the items that are still in the queue are known.
Enqueued_Settled(w) == {i \in accepted[w] : status[i] \notin {"ready", "leased"}}

Enqueued(w) == {i \in accepted[w] : status[i] = "absent"}

\* Mutant: the checkpoint moves on past rejected records.
Advances_Always(w) == seen[w] # 0

Advances(w) == seen[w] # 0 /\ accepted[w] = records[w]

Store(w) ==
    Commit(w, "store",
           /\ status' = [i \in Items |-> IF i \in Enqueued(w) THEN "ready" ELSE status[i]]
           /\ due' = [i \in Items |-> i \in Enqueued(w) \/ due[i]]
           /\ checkpoint' = IF Advances(w) THEN seen[w] ELSE checkpoint
           /\ UNCHANGED <<owner, attempts>>,
           /\ seen' = [seen EXCEPT ![w] = 0]
           /\ records' = [records EXCEPT ![w] = {}] /\ accepted' = [accepted EXCEPT ![w] = {}]
           /\ UNCHANGED <<item, beat>>,
           "claim")

-----------------------------------------------------------------------------
(* Dispatch                                                                *)

\* Mutant: leases that have expired are not recovered.
Expired_Never == {}

Expired == {i \in Items : status[i] = "leased" /\ due[i]}

\* Expired leases are ready again, and one item that is due is leased.
Claim(w) ==
    LET ready == {i \in Items : status[i] = "ready" /\ due[i]} \cup Expired
    IN  \/ /\ ready = {}
           /\ Commit(w, "claim", UNCHANGED file, UNCHANGED local, "read")
        \/ \E i \in ready :
              Commit(w, "claim",
                     /\ status' = [j \in Items |-> IF j = i THEN "leased"
                                                   ELSE IF j \in Expired THEN "ready" ELSE status[j]]
                     /\ owner' = [j \in Items |-> IF j = i THEN w
                                                  ELSE IF j \in Expired THEN Nobody ELSE owner[j]]
                     /\ due' = [due EXCEPT ![i] = FALSE]
                     /\ UNCHANGED <<attempts, checkpoint>>,
                     /\ item' = [item EXCEPT ![w] = i] /\ beat' = [beat EXCEPT ![w] = TRUE]
                     /\ UNCHANGED <<seen, records, accepted>>,
                     "check")

Holds(w) == status[item[w]] = "leased" /\ owner[item[w]] = w

\* The approval is looked up again before the item is published.
Check(w) ==
    /\ pc[w] = "check"
    /\ \/ /\ item[w] \in approved /\ beat[w]
          /\ Goto(w, "publish") /\ UNCHANGED <<beat, faults>>
       \/ /\ \/ ~(item[w] \in approved /\ beat[w]) /\ UNCHANGED faults
             \/ Fault
          /\ Goto(w, "nack") /\ beat' = [beat EXCEPT ![w] = FALSE]
    /\ UNCHANGED <<file, lock, seen, records, accepted, item, world, published>>

\* The heartbeat renews the lease, in a transaction of its own; without the lock
\* or the lease, or when its save fails, it fails.
Heartbeat(w) ==
    /\ beat[w]
    /\ \/ /\ lock = Nobody /\ Holds(w)
          /\ due' = [due EXCEPT ![item[w]] = FALSE] /\ UNCHANGED <<beat, lock, faults>>
       \/ /\ Met(w) \/ ~Holds(w)
          /\ beat' = [beat EXCEPT ![w] = FALSE] /\ UNCHANGED <<due, lock, faults>>
       \/ /\ lock = Nobody /\ lock' \in {Nobody, Gone} /\ Fault
          /\ beat' = [beat EXCEPT ![w] = FALSE] /\ UNCHANGED due
    /\ UNCHANGED <<status, owner, attempts, checkpoint, pc, seen, records, accepted, item, world,
                   published>>

\* Mutant: an error of the connector is not seen.
Publish_ErrorIsAnswered(w) ==
    /\ pc[w] = "publish" /\ Goto(w, "ack")
    /\ \/ published' = published \cup {item[w]} /\ UNCHANGED faults
       \/ Fault /\ UNCHANGED published
    /\ beat' = [beat EXCEPT ![w] = FALSE]
    /\ UNCHANGED <<file, lock, seen, records, accepted, item, world>>

\* The connector takes the item under its idempotency key; the call may fail with
\* or without effect.  A failed heartbeat aborts it, or refuses its answer.
Publish(w) ==
    /\ pc[w] = "publish"
    /\ \/ /\ published' = published \cup {item[w]}
          /\ \/ Goto(w, IF beat[w] THEN "ack" ELSE "nack") /\ UNCHANGED faults
             \/ Goto(w, "nack") /\ Fault
       \/ Goto(w, "nack") /\ Fault /\ UNCHANGED published
       \/ ~beat[w] /\ Goto(w, "nack") /\ UNCHANGED <<published, faults>>
    /\ beat' = [beat EXCEPT ![w] = FALSE]
    /\ UNCHANGED <<file, lock, seen, records, accepted, item, world>>

Ack(w) ==
    /\ pc[w] = "ack"
    /\ \/ /\ Holds(w)
          /\ Commit(w, "ack",
                    /\ status' = [status EXCEPT ![item[w]] = "completed"]
                    /\ owner' = [owner EXCEPT ![item[w]] = Nobody]
                    /\ due' = [due EXCEPT ![item[w]] = FALSE]
                    /\ UNCHANGED <<attempts, checkpoint>>,
                    UNCHANGED local,
                    "read")
       \/ ~Holds(w) /\ Refuse(w, "ack")

GivenUp(i) == attempts[i] + 1 >= MaxAttempts

Nack(w) ==
    /\ pc[w] = "nack"
    /\ \/ /\ Holds(w)
          /\ Commit(w, "nack",
                    /\ attempts' = [attempts EXCEPT ![item[w]] = @ + 1]
                    /\ status' = [status EXCEPT ![item[w]] = IF GivenUp(item[w]) THEN "dead" ELSE "ready"]
                    /\ owner' = [owner EXCEPT ![item[w]] = Nobody]
                    /\ due' = [due EXCEPT ![item[w]] = FALSE]
                    /\ UNCHANGED checkpoint,
                    UNCHANGED local,
                    "read")
       \/ ~Holds(w) /\ Refuse(w, "nack")

-----------------------------------------------------------------------------
(* Processes                                                               *)

Forget(w) ==
    /\ seen' = [seen EXCEPT ![w] = 0]
    /\ records' = [records EXCEPT ![w] = {}] /\ accepted' = [accepted EXCEPT ![w] = {}]
    /\ item' = [item EXCEPT ![w] = NoItem] /\ beat' = [beat EXCEPT ![w] = FALSE]

\* A process dies; its lock file, or that of its heartbeat, stays.
Crash(w) ==
    /\ pc[w] # "down" /\ Goto(w, "down") /\ Fault /\ Forget(w)
    /\ \/ lock = w /\ lock' = Gone
       \/ lock # w /\ UNCHANGED lock
       \/ lock = Nobody /\ beat[w] /\ lock' = Gone
    /\ UNCHANGED <<file, world, published>>

\* A new process has a name of its own: it holds no lease of the last one.
Start(w) ==
    /\ pc[w] = "down" /\ Goto(w, "read") /\ Forget(w)
    /\ owner' = [i \in Items |-> IF owner[i] = w THEN Nobody ELSE owner[i]]
    /\ UNCHANGED <<status, attempts, due, checkpoint, lock, world, published, faults>>

-----------------------------------------------------------------------------
(* Around them                                                             *)

OperatorClears ==
    /\ lock = Gone /\ lock' = Nobody
    /\ UNCHANGED <<file, pc, local, world, published, faults>>

\* A lease runs out, or the delay before a retry is over.
TimePasses(i) ==
    /\ status[i] \in {"ready", "leased"} /\ ~due[i]
    /\ due' = [due EXCEPT ![i] = TRUE]
    /\ UNCHANGED <<status, owner, attempts, checkpoint, lock, pc, local, world, published, faults>>

SourceChanges ==
    /\ source < Versions /\ source' = source + 1
    /\ UNCHANGED <<file, lock, pc, local, approved, published, faults>>

\* The approval of an item is given, withdrawn or over.
ApprovalChanges(i) ==
    /\ approved' = IF i \in approved THEN approved \ {i} ELSE approved \cup {i}
    /\ UNCHANGED <<file, lock, pc, local, source, published, faults>>

-----------------------------------------------------------------------------

Init ==
    /\ status = [i \in Items |-> "absent"] /\ owner = [i \in Items |-> Nobody]
    /\ attempts = [i \in Items |-> 0] /\ due = [i \in Items |-> FALSE]
    /\ checkpoint = 0 /\ lock = Nobody
    /\ pc = [w \in Workers |-> "read"] /\ seen = [w \in Workers |-> 0]
    /\ records = [w \in Workers |-> {}] /\ accepted = [w \in Workers |-> {}]
    /\ item = [w \in Workers |-> NoItem] /\ beat = [w \in Workers |-> FALSE]
    /\ source = 1 /\ approved \in SUBSET Items
    /\ published = {} /\ faults = 0

\* What a process does by itself.
Step(w) ==
    \/ Lock(w) \/ ReadCheckpoint(w) \/ Fetch(w) \/ FetchRest(w) \/ Assess(w) \/ Store(w)
    \/ Claim(w) \/ Check(w) \/ Publish(w) \/ Ack(w) \/ Nack(w) \/ Start(w)

Next ==
    \/ \E w \in Workers : Step(w) \/ Heartbeat(w) \/ Crash(w)
    \/ \E i \in Items : TimePasses(i) \/ ApprovalChanges(i)
    \/ OperatorClears \/ SourceChanges

Spec == Init /\ [][Next]_vars

\* The loop of main takes its steps, a supervisor starts it again, time passes,
\* and an operator looks after the lock file: no process takes it back.
Fairness ==
    /\ \A w \in Workers : WF_vars(Step(w))
    /\ \A i \in Items : WF_vars(TimePasses(i))
    /\ WF_vars(OperatorClears)

FairSpec == Spec /\ Fairness

-----------------------------------------------------------------------------
(* Properties                                                              *)

Statuses == {"absent", "ready", "leased", "completed", "dead"}
Places   == Transactions \cup {"fetch", "rest", "assess", "check", "publish", "down"}

FileTypes ==
    /\ status \in [Items -> Statuses] /\ owner \in [Items -> Workers \cup {Nobody}]
    /\ attempts \in [Items -> 0..MaxAttempts] /\ due \in [Items -> BOOLEAN]
    /\ checkpoint \in 0..Versions

ProcessTypes ==
    /\ pc \in [Workers -> Places] /\ seen \in [Workers -> 0..Versions]
    /\ records \in [Workers -> SUBSET Items] /\ accepted \in [Workers -> SUBSET Items]
    /\ item \in [Workers -> Items \cup {NoItem}] /\ beat \in [Workers -> BOOLEAN]

WorldTypes ==
    /\ lock \in Workers \cup {Nobody, Gone}
    /\ source \in 1..Versions /\ approved \in SUBSET Items
    /\ published \in SUBSET Items /\ faults \in 0..MaxFaults

\* Types of the variables; no item is refused more often than MaxAttempts.
TypeOK == FileTypes /\ ProcessTypes /\ WorldTypes

\* An answer "not modified" hides nothing: when the checkpoint is the state of the
\* source, all of its records are in the queue or settled, though records are
\* rejected, the source changes between pages, and polls overlap.
NothingIsHidden ==
    checkpoint = source => \A i \in Offered[source] : status[i] # "absent"

\* What the queue calls completed is at the connector, also when a call failed, a
\* lease ran out or another process took the item over.
CompletedIsPublished ==
    \A i \in Items : status[i] = "completed" => i \in published

\* A settled item is final: no later poll and no late answer queues it again.
SettledIsFinal ==
    [][\A i \in Items : status[i] \in {"completed", "dead"} => status'[i] = status[i]]_vars

\* What is queued is settled in the end: completed, or a dead letter.
EveryItemSettles ==
    \A i \in Items : status[i] \in {"ready", "leased"} ~> status[i] \in {"completed", "dead"}

\* When all records of the source stay approved, the checkpoint catches up and the
\* polls become cheap.
CheckpointCatchesUp ==
    <>[](Offered[source] \subseteq approved) => <>[](checkpoint = source)
=============================================================================

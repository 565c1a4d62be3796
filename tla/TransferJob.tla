----------------------------- MODULE TransferJob -----------------------------
(***************************************************************************)
(* One transfer of the provider transfer worker (transfer-runtime): the    *)
(* record of its journal, the per-transfer operation lock, the processes   *)
(* that handle START and TERMINATE events, the connector that owns the     *)
(* transfer and the platform that grants access to the source.             *)
(*                                                                         *)
(* Events come in any order and any number of times.  Every call to the    *)
(* connector or the platform may fail before or after it took effect, and  *)
(* with LateRequests a request that timed out may still take effect later. *)
(* A process may die at any point; its lock file stays until an operator   *)
(* removes it.                                                             *)
(***************************************************************************)
EXTENDS Naturals

CONSTANTS
    Workers,        \* processes that handle an event of this transfer
    NoWorker,       \* the operation lock is free
    LateRequests,   \* a request may take effect after its caller gave up
    MaxFaults       \* bound: failed calls, failed saves and crashes

ASSUME WorkersAssumption == NoWorker \notin Workers
ASSUME LateAssumption    == LateRequests \in BOOLEAN
ASSUME BoundAssumption   == MaxFaults \in Nat

VARIABLES
    phase,      \* phase of the journal record; "none" without a record
    lock,       \* the worker that holds the operation lock
    pc,         \* where each worker stands
    status,     \* the connector state it read
    record,     \* the phase it last read from the journal
    connector,  \* the connector's authoritative state
    access,     \* access to the source at the platform, with its past
    late,       \* requests that may still take effect
    faults

worker == <<pc, status, record>>
vars   == <<phase, lock, worker, connector, access, late, faults>>

ConnectorStates == {"START_AUTHORIZED", "STARTED", "TERMINATION_AUTHORIZED", "TERMINATED"}
Phases   == {"none", "authorized", "provisioned", "active", "terminating", "revoked", "terminated"}
Started  == {"authorized", "provisioned", "active"}
\* "absent" is no access with a revocation answered, "revived" is access granted
\* by a request that came late after that; to the platform they are "never" and
\* "granted".
AccessStates == {"never", "granted", "revoked", "absent", "revived"}
Requests == {"provision", "startAck", "revoke", "terminationAck"}

-----------------------------------------------------------------------------
(* Steps of a worker                                                       *)

Goto(w, l) == pc' = [pc EXCEPT ![w] = l]

\* The event is done or failed with an error: the lock file is removed.
Leave(w) == Goto(w, "idle") /\ lock' = NoWorker

Fault == faults < MaxFaults /\ faults' = faults + 1

\* Mutant: events of one transfer are not serialized.
Begin_Unlocked(w, action) ==
    /\ pc[w] = "idle"
    /\ lock' = w /\ Goto(w, action)
    /\ UNCHANGED <<phase, status, record, connector, access, late, faults>>

\* withProviderOperationLock: the lock file is created, or the event fails.
Begin(w, action) ==
    /\ pc[w] = "idle" /\ lock = NoWorker
    /\ lock' = w /\ Goto(w, action)
    /\ UNCHANGED <<phase, status, record, connector, access, late, faults>>

Allowed(action) ==
    IF action = "START" THEN {"START_AUTHORIZED", "STARTED"}
                        ELSE {"TERMINATION_AUTHORIZED", "TERMINATED"}

\* The authoritative status and the journal record are read.
ReadStatus(w) ==
    /\ pc[w] \in {"START", "TERMINATE"}
    /\ status' = [status EXCEPT ![w] = connector]
    /\ record' = [record EXCEPT ![w] = phase]
    /\ \/ connector \in Allowed(pc[w])
          /\ Goto(w, IF pc[w] = "START" THEN "start" ELSE "terminate") /\ UNCHANGED lock
       \/ connector \notin Allowed(pc[w]) /\ Leave(w)
    /\ UNCHANGED <<phase, connector, access, late, faults>>

\* A step that decides what to do next, from what was read.
Decide(w, from, l) ==
    /\ pc[w] = from
    /\ IF l = "idle" THEN Leave(w) ELSE Goto(w, l) /\ UNCHANGED lock
    /\ UNCHANGED <<phase, status, record, connector, access, late, faults>>

\* withTransferJournal and the reload after it.  The save may fail with the new
\* file in place or not; then the event fails.
Journal(w, from, newPhase, l) ==
    /\ pc[w] = from
    /\ \/ /\ phase' = newPhase
          /\ record' = [record EXCEPT ![w] = newPhase]
          /\ IF l = "idle" THEN Leave(w) ELSE Goto(w, l) /\ UNCHANGED lock
          /\ UNCHANGED faults
       \/ /\ Fault /\ phase' \in {phase, newPhase}
          /\ Leave(w) /\ UNCHANGED record
    /\ UNCHANGED <<status, connector, access, late>>

\* The phase moves on only from the expected ones.
Moved(from, to) == IF phase \in from THEN to ELSE phase

-----------------------------------------------------------------------------
(* The platform and the connector                                          *)

\* A key is provisioned once; a replay returns the first result.  A revocation of
\* what was never granted is answered with ABSENT.
Granted == IF access \in {"never", "absent"} THEN "granted" ELSE access
Revoked == CASE access \in {"granted", "revived"} -> "revoked"
             [] access = "never" -> "absent"
             [] OTHER -> access

\* An acknowledgement moves the connector on from the state it belongs to.
AfterStartAck == IF connector = "START_AUTHORIZED" THEN "STARTED" ELSE connector
AfterTerminationAck ==
    IF connector = "TERMINATION_AUTHORIZED" THEN "TERMINATED" ELSE connector

Effect(request) ==
    /\ connector' = CASE request = "startAck"       -> AfterStartAck
                      [] request = "terminationAck" -> AfterTerminationAck
                      [] OTHER                      -> connector
    /\ access' = CASE request = "provision" -> Granted
                   [] request = "revoke"    -> Revoked
                   [] OTHER                 -> access

\* The connector is in a state the acknowledgement fits; otherwise it answers 409.
Fits(request) ==
    CASE request = "startAck"       -> connector \in Allowed("START")
      [] request = "terminationAck" -> connector \in Allowed("TERMINATE")
      [] OTHER                      -> TRUE

\* An attempt that timed out and whose effect is still to come.
StillPending(request) == LateRequests /\ late' = late \cup {request}

\* A call with its attempts: it succeeds; the connector answers 409, or repeats
\* an earlier success; it fails after or before it took effect; an acknowledgement
\* is answered with success and did not take effect.
Call(w, from, request, l) ==
    /\ pc[w] = from
    /\ \/ /\ Fits(request) /\ Effect(request) /\ Goto(w, l) /\ UNCHANGED lock
          /\ \/ UNCHANGED <<late, faults>>
             \/ Fault /\ StillPending(request)
       \/ /\ ~Fits(request)
          /\ \/ Leave(w)
             \/ Goto(w, l) /\ UNCHANGED lock
          /\ UNCHANGED <<connector, access, late, faults>>
       \/ /\ Fault /\ Leave(w)
          /\ \/ Effect(request) /\ UNCHANGED late
             \/ UNCHANGED <<connector, access, late>>
             \/ StillPending(request) /\ UNCHANGED <<connector, access>>
       \/ /\ request \in {"startAck", "terminationAck"}
          /\ Fault /\ Goto(w, l) /\ UNCHANGED <<lock, connector, access, late>>
    /\ UNCHANGED <<phase, status, record>>

-----------------------------------------------------------------------------
(* START                                                                   *)

\* Mutant: a start whose record exists is taken for one in progress.
StartDecision_InProgress(w) ==
    IF record[w] = "none" /\ status[w] = "START_AUTHORIZED" THEN "authorize" ELSE "idle"

\* An existing record decides whether the start goes on.
StartDecision(w) ==
    CASE record[w] = "none" ->
           IF status[w] = "START_AUTHORIZED" THEN "authorize" ELSE "idle"
      [] record[w] = "active" /\ status[w] = "STARTED" -> "idle"
      [] record[w] = "authorized" ->
           IF status[w] = "START_AUTHORIZED" THEN "provision" ELSE "idle"
      [] record[w] \in {"provisioned", "active"} -> "provision"
      [] OTHER -> "idle"

StartChecks(w) == Decide(w, "start", StartDecision(w))
Authorize(w)   == Journal(w, "authorize", "authorized", "provision")
Provision(w)   == Call(w, "provision", "provision", "writeProvisioned")

\* Mutant: the connector is told before the journal has the evidence.
WriteProvisioned_Skipped(w) ==
    /\ pc[w] = "writeProvisioned" /\ Goto(w, "startAck")
    /\ UNCHANGED <<phase, lock, status, record, connector, access, late, faults>>

WriteProvisioned(w) ==
    Journal(w, "writeProvisioned", Moved({"authorized"}, "provisioned"), "checkProvisioned")

CheckProvisioned(w) ==
    Decide(w, "checkProvisioned",
           IF record[w] \in {"provisioned", "active"} THEN "startAck" ELSE "idle")

AcknowledgeStart(w) == Call(w, "startAck", "startAck", "writeActive")
WriteActive(w)      == Journal(w, "writeActive", Moved({"provisioned"}, "active"), "idle")

-----------------------------------------------------------------------------
(* TERMINATE                                                               *)

\* Mutant: a revoked record is not completed from the connector's TERMINATED.
TerminateDecision_NoRecovery(w) ==
    CASE record[w] = "terminated" ->
           IF status[w] = "TERMINATED" THEN "idle" ELSE "repeatAck"
      [] OTHER -> IF status[w] = "TERMINATION_AUTHORIZED" THEN "writeTerminating" ELSE "idle"

TerminateDecision(w) ==
    CASE record[w] = "terminated" ->
           IF status[w] = "TERMINATED" THEN "idle" ELSE "repeatAck"
      [] record[w] = "revoked" /\ status[w] = "TERMINATED" -> "writeTerminated"
      [] OTHER -> IF status[w] = "TERMINATION_AUTHORIZED" THEN "writeTerminating" ELSE "idle"

TerminateChecks(w) == Decide(w, "terminate", TerminateDecision(w))

\* The journal is terminated and the connector is not: it is told again, and its
\* status is read again before the event is answered.
RepeatAck(w)  == Call(w, "repeatAck", "terminationAck", "confirm")
ConfirmAck(w) == Decide(w, "confirm", "idle")

\* Mutant: the connector is told before the access is revoked.
WriteTerminating_AckFirst(w) ==
    Journal(w, "writeTerminating", Moved(Started \cup {"none"}, "terminating"), "terminationAck")

WriteTerminating(w) ==
    Journal(w, "writeTerminating", Moved(Started \cup {"none"}, "terminating"), "terminating")

RevokeOrSkip(w) ==
    Decide(w, "terminating", IF record[w] = "terminating" THEN "revoke" ELSE "terminationAck")

RevokeAccess(w) == Call(w, "revoke", "revoke", "writeRevoked")

WriteRevoked(w) ==
    Journal(w, "writeRevoked", Moved({"terminating"}, "revoked"), "terminationAck")

AcknowledgeTermination(w) == Call(w, "terminationAck", "terminationAck", "writeTerminated")

WriteTerminated(w) ==
    Journal(w, "writeTerminated", Moved({"revoked"}, "terminated"), "idle")

-----------------------------------------------------------------------------
(* Crashes, the connector on its own, requests that come late              *)

RequestAt(place) == IF place = "repeatAck" THEN "terminationAck" ELSE place

\* The process dies, perhaps with a request on its way: the lock file stays.
Crash(w) ==
    /\ pc[w] \notin {"idle", "dead"} /\ Fault
    /\ Goto(w, "dead")
    /\ \/ UNCHANGED late
       \/ RequestAt(pc[w]) \in Requests /\ StillPending(RequestAt(pc[w]))
    /\ UNCHANGED <<phase, lock, status, record, connector, access>>

\* The operator has seen that the process is gone and removes its lock file.
OperatorClears(w) ==
    /\ pc[w] = "dead" /\ Leave(w)
    /\ UNCHANGED <<phase, status, record, connector, access, late, faults>>

\* A request takes effect after its caller gave up.
LateEffect(request) ==
    /\ request \in late
    /\ IF request = "provision" /\ access = "absent"
       THEN access' = "revived" /\ UNCHANGED connector
       ELSE Effect(request)
    /\ late' = late \ {request}
    /\ UNCHANGED <<phase, lock, worker, faults>>

\* The connector authorizes the end of the transfer.
ConnectorEnds ==
    /\ connector \in {"START_AUTHORIZED", "STARTED"}
    /\ connector' = "TERMINATION_AUTHORIZED"
    /\ UNCHANGED <<phase, lock, worker, access, late, faults>>

-----------------------------------------------------------------------------
Init ==
    /\ phase = "none" /\ lock = NoWorker
    /\ pc = [w \in Workers |-> "idle"]
    /\ status = [w \in Workers |-> "START_AUTHORIZED"]
    /\ record = [w \in Workers |-> "none"]
    /\ connector = "START_AUTHORIZED" /\ access = "never"
    /\ late = {} /\ faults = 0

Step(w) ==
    \/ ReadStatus(w)
    \/ StartChecks(w) \/ Authorize(w) \/ Provision(w) \/ WriteProvisioned(w)
    \/ CheckProvisioned(w) \/ AcknowledgeStart(w) \/ WriteActive(w)
    \/ TerminateChecks(w) \/ RepeatAck(w) \/ ConfirmAck(w) \/ WriteTerminating(w)
    \/ RevokeOrSkip(w) \/ RevokeAccess(w) \/ WriteRevoked(w)
    \/ AcknowledgeTermination(w) \/ WriteTerminated(w)

Next ==
    \/ \E w \in Workers :
          \/ \E action \in {"START", "TERMINATE"} : Begin(w, action)
          \/ Step(w) \/ Crash(w) \/ OperatorClears(w)
    \/ \E request \in Requests : LateEffect(request)
    \/ ConnectorEnds

Spec == Init /\ [][Next]_vars

\* The inbox delivers each event again and again, a process that lives goes on,
\* and the operator removes the lock of a dead one.
Fairness ==
    /\ \A w \in Workers : WF_vars(Step(w)) /\ WF_vars(OperatorClears(w))
    /\ \A action \in {"START", "TERMINATE"} : SF_vars(\E w \in Workers : Begin(w, action))

FairSpec == Spec /\ Fairness

-----------------------------------------------------------------------------
(* Properties                                                              *)

Places ==
    {"idle", "dead", "START", "start", "authorize", "provision", "writeProvisioned",
     "checkProvisioned", "startAck", "writeActive", "TERMINATE", "terminate", "repeatAck",
     "confirm", "writeTerminating", "terminating", "revoke", "writeRevoked",
     "terminationAck", "writeTerminated"}

\* The type invariant: the journal, the workers, the connector and the platform.
TypeOK ==
    /\ phase \in Phases /\ lock \in Workers \cup {NoWorker}
    /\ pc \in [Workers -> Places] /\ status \in [Workers -> ConnectorStates]
    /\ record \in [Workers -> Phases]
    /\ connector \in ConnectorStates /\ access \in AccessStates
    /\ late \subseteq Requests /\ faults \in 0..MaxFaults

\* A transfer the connector reports as started is backed by evidence in the
\* journal: a crash at any point, a lost save or a late acknowledgement never
\* leaves a START event that can neither be replayed nor recovered
\* (TRANSFER_RECONCILIATION_REQUIRED needs an operator).
StartedHasEvidence ==
    connector = "STARTED" => phase \notin {"none", "authorized"} /\ access \notin {"never", "absent"}

\* No access outlives a transfer that the connector reports as terminated: START
\* and TERMINATE of one transfer do not cross so that access comes back
\* (docs/04-implementation/provider-transfer-worker.md, section 6.3).
NoAccessAfterTermination == connector = "TERMINATED" => access \notin {"granted", "revived"}

\* What the code keeps of it: when the connector reports the transfer as terminated,
\* the platform has answered a revocation, and nothing was granted after that answer
\* but by a request whose caller had given up waiting for it.
TerminatedIsRevoked == connector = "TERMINATED" => access \in {"revoked", "absent", "revived"}

\* What the connector and the platform see is what the worker promises.
Promise == INSTANCE TransferPromise
ImplementsPromise == Promise!Spec

\* A transfer whose end is authorized gets terminated, at the connector and in
\* the journal, whatever crashed or failed on the way.
TerminationCompletes ==
    connector = "TERMINATION_AUTHORIZED" ~> connector = "TERMINATED" /\ phase = "terminated"

\* A transfer whose start is authorized gets started, or its end is authorized.
StartCompletes == connector = "START_AUTHORIZED" ~> connector # "START_AUTHORIZED"

=============================================================================

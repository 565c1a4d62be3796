----------------------------- MODULE UsageMeter -----------------------------
(***************************************************************************)
(* The usage meter of the control planes: every completed management       *)
(* request is recorded by ManagementUsageRecorder                          *)
(* (observability/management-usage.mjs), which retries                     *)
(* UsageMeter.record (observability/usage-meter.mjs): one transaction      *)
(* that inserts the event, adds it to the rollup of its hour and puts it   *)
(* into the outbox.  UsageMeter.reprocess rebuilds the rollups of a range  *)
(* of hours from the events.  Both take an advisory lock on the meter.     *)
(*                                                                         *)
(* There is one meter of one tenant.  Quantities are 1, the dimensions of  *)
(* an event are left out; a statement that fails and a commit whose answer *)
(* is lost look the same to the recorder (OBS_USAGE_RECORD_FAILED).        *)
(***************************************************************************)
EXTENDS Naturals, FiniteSets

CONSTANTS
    Requests,     \* completed management requests
    Rebuilds,     \* calls of reprocess
    OperationOf,  \* the operation each of them names
    RangeOf,      \* the hours each of them asks for
    Hours,
    MaxAttempts,  \* attempts of the recorder
    Free          \* nobody holds the lock

Callers == Requests \cup Rebuilds
Operations == {OperationOf[b] : b \in Rebuilds}

VARIABLES
    entries,    \* usage_meter_event: the identity and the hour of each event
    rollup,     \* usage_meter_rollup: the quantity of each hour
    outboxed,   \* outbox_event: the events and the operations announced
    rebuilt,    \* usage_meter_reprocess: the range each operation rebuilt
    meterLock,  \* the transaction that holds the advisory lock
    step,       \* where each caller is
    hour,       \* when the request of a caller completed
    attempt,    \* which attempt its recorder makes
    tally,      \* the rollups a rebuild is about to write
    recorder    \* the recorder takes requests, drains, or is closed

vars == <<entries, rollup, outboxed, rebuilt, meterLock, step, hour, attempt, tally, recorder>>
tables == <<entries, rollup, outboxed, rebuilt>>

-----------------------------------------------------------------------------
Init ==
    /\ entries = {} /\ outboxed = {}
    /\ rollup = [h \in Hours |-> 0]
    /\ rebuilt = [o \in Operations |-> {}]
    /\ meterLock = Free
    /\ step = [c \in Callers |-> "idle"]
    /\ hour \in [Requests -> Hours]
    /\ attempt = [r \in Requests |-> 1]
    /\ tally = [b \in Rebuilds |-> [h \in Hours |-> 0]]
    /\ recorder = "open"

Moves(c, place) == step' = [step EXCEPT ![c] = place]

Counted(events) == [h \in Hours |-> Cardinality({e \in events : e.hour = h})]

(* The event is named by its source: every attempt makes the same name.    *)
Identity(r) == [request |-> r, try |-> 0]

-----------------------------------------------------------------------------
(* A transaction                                                           *)

(* The completion fact is made once, before the first attempt.             *)
Complete(r) ==
    /\ step[r] = "idle" /\ recorder = "open"
    /\ Moves(r, "begun")
    /\ UNCHANGED <<tables, meterLock, hour, attempt, tally, recorder>>

Ask(b) ==
    /\ step[b] = "idle" /\ Moves(b, "begun")
    /\ UNCHANGED <<tables, meterLock, hour, attempt, tally, recorder>>

\* Mutant: a transaction does not wait for the lock.
Lock_NotWaiting(c) ==
    /\ step[c] = "begun" /\ meterLock' = c /\ Moves(c, "locked")
    /\ UNCHANGED <<tables, hour, attempt, tally, recorder>>

Lock(c) ==
    /\ step[c] = "begun" /\ meterLock = Free
    /\ meterLock' = c /\ Moves(c, "locked")
    /\ UNCHANGED <<tables, hour, attempt, tally, recorder>>

(* INSERT ... ON CONFLICT DO NOTHING: an event that is there is a replay,  *)
(* for the completion fact, and so its digest, is the same.                *)
InsertEvent(r) ==
    /\ step[r] = "locked"
    /\ Moves(r, IF \E e \in entries : e.id = Identity(r) THEN "replayed" ELSE "inserted")
    /\ UNCHANGED <<tables, meterLock, hour, attempt, tally, recorder>>

(* The rollups of the range are deleted and made again from the events.    *)
(* An operation that was done is answered from its row, or refused when it *)
(* was done over another range.                                            *)
Rebuild(b) ==
    LET before == rebuilt[OperationOf[b]]
    IN  /\ step[b] = "locked"
        /\ Moves(b, IF before = {} THEN "inserted"
                    ELSE IF before = RangeOf[b] THEN "replayed" ELSE "refused")
        /\ meterLock' = IF before \in {{}, RangeOf[b]} THEN meterLock ELSE Free
        /\ tally' = IF before = {} THEN [tally EXCEPT ![b] = Counted(entries)] ELSE tally
        /\ UNCHANGED <<tables, hour, attempt, recorder>>

Written(c) ==
    IF c \in Requests
    THEN /\ entries' = entries \cup {[id |-> Identity(c), hour |-> hour[c]]}
         /\ rollup' = [rollup EXCEPT ![hour[c]] = @ + 1]
         /\ UNCHANGED rebuilt
    ELSE /\ rollup' = [h \in Hours |-> IF h \in RangeOf[c] THEN tally[c][h] ELSE rollup[h]]
         /\ rebuilt' = [rebuilt EXCEPT ![OperationOf[c]] = RangeOf[c]]
         /\ UNCHANGED entries

Announced(c) == IF c \in Requests THEN c ELSE OperationOf[c]

(* The answer to COMMIT may be lost.                                       *)
Commit(c) ==
    /\ step[c] \in {"inserted", "replayed"}
    /\ IF step[c] = "inserted"
       THEN Written(c) /\ outboxed' = outboxed \cup {Announced(c)}
       ELSE UNCHANGED tables
    /\ meterLock' = IF meterLock = c THEN Free ELSE meterLock
    /\ \E place \in {"recorded", "failed"} : Moves(c, place)
    /\ UNCHANGED <<hour, attempt, tally, recorder>>

Rollback(c) ==
    /\ step[c] \in {"begun", "locked", "inserted", "replayed"}
    /\ meterLock' = IF meterLock = c THEN Free ELSE meterLock
    /\ Moves(c, "failed")
    /\ UNCHANGED <<tables, hour, attempt, tally, recorder>>

-----------------------------------------------------------------------------
(* The recorder                                                            *)

(* Only a failure that may pass is retried, until the attempts are used up *)
(* or the signal of the request is aborted.                                *)
Retry(r) ==
    /\ step[r] = "failed"
    /\ IF attempt[r] < MaxAttempts
       THEN \/ Moves(r, "begun") /\ attempt' = [attempt EXCEPT ![r] = @ + 1]
            \/ Moves(r, "lost") /\ UNCHANGED attempt
       ELSE Moves(r, "lost") /\ UNCHANGED attempt
    /\ UNCHANGED <<tables, meterLock, hour, tally, recorder>>

(* The caller of reprocess asks again.                                     *)
AskAgain(b) ==
    /\ step[b] = "failed" /\ Moves(b, "begun")
    /\ UNCHANGED <<tables, meterLock, hour, attempt, tally, recorder>>

(* The committed fact is reported to the telemetry, which may fail.        *)
Report(r) ==
    /\ step[r] = "recorded" /\ Moves(r, "reported")
    /\ UNCHANGED <<tables, meterLock, hour, attempt, tally, recorder>>

InFlight(r) == step[r] \in {"begun", "locked", "inserted", "replayed", "failed", "recorded"}

(* No request is taken any more; the ones in flight are waited for, not    *)
(* longer than the timeout.                                                *)
Close ==
    /\ recorder = "open" /\ recorder' = "draining"
    /\ UNCHANGED <<tables, meterLock, step, hour, attempt, tally>>

Drained ==
    /\ recorder = "draining"
    /\ recorder' = IF \E r \in Requests : InFlight(r) THEN "expired" ELSE "closed"
    /\ UNCHANGED <<tables, meterLock, step, hour, attempt, tally>>

Next ==
    \/ \E r \in Requests : Complete(r) \/ InsertEvent(r) \/ Retry(r) \/ Report(r)
    \/ \E b \in Rebuilds : Ask(b) \/ Rebuild(b) \/ AskAgain(b)
    \/ \E c \in Callers : Lock(c) \/ Commit(c) \/ Rollback(c)
    \/ Close \/ Drained

Spec == Init /\ [][Next]_vars

-----------------------------------------------------------------------------
(* Properties                                                              *)

Ids == [request : Requests, try : 0..MaxAttempts]

(* Every variable keeps its type.                                          *)
TypeOK ==
    /\ entries \subseteq [id : Ids, hour : Hours]
    /\ rollup \in [Hours -> Nat]
    /\ outboxed \subseteq Requests \cup Operations
    /\ rebuilt \in [Operations -> SUBSET Hours]
    /\ meterLock \in Callers \cup {Free}
    /\ step \in [Callers -> {"idle", "begun", "locked", "inserted", "replayed", "refused",
                             "failed", "recorded", "lost", "reported"}]
    /\ attempt \in [Requests -> 1..MaxAttempts]
    /\ recorder \in {"open", "draining", "closed", "expired"}

(* Whatever is recorded, retried or rebuilt at the same time, the rollup   *)
(* of an hour is the sum of its events; a request is counted at most once, *)
(* and exactly once, with its outbox event, when the recorder was told so  *)
(* (usage-meter.mjs record and reprocess).                                 *)
RollupAgrees ==
    /\ rollup = Counted(entries)
    /\ \A r \in Requests :
         LET own == {e \in entries : e.id.request = r}
         IN  /\ Cardinality(own) <= 1
             /\ r \in outboxed <=> own # {}
             /\ step[r] \in {"recorded", "reported"} => own # {}
    /\ \A b \in Rebuilds : step[b] = "recorded" => rebuilt[OperationOf[b]] = RangeOf[b]

=============================================================================

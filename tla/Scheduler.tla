----------------------------- MODULE Scheduler -----------------------------
(***************************************************************************)
(* The reconcile scheduler of DSaaS (dsaas/scheduler.mjs) and the control  *)
(* plane's answers to it (dsaas/service.mjs): a tick reads which           *)
(* dataspaces are due, takes at most MaxPerTick of them from where the     *)
(* last one stopped, reconciles them one after the other and reads the     *)
(* backlog, dataspace by dataspace, beside the calls of the API.  The      *)
(* cursor is a position in a list that is read anew in every tick.  What a *)
(* reconcile does is DsaasReconcile.tla; here it settles the dataspace     *)
(* (blocked counts as settled: it is no failure) or fails.  Of a list of   *)
(* failures only whether it is empty is kept.                              *)
(***************************************************************************)
EXTENDS Naturals, Sequences, FiniteSets, SequencesExt

CONSTANTS
    Dataspaces,   \* their identifiers: numbers, in the order of sort()
    MaxPerTick    \* maxDataspacesPerTick

VARIABLES
    due,       \* the dataspaces whose check is due
    outcome,   \* durable: how the last reconcile of each dataspace ended
    cursor,
    tick,      \* the tick in flight: where it is and what it has left to do
    running,   \* started, and taking ticks
    aborted,   \* the signal of the tick in flight
    failures,  \* lastFailures is not empty
    fatal,     \* lastFatalErrorCode is set
    completed, \* a tick has completed since the start
    lastList,  \* history: the list of the last tick, and how many ticks in a row
    waited,    \* over it have begun since each dataspace was reconciled
    ill        \* history: failing ever since the tick began to read the backlog

vars == <<due, outcome, cursor, tick, running, aborted, failures, fatal, completed,
          lastList, waited, ill>>
history == <<lastList, waited>>

NoTick == [at |-> "none", todo |-> <<>>, failed |-> FALSE, unread |-> {},
           backlog |-> FALSE]

Sorted(ids) ==
    CHOOSE list \in SetToSeqs(ids) : \A i, j \in DOMAIN list : i < j => list[i] < list[j]

Init ==
    /\ due \in SUBSET Dataspaces
    /\ outcome = [d \in Dataspaces |-> "settled"]
    /\ cursor = 0 /\ tick = NoTick
    /\ running = FALSE /\ aborted = FALSE
    /\ failures = FALSE /\ fatal = FALSE /\ completed = FALSE
    /\ lastList = <<>> /\ waited = [d \in Dataspaces |-> 0]
    /\ ill = {}

report == <<failures, fatal, completed>>

-----------------------------------------------------------------------------
(* One tick                                                                *)

(* A tick that finds another one in flight is skipped and changes nothing. *)
Launch ==
    /\ running /\ tick = NoTick
    /\ tick' = [NoTick EXCEPT !.at = "scanning"] /\ aborted' = FALSE
    /\ UNCHANGED <<due, outcome, cursor, running, report, history, ill>>

\* Mutant: the cursor forgets where it started.
NextCursor_Forgets(start, count, size) == count % size

NextCursor(start, count, size) == (start + count) % size

(* The targets from the cursor on, around the end of the list.             *)
Taken(list, start, count) ==
    [i \in 1..count |-> list[((start + i - 1) % Len(list)) + 1]]

Smaller(a, b) == IF a < b THEN a ELSE b

Waits(list) == [d \in Dataspaces |->
    IF d \notin ToSet(list) THEN 0 ELSE IF list = lastList THEN waited[d] + 1 ELSE 1]

Scan ==
    /\ tick.at = "scanning" /\ ~aborted
    /\ LET list  == Sorted(due)
           count == Smaller(Len(list), MaxPerTick)
           start == IF list = <<>> THEN 0 ELSE cursor % Len(list)
           todo  == Taken(list, start, count)
       IN  /\ tick' = [tick EXCEPT !.at = "reconciling", !.todo = todo]
           /\ cursor' = IF count = 0 THEN 0 ELSE NextCursor(start, count, Len(list))
           /\ lastList' = list /\ waited' = Waits(list)
    /\ UNCHANGED <<due, outcome, running, aborted, report, ill>>

Finished(f, broken) ==
    /\ failures' = f /\ fatal' = broken /\ completed' = TRUE
    /\ tick' = NoTick /\ ill' = {}

ScanFails ==
    /\ tick.at = "scanning" /\ ~aborted
    /\ Finished(FALSE, TRUE)
    /\ UNCHANGED <<due, outcome, cursor, running, aborted, history>>

Failing == {d \in Dataspaces : outcome[d] = "failing"}

(* A record that keeps a caasRetry is a failure of the tick as well; a     *)
(* reconcile that throws leaves no durable trace.                          *)
Reconcile ==
    /\ tick.at = "reconciling" /\ tick.todo # <<>> /\ ~aborted
    /\ LET d == Head(tick.todo)
       IN /\ \/ /\ outcome' = [outcome EXCEPT ![d] = "settled"]
                /\ \E still \in BOOLEAN : due' = IF still THEN due ELSE due \ {d}
                /\ tick' = [tick EXCEPT !.todo = Tail(@)]
             \/ /\ outcome' = [outcome EXCEPT ![d] = "failing"]
                /\ \E still \in BOOLEAN : due' = IF still THEN due ELSE due \ {d}
                /\ tick' = [tick EXCEPT !.todo = Tail(@), !.failed = TRUE]
             \/ /\ tick' = [tick EXCEPT !.todo = Tail(@), !.failed = TRUE]
                /\ UNCHANGED <<due, outcome>>
          /\ waited' = [waited EXCEPT ![d] = 0]
    /\ UNCHANGED <<cursor, running, aborted, report, lastList, ill>>

(* The identifiers are listed, then one record is read after the other.    *)
ListBacklog ==
    /\ tick.at = "reconciling" /\ tick.todo = <<>> /\ ~aborted
    /\ tick' = [tick EXCEPT !.at = "reading", !.unread = Dataspaces]
    /\ ill' = Failing
    /\ UNCHANGED <<due, outcome, cursor, running, aborted, report, history>>

ReadRecord ==
    /\ tick.at = "reading" /\ ~aborted
    /\ \E d \in tick.unread :
          /\ \A e \in tick.unread : d <= e
          /\ tick' = [tick EXCEPT !.unread = @ \ {d}, !.backlog = @ \/ d \in Failing]
    /\ UNCHANGED <<due, outcome, cursor, running, aborted, report, history, ill>>

\* Mutant: what the tick itself met replaces the durable backlog.
Backlog_OwnOnly(durable, own) == own

(* The durable failures and, of the tick's own, the ones that left none.   *)
Backlog(durable, own) == durable \/ own

Report ==
    /\ tick.at = "reading" /\ tick.unread = {} /\ ~aborted
    /\ Finished(Backlog(tick.backlog, tick.failed), FALSE)
    /\ UNCHANGED <<due, outcome, cursor, running, aborted, history>>

BacklogFails ==
    /\ tick.at = "reading" /\ ~aborted
    /\ Finished(tick.failed, TRUE)
    /\ UNCHANGED <<due, outcome, cursor, running, aborted, history>>

(* throwIfAborted: the tick ends where it is and reports nothing.          *)
AbortTick ==
    /\ tick # NoTick /\ aborted /\ tick' = NoTick /\ ill' = {}
    /\ UNCHANGED <<due, outcome, cursor, running, aborted, report, history>>

-----------------------------------------------------------------------------
(* The scheduler and its surroundings                                      *)

Start ==
    /\ ~running /\ running' = TRUE
    /\ UNCHANGED <<due, outcome, cursor, tick, aborted, report, history, ill>>

(* stop() waits for the tick no longer than its deadline.                  *)
Stop ==
    /\ running /\ running' = FALSE
    /\ aborted' = (tick # NoTick)
    /\ waited' = [d \in Dataspaces |-> 0] /\ lastList' = <<>>
    /\ UNCHANGED <<due, outcome, cursor, tick, report, ill>>

(* A deadline passes, a registry changes; a call of the API reconciles.    *)
BecomesDue ==
    /\ \E d \in Dataspaces : due' = due \cup {d}
    /\ UNCHANGED <<outcome, cursor, tick, running, aborted, report, history, ill>>

ReconciledByCall ==
    /\ \E d \in Dataspaces, result \in {"settled", "failing"} :
         /\ outcome' = [outcome EXCEPT ![d] = result] /\ due' = due \ {d}
         /\ ill' = IF result = "settled" THEN ill \ {d} ELSE ill
    /\ UNCHANGED <<cursor, tick, running, aborted, report, history>>

Next ==
    \/ Launch \/ Scan \/ ScanFails \/ Reconcile \/ ListBacklog \/ ReadRecord
    \/ Report \/ BacklogFails \/ AbortTick
    \/ Start \/ Stop \/ BecomesDue \/ ReconciledByCall

Spec == Init /\ [][Next]_vars

-----------------------------------------------------------------------------
(* Properties                                                              *)

(* Every variable keeps its type.                                          *)
TypeOK ==
    /\ due \subseteq Dataspaces
    /\ outcome \in [Dataspaces -> {"settled", "failing"}]
    /\ cursor \in Nat
    /\ tick.at \in {"none", "scanning", "reconciling", "reading"}
    /\ ToSet(tick.todo) \cup tick.unread \cup ill \subseteq Dataspaces
    /\ {tick.failed, tick.backlog, failures} \subseteq BOOLEAN
    /\ {running, aborted, fatal, completed} \subseteq BOOLEAN
    /\ waited \in [Dataspaces -> Nat]

(* dsaas-control-plane.md: a tick goes round the due targets.  As long as  *)
(* the list stays the same every target of it is reconciled within one     *)
(* round, however many of them fail or stay blocked.                       *)
TurnsAreTaken ==
    \A d \in Dataspaces :
        waited[d] > 0 => (waited[d] - 1) * MaxPerTick < Len(lastList)

Ready == running /\ completed /\ ~fatal /\ ~failures

(* A tick after which the scheduler reports ready has met no failure of    *)
(* its own, and no dataspace has been failing ever since the tick began to *)
(* read the backlog, the ones it did not take included: a call may settle  *)
(* or break a dataspace between the reads.                                 *)
ReadyHasNoBacklog == [][Report /\ Ready' => ill = {} /\ ~tick.failed]_vars

=============================================================================

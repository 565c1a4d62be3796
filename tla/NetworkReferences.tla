-------------------------- MODULE NetworkReferences --------------------------
(***************************************************************************)
(* The whole-graph check of transport-network editions,                    *)
(* network-reference-integrity.mjs: the RDF graph is projected to records, *)
(* the records are judged one by one and then every stated successor is    *)
(* resolved.  The first fault ends the check; its code names the runtime   *)
(* control that is said to be broken.  A publisher edits the graph one     *)
(* statement at a time between two checks.  A malformed statement (two     *)
(* values, a blank identifier, a date that does not parse) stands for      *)
(* every fault that is charged to no control of its own.                   *)
(***************************************************************************)
EXTENDS Naturals, Sequences, SequencesExt

CONSTANTS
    Subjects,     \* sequence of the NetworkReference IRIs, in IRI order
    FirstGraphs,  \* graphs a publisher starts from
    Domain,       \* field -> the values an edit may give it
    Targets,      \* policy.lifecycle.replacementTargetStatuses
    None,         \* the statement is absent
    Outside,      \* a successor that is not in the graph
    MaxEdits

VARIABLES
    graph,    \* subject -> its statements
    verdict,  \* "none", "accepted" or the code of the fault
    edits

vars == <<graph, verdict, edits>>

Statuses == {"candidate", "current", "superseded", "withdrawn"}
IsSubject(s) == s \in ToSet(Subjects)

Init == graph \in FirstGraphs /\ verdict = "none" /\ edits = 0

-----------------------------------------------------------------------------
(* The projection                                                          *)

(* networkReferenceKey                                                     *)
Key(r) == <<r.authority, r.identifier, r.version>>

(* projectNetworkReferenceRecords: every subject is projected before the   *)
(* first successor is looked up.                                           *)
ProjectionFault ==
    IF \E s \in ToSet(Subjects) : ~graph[s].wellFormed THEN "NETWORK_RDF_PROJECTION_INVALID"
    ELSE IF \E s \in ToSet(Subjects) : graph[s].replacement = Outside THEN "NETWORK_REPLACEMENT_NOT_FOUND"
    ELSE None

-----------------------------------------------------------------------------
(* validateNetworkReferenceSet                                             *)

Terminal(r) == r.status \in {"superseded", "withdrawn"}

Prior(k) == {i \in 1..(k - 1) : Key(graph[Subjects[i]]) = Key(graph[Subjects[k]])}

(* One record, in the order its faults are looked for.                     *)
RecordFault(k) ==
    LET r == graph[Subjects[k]]
    IN  IF r.status \notin Statuses THEN "NETWORK_LIFECYCLE_STATUS_INVALID"
        ELSE IF r.until # None /\ r.from > r.until THEN "NETWORK_VALIDITY_INTERVAL_INVALID"
        ELSE IF Terminal(r) /\ r.until = None THEN "NETWORK_TERMINAL_VALIDITY_INVALID"
        ELSE IF r.status = "superseded" /\ r.replacement = None
             THEN "NETWORK_TERMINAL_REPLACEMENT_INVALID"
        ELSE IF r.status # "superseded" /\ r.replacement # None
             THEN "NETWORK_ACTIVE_REPLACEMENT_INVALID"
        ELSE IF \E i \in Prior(k) : graph[Subjects[i]].checksum # r.checksum
             THEN "NETWORK_IDENTITY_CHECKSUM_CONFLICT"
        ELSE IF Prior(k) # {} THEN "NETWORK_IDENTITY_DUPLICATE"
        ELSE None

\* Mutant: a superseded edition may end on the day its successor begins.
Apart_SameDay(r, successor) == r.until # None /\ r.until <= successor.from

Apart(r, successor) == r.until # None /\ r.until < successor.from

MayReplace(successor) == successor.status \in Targets

(* One stated successor, once all records stand.                           *)
SuccessorFault(k) ==
    LET r == graph[Subjects[k]]
        successor == graph[r.replacement]
    IN  IF r.replacement = None THEN None
        ELSE IF \/ successor.authority # r.authority
                \/ successor.identifier # r.identifier
                \/ successor.version = r.version
             THEN "NETWORK_REPLACEMENT_IDENTITY_INVALID"
        ELSE IF ~MayReplace(successor) THEN "NETWORK_LIFECYCLE_TRANSITION_INVALID"
        ELSE IF ~Apart(r, successor) THEN "NETWORK_REPLACEMENT_VALIDITY_OVERLAP"
        ELSE None

FirstOf(faults) ==
    LET found == {k \in DOMAIN faults : faults[k] # None}
    IN  IF found = {} THEN None ELSE faults[CHOOSE k \in found : \A j \in found : k <= j]

Fault ==
    LET records == FirstOf([k \in DOMAIN Subjects |-> RecordFault(k)])
    IN  IF ProjectionFault # None THEN ProjectionFault
        ELSE IF records # None THEN records
        ELSE FirstOf([k \in DOMAIN Subjects |-> SuccessorFault(k)])

(* validateNetworkReferenceGraph                                           *)
Validate ==
    /\ verdict = "none"
    /\ verdict' = IF Fault = None THEN "accepted" ELSE Fault
    /\ UNCHANGED <<graph, edits>>

(* The publisher changes one statement of one edition.                     *)
Edit ==
    /\ edits < MaxEdits
    /\ \E s \in ToSet(Subjects), field \in DOMAIN Domain :
        \E value \in Domain[field] \ {graph[s][field]} : graph' = [graph EXCEPT ![s][field] = value]
    /\ verdict' = "none" /\ edits' = edits + 1

Next == Validate \/ Edit

Spec == Init /\ [][Next]_vars

-----------------------------------------------------------------------------
(* NETWORK_RUNTIME_CONTROL_BY_ERROR_CODE; networkIntegrityFinding charges  *)
(* every other code to the general control.                                *)
ControlOf(code) ==
    CASE code \in {"NETWORK_IDENTITY_CHECKSUM_CONFLICT", "NETWORK_IDENTITY_DUPLICATE"} -> "identity"
      [] code \in {"NETWORK_TERMINAL_REPLACEMENT_INVALID", "NETWORK_ACTIVE_REPLACEMENT_INVALID",
                   "NETWORK_REPLACEMENT_NOT_FOUND", "NETWORK_REPLACEMENT_IDENTITY_INVALID",
                   "NETWORK_LIFECYCLE_TRANSITION_INVALID"} -> "lifecycle"
      [] code = "NETWORK_TERMINAL_VALIDITY_INVALID" -> "terminal-validity"
      [] code = "NETWORK_REPLACEMENT_VALIDITY_OVERLAP" -> "validity"
      [] OTHER -> "reference"

(* The normative statements of requirements/network-runtime-controls.json. *)
Successor(s) == graph[graph[s].replacement]
Resolved(s) == IsSubject(graph[s].replacement)
Superseded == {s \in ToSet(Subjects) : graph[s].status = "superseded"}
Meets(control) ==
    CASE control = "identity" ->
            \A s, t \in ToSet(Subjects) : Key(graph[s]) = Key(graph[t]) => s = t
      [] control = "lifecycle" ->
            \A s \in ToSet(Subjects) :
                IF s \in Superseded
                THEN /\ Resolved(s)
                     /\ Successor(s).authority = graph[s].authority
                     /\ Successor(s).identifier = graph[s].identifier
                     /\ Successor(s).version # graph[s].version
                     /\ Successor(s).status \in {"current", "superseded", "withdrawn"}
                ELSE graph[s].replacement = None
      [] control = "terminal-validity" ->
            \A s \in ToSet(Subjects) : Terminal(graph[s]) => graph[s].until # None
      [] control = "validity" ->
            \A s \in Superseded :
                Resolved(s) => graph[s].until # None /\ graph[s].until < Successor(s).from
      [] OTHER -> FALSE

(* The editions that follow s, over any number of replacements.            *)
Closed(C) == \A s \in C : Resolved(s) => graph[s].replacement \in C
Later(s) ==
    {t \in ToSet(Subjects) : \A C \in SUBSET ToSet(Subjects) :
        Closed(C) /\ (Resolved(s) => graph[s].replacement \in C) => t \in C}

(* Only a successor is checked against its predecessor, yet an accepted    *)
(* graph is a history: whoever follows the replacements of a superseded    *)
(* edition, over any number of editions, only moves to later intervals, so *)
(* never comes back, and ends at an edition that is or was in force.  A    *)
(* refusal names a control whose normative statement the graph does break  *)
(* (validateNetworkReferenceSet, networkIntegrityFinding).                 *)
AcceptedIsAHistory ==
    /\ verdict = "accepted" =>
        /\ \A s \in ToSet(Subjects) : \A t \in Later(s) : graph[s].until < graph[t].from
        /\ \A s \in Superseded : \E t \in Later(s) : graph[t].status \in {"current", "withdrawn"}
        /\ \A c \in {"identity", "lifecycle", "terminal-validity", "validity"} : Meets(c)
    /\ verdict \notin {"none", "accepted"} => ~Meets(ControlOf(verdict))

TypeOK ==
    /\ \A s \in ToSet(Subjects) : \A f \in DOMAIN Domain : graph[s][f] \in Domain[f]
    /\ edits \in 0..MaxEdits
=============================================================================

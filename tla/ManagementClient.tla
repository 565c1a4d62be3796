-------------------------- MODULE ManagementClient --------------------------
(***************************************************************************)
(* How a publication reaches a connector: EdcManagementV4PublicationClient *)
(* (edc-v4-management-client.mjs) over ResilientHttpClient                 *)
(* (http-client.mjs).  A publication is a list of objects, policies first, *)
(* then the asset, then the contract definition that offers it.  Each one  *)
(* is read, created when it is absent, and read again when the creation    *)
(* met another one; it must be the very object this publication makes.     *)
(*                                                                         *)
(* A request is a read, sent again until it is answered or the budget is   *)
(* used up, or a creation, sent once.  A creation that its client has      *)
(* given up may still be carried out.  The requests of a process to one    *)
(* origin share a circuit: an object of the client's Map, which a request  *)
(* looks up when it starts and stores when it ends.                        *)
(***************************************************************************)
EXTENDS Naturals, Sequences, FiniteSets

CONSTANTS
    Publishers,  \* calls of publishOffering, one publication each
    Malformed,   \* those whose offering publicationModel refuses
    Objects,     \* @id values at the connector
    Resources,   \* the objects of each publication, in order
    ContentOf,   \* what each publication makes of each of its objects
    Foreign,     \* content that no publication makes
    Nothing,     \* no object, no circuit
    Retries,     \* retries
    Threshold,   \* circuitFailureThreshold
    MaxTries     \* bound: calls of publishOffering for one publication

VARIABLES
    remote,   \* the content of each object at the connector
    doing,    \* where each publication is
    index,    \* the object it is at
    attempt,  \* of the request it waits for
    reply,    \* the connector's answer to it
    late,     \* creations given up by their clients, not yet carried out
    tries,    \* calls so far
    circuit,  \* the circuit in the Map: whose request made it
    tally,    \* of each circuit: failures, and is it open
    held,     \* the circuit each request holds
    streak    \* history: failures counted since the last success or opening

client_vars == <<doing, index, attempt, reply, tries>>
circuit_vars == <<circuit, tally, held, streak>>
vars == <<remote, client_vars, late, circuit_vars>>

Target(p) == Resources[p][index[p]]
Own(p, object) == ContentOf[p][object]

Init ==
    /\ remote = [o \in Objects |-> Nothing]
    /\ doing = [p \in Publishers |-> "idle"]
    /\ index = [p \in Publishers |-> 1]
    /\ attempt = [p \in Publishers |-> 0]
    /\ reply = [p \in Publishers |-> Nothing]
    /\ late = {}
    /\ tries = [p \in Publishers |-> 0]
    /\ circuit = Nothing
    /\ tally = [p \in Publishers |-> [failures |-> 0, open |-> FALSE]]
    /\ held = [p \in Publishers |-> p]
    /\ streak = 0

Goes(p, where) == doing' = [doing EXCEPT ![p] = where]

-----------------------------------------------------------------------------
(* The circuit                                                             *)

Open == circuit # Nothing /\ tally[circuit].open

(* Without a circuit in the Map a request makes one of its own.            *)
TakeCircuit(p) ==
    /\ held' = [held EXCEPT ![p] = IF circuit = Nothing THEN p ELSE circuit]
    /\ tally' = IF circuit = Nothing THEN [tally EXCEPT ![p] = [failures |-> 0, open |-> FALSE]] ELSE tally
    /\ UNCHANGED <<circuit, streak>>

(* A success leaves a circuit that is open as it is.                       *)
CountSuccess(p) ==
    /\ tally' = [tally EXCEPT ![held[p]].failures = 0]
    /\ circuit' = held[p] /\ streak' = 0
    /\ UNCHANGED held

(* The count is not reset when the circuit has been open: the next failure *)
(* opens it again.                                                         *)
CountFailure(p) ==
    LET failures == IF tally[held[p]].failures < Threshold THEN tally[held[p]].failures + 1 ELSE Threshold
        opens    == failures >= Threshold
    IN  /\ tally' = [tally EXCEPT ![held[p]] = [failures |-> failures, open |-> @.open \/ opens]]
        /\ circuit' = held[p]
        /\ streak' = IF opens THEN 0 ELSE streak + 1
        /\ UNCHANGED held

(* circuitOpenMs have passed.                                              *)
HalfOpen(p) ==
    /\ tally[p].open
    /\ tally' = [tally EXCEPT ![p].open = FALSE]
    /\ UNCHANGED <<remote, client_vars, late, circuit, held, streak>>

-----------------------------------------------------------------------------
(* A request                                                               *)

(* An offering with a field, a query, a path or an origin that is not      *)
(* allowed, or with a secret in it.                                        *)
Refused(p) == p \in Malformed

(* publishOffering: refused before anything is sent, or from the first     *)
(* object.                                                                 *)
Publish(p) ==
    /\ doing[p] \in {"idle", "failed"} /\ tries[p] < MaxTries
    /\ tries' = [tries EXCEPT ![p] = @ + 1]
    /\ index' = [index EXCEPT ![p] = 1]
    /\ Goes(p, IF Refused(p) THEN "failed" ELSE "get")
    /\ UNCHANGED <<remote, attempt, reply, late, circuit_vars>>

Asks(p) == doing[p] \in {"get", "create", "getAgain"}
Waits(p) == doing[p] \in {"reading", "creating", "readingAgain"}
Reads(p) == doing[p] \in {"reading", "readingAgain"}

Settled(p) ==
    /\ reply' = [reply EXCEPT ![p] = Nothing]
    /\ attempt' = [attempt EXCEPT ![p] = 0]

Send(p) ==
    /\ Asks(p)
    /\ IF Open
       THEN Goes(p, "failed") /\ UNCHANGED <<reply, circuit_vars>>
       ELSE /\ TakeCircuit(p)
            /\ Goes(p, CASE doing[p] = "get" -> "reading" [] doing[p] = "create" -> "creating"
                         [] doing[p] = "getAgain" -> "readingAgain")
            /\ reply' = [reply EXCEPT ![p] = "unanswered"]
    /\ UNCHANGED <<remote, index, attempt, tries, late>>

(* The connector answers a read, or creates what is absent.                *)
Serve(p) ==
    /\ Waits(p) /\ reply[p] = "unanswered"
    /\ IF Reads(p)
       THEN reply' = [reply EXCEPT ![p] = remote[Target(p)]] /\ UNCHANGED remote
       ELSE IF remote[Target(p)] = Nothing
       THEN /\ remote' = [remote EXCEPT ![Target(p)] = Own(p, Target(p))]
            /\ reply' = [reply EXCEPT ![p] = "created"]
       ELSE reply' = [reply EXCEPT ![p] = "exists"] /\ UNCHANGED remote
    /\ UNCHANGED <<doing, index, attempt, tries, late, circuit_vars>>

(* A connection that fails, a status of 429 or 5xx, an answer that is      *)
(* lost: a read is sent again after a while.                               *)
SendAgain(p) ==
    /\ Reads(p) /\ attempt[p] < Retries
    /\ attempt' = [attempt EXCEPT ![p] = @ + 1]
    /\ reply' = [reply EXCEPT ![p] = "unanswered"]
    /\ UNCHANGED <<remote, doing, index, tries, late, circuit_vars>>

(* The request fails, at once when the address policy forbids it, the      *)
(* answer redirects or is too large (which the circuit does not count),    *)
(* when its time is up or its caller aborts, or when the budget is used.   *)
(* A creation that has been sent may be carried out later.                 *)
GiveUp(p) ==
    /\ Waits(p) /\ Goes(p, "failed")
    /\ \/ CountFailure(p)
       \/ UNCHANGED circuit_vars
    /\ late' = IF doing[p] = "creating" /\ reply[p] = "unanswered"
               THEN late \cup {<<p, Target(p)>>} ELSE late
    /\ Settled(p)
    /\ UNCHANGED <<remote, index, tries>>

CarryOut ==
    \E creation \in late :
        /\ late' = late \ {creation}
        /\ remote' = IF remote[creation[2]] = Nothing
                     THEN [remote EXCEPT ![creation[2]] = Own(creation[1], creation[2])] ELSE remote
        /\ UNCHANGED <<client_vars, circuit_vars>>

-----------------------------------------------------------------------------
(* The publication                                                         *)

\* Mutant: an object that has the identifier is taken for the publication's.
Owned_ById(p, found) == found # Nothing

(* assertOwned: the marker, the digest and the content are this            *)
(* publication's.                                                          *)
Owned(p, found) == found = Own(p, Target(p))

Advance(p) ==
    IF index[p] = Len(Resources[p])
    THEN Goes(p, "published") /\ UNCHANGED index
    ELSE Goes(p, "get") /\ index' = [index EXCEPT ![p] = @ + 1]

(* ensure: the answer is taken.                                            *)
Receive(p) ==
    /\ Waits(p) /\ reply[p] # "unanswered"
    /\ CountSuccess(p)
    /\ CASE Reads(p) /\ Owned(p, reply[p])                 -> Advance(p)
         [] doing[p] = "creating" /\ reply[p] = "created"  -> Advance(p)
         [] doing[p] = "reading" /\ reply[p] = Nothing     -> Goes(p, "create") /\ UNCHANGED index
         [] doing[p] = "creating" /\ reply[p] = "exists"   -> Goes(p, "getAgain") /\ UNCHANGED index
         [] OTHER                                          -> Goes(p, "failed") /\ UNCHANGED index
    /\ Settled(p)
    /\ UNCHANGED <<remote, tries, late>>

(* An administrator of the connector creates an object.                    *)
Administer ==
    \E o \in Objects :
        /\ remote[o] = Nothing
        /\ remote' = [remote EXCEPT ![o] = Foreign]
        /\ UNCHANGED <<client_vars, late, circuit_vars>>

Next ==
    \/ CarryOut \/ Administer
    \/ \E p \in Publishers :
         \/ Publish(p) \/ Send(p) \/ Serve(p) \/ SendAgain(p)
         \/ GiveUp(p) \/ Receive(p) \/ HalfOpen(p)

Spec == Init /\ [][Next]_vars
-----------------------------------------------------------------------------
(* Properties                                                              *)

(* Every variable keeps its type.                                          *)
TypeOK ==
    /\ \A p \in Publishers : index[p] \in 1..Len(Resources[p])
    /\ doing \in [Publishers -> {"idle", "get", "reading", "create", "creating", "getAgain",
                                 "readingAgain", "published", "failed"}]
    /\ circuit \in Publishers \cup {Nothing}
    /\ held \in [Publishers -> Publishers]
    /\ \A p \in Publishers : tally[p].failures \in 0..Threshold

Whole(p) == \A i \in DOMAIN Resources[p] : remote[Resources[p][i]] = Own(p, Resources[p][i])
Last(p) == Resources[p][Len(Resources[p])]

(* What publishOffering reports as published is at the connector, every    *)
(* object of it as this publication makes it.  A contract definition names *)
(* its policies and its asset, not what is in them, so publications may    *)
(* share one: a definition at the connector offers nothing half made, but  *)
(* the whole of a publication that makes it so, whatever was lost, retried,*)
(* carried out late, raced by another publication or created by hand.      *)
OffersAreWhole ==
    \A p \in Publishers :
        /\ doing[p] = "published" => Whole(p)
        /\ remote[Last(p)] = Own(p, Last(p)) =>
              \E q \in Publishers : Last(q) = Last(p) /\ Own(q, Last(q)) = Own(p, Last(p)) /\ Whole(q)

(* Requests that are under way together when the first circuit is made     *)
(* count on circuits of their own, of which the last one stored remains;   *)
(* no more failures than that are lost, and the circuit opens.             *)
BreakerOpens == streak <= Cardinality(Publishers) * (Threshold - 1)

=============================================================================

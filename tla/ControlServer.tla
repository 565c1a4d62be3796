--------------------------- MODULE ControlServer ---------------------------
(***************************************************************************)
(* The HTTP server of a control plane, from its start to its shutdown:     *)
(* dsaas/server.mjs and caas/server.mjs with their runtimes                *)
(* (dsaas/runtime.mjs, caas/runtime.mjs), authenticators (auth.mjs) and    *)
(* http-denial-audit.mjs.  A request is one management request, a write    *)
(* or a read; what its operation does to the store is one step, the commit *)
(* of which nothing can abort.  Starting, serving and closing overlap at   *)
(* every await.                                                            *)
(*                                                                         *)
(* The servers differ in two places.  CaaS refuses only writes while it    *)
(* drains, DSaaS every management request; DSaaS checks after every wait   *)
(* of a start that no shutdown has come in between, CaaS is started once   *)
(* and closed only after that.                                             *)
(***************************************************************************)
EXTENDS Naturals, FiniteSets

CONSTANTS
    Requests,
    Writes,       \* those of them that change state
    Principals,   \* who a request may come from
    RightsOf,     \* each principal's rights: "all", a tenant, or "none"
    TenantOf,     \* the tenant each request is about
    ReadsDrain,   \* CaaS: reads are served while the server drains
    MaxStarts,    \* bound: calls of start
    Nobody

VARIABLES
    life,       \* where start() is
    starts,     \* calls of start so far
    cancelled,  \* the epoch has moved on since the start in progress took it
    listening,
    ready,
    closer,     \* where close() is
    stores,     \* the runtime's resources, in the order they are closed
    ticking,    \* the scheduler runs
    who,        \* the principal of each request
    place,      \* where each request is
    known,      \* requests whose principal has been authenticated
    cut,        \* the request's signal is aborted
    reply,      \* what each client was answered
    applied,    \* requests whose operation has committed
    denied,     \* requests whose refusal is in the audit
    metered     \* the tenant each recorded request is accounted to

life_vars == <<life, starts, cancelled, listening, ready, ticking>>
close_vars == <<closer, stores>>
request_vars == <<who, place, known, cut, reply, applied, denied, metered>>
vars == <<life_vars, close_vars, request_vars>>

-----------------------------------------------------------------------------
Init ==
    /\ life = "down" /\ starts = 0 /\ cancelled = FALSE
    /\ listening = FALSE /\ ready = FALSE /\ ticking = FALSE
    /\ closer = "none" /\ stores = "open"
    /\ who \in [Requests -> Principals]
    /\ place = [r \in Requests |-> "out"]
    /\ known = {}
    /\ cut = [r \in Requests |-> FALSE]
    /\ reply = [r \in Requests |-> 0]
    /\ applied = {} /\ denied = {}
    /\ metered = [r \in Requests |-> Nobody]

Closing == closer # "none"
Handled(r) == place[r] \notin {"out", "gone"}

-----------------------------------------------------------------------------
(* Start                                                                   *)

(* A start forgets the shutdown before it, which must be over.             *)
Start ==
    /\ life = "down" /\ starts < MaxStarts /\ closer # "draining"
    /\ life' = "starting" /\ starts' = starts + 1 /\ cancelled' = FALSE
    /\ closer' = "none"
    /\ ready' = FALSE
    /\ UNCHANGED <<listening, ticking, stores, request_vars>>

(* Identity, TLS, local state and observability are probed, then the       *)
(* server listens; a probe may fail.                                       *)
Listen ==
    /\ life = "starting"
    /\ \/ ~cancelled /\ listening' = TRUE /\ life' = "listening"
       \/ listening' = FALSE /\ life' = "failing"
    /\ UNCHANGED <<starts, cancelled, ready, ticking, close_vars, request_vars>>

StartScheduler ==
    /\ life = "listening"
    /\ IF cancelled THEN life' = "failing" /\ UNCHANGED ticking
       ELSE life' = "ticking" /\ ticking' = TRUE
    /\ UNCHANGED <<starts, cancelled, listening, ready, close_vars, request_vars>>

\* Mutant: no shutdown is expected once the scheduler has been started.
BecomeReady_Unchecked ==
    /\ life = "ticking" /\ life' = "up" /\ ready' = TRUE
    /\ UNCHANGED <<starts, cancelled, listening, ticking, close_vars, request_vars>>

BecomeReady ==
    /\ life = "ticking"
    /\ IF cancelled THEN life' = "failing" /\ UNCHANGED ready
       ELSE life' = "up" /\ ready' = TRUE
    /\ UNCHANGED <<starts, cancelled, listening, ticking, close_vars, request_vars>>

Unanswered(r) == place[r] \in {"arrived", "authenticating", "operating", "denying", "answering"}

(* The scheduler is stopped and the server closed, which waits for its     *)
(* connections.                                                            *)
StartFails ==
    /\ life = "failing" /\ \A r \in Requests : ~Unanswered(r)
    /\ ticking' = FALSE /\ listening' = FALSE /\ life' = "down"
    /\ UNCHANGED <<starts, cancelled, ready, close_vars, request_vars>>

-----------------------------------------------------------------------------
(* A request                                                               *)

Goes(r, where) == place' = [place EXCEPT ![r] = where]

(* On a new connection, or on one that was open when the drain began.      *)
Arrive(r) ==
    /\ listening \/ closer = "draining"
    /\ place[r] = "out" /\ Goes(r, "arrived")
    /\ UNCHANGED <<life_vars, close_vars, who, known, cut, reply, applied, denied, metered>>

Admitted(r) == ~Closing \/ (ReadsDrain /\ r \notin Writes)

Reply(r, status) == reply' = [reply EXCEPT ![r] = status]

(* A draining server answers without a denial: nobody was denied anything. *)
Admit(r) ==
    /\ place[r] = "arrived"
    /\ IF Admitted(r)
       THEN Goes(r, "authenticating") /\ UNCHANGED reply
       ELSE Goes(r, "finishing") /\ Reply(r, 503)
    /\ UNCHANGED <<life_vars, close_vars, who, known, cut, applied, denied, metered>>

(* admin, controller and tenant routes; a dataspace's operations.          *)
Authenticated(r) == RightsOf[who[r]] # "none"
Authorized(r) == RightsOf[who[r]] \in {"all", TenantOf[r]}

(* The identity provider may be out of reach, and the body may be invalid. *)
Authenticate(r) ==
    /\ place[r] = "authenticating"
    /\ \/ /\ Authenticated(r) /\ ~cut[r] /\ known' = known \cup {r}
          /\ Goes(r, IF Authorized(r) THEN "operating" ELSE "denying")
       \/ Goes(r, "denying") /\ UNCHANGED known
    /\ UNCHANGED <<life_vars, close_vars, who, cut, reply, applied, denied, metered>>

(* The operation commits, or fails: it is refused, its signal is aborted   *)
(* before the commit, or the store has been closed under it.               *)
Operate(r) ==
    /\ place[r] = "operating"
    /\ \/ /\ ~cut[r] /\ stores # "closed"
          /\ applied' = applied \cup {r} /\ Goes(r, "answering")
       \/ Goes(r, "denying") /\ UNCHANGED applied
    /\ UNCHANGED <<life_vars, close_vars, who, known, cut, reply, denied, metered>>

(* Every refusal is audited before it is answered; when the audit fails    *)
(* the answer is the audit's error.                                        *)
Deny(r) ==
    /\ place[r] = "denying"
    /\ \/ stores # "closed" /\ denied' = denied \cup {r} /\ Reply(r, 403)
       \/ UNCHANGED denied /\ Reply(r, 503)
    /\ Goes(r, "finishing")
    /\ UNCHANGED <<life_vars, close_vars, who, known, cut, applied, metered>>

Answer(r) ==
    /\ place[r] = "answering"
    /\ Reply(r, 200) /\ Goes(r, "finishing")
    /\ UNCHANGED <<life_vars, close_vars, who, known, cut, applied, denied, metered>>

AccountingTenant(r) ==
    IF r \notin known THEN Nobody ELSE IF reply[r] = 200 THEN TenantOf[r] ELSE "platform"

(* The usage is recorded in the finally block; it is lost when the signal  *)
(* is aborted, the recorder closed, or the meter fails.                    *)
Account(r) ==
    /\ place[r] = "finishing"
    /\ \/ ~cut[r] /\ stores = "open" /\ metered' = [metered EXCEPT ![r] = AccountingTenant(r)]
       \/ UNCHANGED metered
    /\ Goes(r, "gone")
    /\ UNCHANGED <<life_vars, close_vars, who, known, cut, reply, applied, denied>>

(* The client goes away, or the request takes too long.                    *)
CutOff(r) ==
    /\ place[r] \in {"arrived", "authenticating", "operating", "answering"} /\ ~cut[r]
    /\ cut' = [cut EXCEPT ![r] = TRUE]
    /\ UNCHANGED <<life_vars, close_vars, who, known, place, reply, applied, denied, metered>>

-----------------------------------------------------------------------------
(* Close                                                                   *)

(* No new connection is taken, the epoch moves on, the scheduler stops.    *)
Close ==
    /\ closer = "none" /\ closer' = "draining" /\ ready' = FALSE
    /\ cancelled' = (life # "down")
    /\ listening' = FALSE /\ ticking' = FALSE
    /\ UNCHANGED <<life, starts, stores, request_vars>>

(* Every request has been answered and its handler has finished.           *)
Drained ==
    /\ closer = "draining"
    /\ \A r \in Requests : ~Handled(r)
    /\ closer' = "closed" /\ life' = IF life = "up" THEN "down" ELSE life
    /\ UNCHANGED <<starts, cancelled, listening, ready, ticking, stores, request_vars>>

(* The deadline passes: every signal is aborted, every socket destroyed.   *)
Expire ==
    /\ closer = "draining"
    /\ closer' = "expired" /\ life' = IF life = "up" THEN "down" ELSE life
    /\ cut' = [r \in Requests |-> cut[r] \/ Handled(r)]
    /\ UNCHANGED <<starts, cancelled, listening, ready, ticking, stores, who, known, place,
                   reply, applied, denied, metered>>

(* The runtime closes the recorder, the observability and the store.       *)
CloseRuntime ==
    /\ closer \in {"closed", "expired"}
    /\ \/ stores = "open" /\ stores' = "recorderClosed"
       \/ stores = "recorderClosed" /\ stores' = "closed"
    /\ UNCHANGED <<life_vars, closer, request_vars>>

Next ==
    \/ Start \/ Listen \/ StartScheduler \/ BecomeReady \/ StartFails
    \/ Close \/ Drained \/ Expire \/ CloseRuntime
    \/ \E r \in Requests :
         \/ Arrive(r) \/ Admit(r) \/ Authenticate(r) \/ Operate(r)
         \/ Deny(r) \/ Answer(r) \/ Account(r) \/ CutOff(r)

Spec == Init /\ [][Next]_vars
-----------------------------------------------------------------------------
(* Properties                                                              *)

(* Every variable keeps its type.                                          *)
TypeOK ==
    /\ life \in {"down", "starting", "listening", "ticking", "up", "failing"}
    /\ closer \in {"none", "draining", "closed", "expired"}
    /\ stores \in {"open", "recorderClosed", "closed"}
    /\ cancelled \in BOOLEAN /\ listening \in BOOLEAN /\ ready \in BOOLEAN /\ ticking \in BOOLEAN
    /\ place \in [Requests -> {"out", "arrived", "authenticating", "operating", "denying",
                               "answering", "finishing", "gone"}]
    /\ reply \in [Requests -> {0, 200, 403, 503}]
    /\ known \cup applied \cup denied \subseteq Requests

(* Whatever a shutdown overlaps with, once close() has returned the server *)
(* takes no connection, reports not ready and runs no tick, until it is    *)
(* started again; the handler of every request, with what it had to        *)
(* record, is done, or its signal is aborted (server.mjs close and         *)
(* closeGracefully).                                                       *)
ClosedIsQuiet ==
    closer \in {"closed", "expired"} =>
        /\ ~listening /\ ~ready /\ ~ticking
        /\ \A r \in Requests : Handled(r) => closer = "expired" /\ cut[r]

(* A client that is told its request was refused finds the refusal in the  *)
(* audit; a request is accounted to a tenant only when an operation of     *)
(* that tenant, by a principal with a right to it, has succeeded, and to   *)
(* nobody when nobody was authenticated (http-denial-audit.mjs,            *)
(* managementAccountingTenant).                                            *)
RefusalsAreAudited ==
    \A r \in Requests :
        /\ reply[r] = 403 => r \in denied
        /\ metered[r] = TenantOf[r] => r \in applied /\ Authorized(r)
        /\ ~Authenticated(r) => metered[r] = Nobody /\ r \notin applied

=============================================================================

---------------------------- MODULE TenantStore ----------------------------
(***************************************************************************)
(* postgres-tenant-store.mjs: the resources, records, queue messages,      *)
(* objects, secret references and metric samples of the tenants, behind    *)
(* two gates.  The store authorizes a request against its session context  *)
(* when it starts, and PostgreSQL's row policies (migration 002) judge the *)
(* same context again, by the clock and the principal bindings of the      *)
(* moment each statement runs.  In between a break-glass approval can      *)
(* expire and an operator can revoke a binding.                            *)
(*                                                                         *)
(* A request is a call that goes through "idle", "checked" (authorized,    *)
(* the payload not yet examined), "allowed", "open" (its transaction runs),*)
(* "denying" (the transaction that records the denial is still to run) and *)
(* "done".  Each transaction is one step.  The security audit of a tenant  *)
(* and its outbox rows are written in one transaction and are one chain.   *)
(***************************************************************************)
EXTENDS Naturals, Sequences, FiniteSets

CONSTANTS
    Tenants,
    Calls,     \* calls in flight
    Requests,  \* the requests that may arrive
    Workers,   \* workerId values of queue consumers
    None,      \* no value
    MaxTime,   \* bound: the clock
    MaxRev,    \* bound: revisions of one resource
    Lease,     \* leaseMs, in ticks
    MaxRevoked \* bound: bindings an operator revokes

Modes == {"tenant", "service", "break-glass"}

\* Operations by what they do to a row: compare and set (putResource), bind a
\* key once (putIdempotency, enqueue, registerObject), overwrite
\* (registerSecretReference, recordMetric), read (get..., list..., audit), take
\* a queue message (claimQueue) and settle it (acknowledgeQueue).
Operations == {"put", "bind", "overwrite", "read", "claim", "acknowledge"}

VARIABLES
    now,
    binding,  \* tenant_database_principal: the <<tenant, mode>> that are active
    rows,     \* per tenant: the revision of its resource, the content its key is
              \* bound to, the content it may overwrite
    message,  \* per tenant: the queue message of its key
    chain,    \* per tenant: tenant_security_audit in order of sequence
    call      \* the requests

vars == <<now, binding, rows, message, chain, call>>

\* A call before its request arrives.  expires is that of a break-glass
\* approval, clean says that the payload holds no secret material and stays in
\* the tenant's namespaces, content is what is written, or the worker that claims.
Blank ==
    [at |-> "idle", session |-> None, mode |-> None, expires |-> 0, of |-> None, op |-> None,
     expected |-> 0, content |-> None, clean |-> TRUE, answer |-> None, when |-> 0]

-----------------------------------------------------------------------------
(* The two gates                                                           *)

\* authorization
Authorized(c) ==
    IF c.mode = "break-glass" THEN c.expires > now ELSE c.session = c.of

\* Mutant: break_glass_active without its expiry.
GlassActive_NoExpiry(session, expires) == <<session, "break-glass">> \in binding

\* break_glass_active
GlassActive(session, expires) == expires > now /\ <<session, "break-glass">> \in binding

\* tenant_row_visible, for a row of tenant t under the context of a call.
Visible(c, t) ==
    \/ c.mode # "break-glass" /\ t = c.session /\ <<c.session, c.mode>> \in binding
    \/ c.mode = "break-glass" /\ GlassActive(c.session, c.expires)

\* The context recordDenial sets: a denied break-glass gets a fresh minute.
MayRecordDenial(c) ==
    IF c.mode = "break-glass" THEN <<c.session, "break-glass">> \in binding ELSE Visible(c, c.session)

Entry(id, c, decision) == [by |-> id, decision |-> decision, of |-> c.of]

-----------------------------------------------------------------------------
(* A request                                                               *)

\* The context comes from the caller's token, the rest from the request.
Arrive(id, request) ==
    /\ call[id].at = "idle"
    /\ call' = [call EXCEPT ![id] = [request EXCEPT !.at = "checked"]]
    /\ UNCHANGED <<now, binding, rows, message, chain>>

\* validateReferenceOnly and the namespace checks: secret material, a foreign
\* object key, secret reference or metric label is refused, and that is a denial.
Check(id) ==
    LET c == call[id] IN
    /\ c.at = "checked"
    /\ call' = [call EXCEPT ![id] =
           [@ EXCEPT !.at = IF Authorized(c) /\ c.clean THEN "allowed" ELSE "denying"]]
    /\ UNCHANGED <<now, binding, rows, message, chain>>

Finish(id, answer) ==
    call' = [call EXCEPT ![id] = [@ EXCEPT !.at = "done", !.answer = answer, !.when = now]]

\* execute authorizes once more, before it opens its transaction.
Reauthorize(id) ==
    LET c == call[id] IN
    /\ c.at = "allowed"
    /\ call' = [call EXCEPT ![id] = [@ EXCEPT !.at = IF Authorized(c) THEN "open" ELSE "denying"]]
    /\ UNCHANGED <<now, binding, rows, message, chain>>

\* The rows a transaction changes under the tenant it was asked for: a pair of
\* the new rows and the new message; unchanged when the operation refuses.
Claimable(m) == m.bound /\ ~m.done /\ m.until <= now

Applies(c) ==
    CASE c.op = "put"         -> rows[c.of].rev = c.expected /\ rows[c.of].rev < MaxRev
      [] c.op = "bind"        -> rows[c.of].key \in {None, c.content}
      [] c.op = "claim"       -> Claimable(message[c.of])
      [] c.op = "acknowledge" -> message[c.of].owner = c.content /\ ~message[c.of].done
      [] OTHER                -> TRUE

RowsAfter(c) ==
    CASE c.op = "put"       -> [rows EXCEPT ![c.of].rev = @ + 1]
      [] c.op = "bind"      -> [rows EXCEPT ![c.of].key = c.content]
      [] c.op = "overwrite" -> [rows EXCEPT ![c.of].last = c.content]
      [] OTHER              -> rows

MessageAfter(c) ==
    CASE c.op = "bind"        -> [message EXCEPT ![c.of].bound = TRUE]
      [] c.op = "claim"       -> [message EXCEPT ![c.of].owner = c.content, ![c.of].until = now + Lease]
      [] c.op = "acknowledge" -> [message EXCEPT ![c.of].owner = None, ![c.of].done = TRUE]
      [] OTHER                -> message

\* Every access that is not the tenant's own is written to its chain first.
Audited(c) == c.mode # "tenant"

\* The transaction of a permitted request commits: the row is visible, the
\* operation accepts, and the permit is in the chain with the change.
Execute(id) ==
    LET c == call[id] IN
    /\ c.at = "open" /\ Visible(c, c.of) /\ Applies(c)
    /\ rows' = RowsAfter(c) /\ message' = MessageAfter(c)
    /\ chain' = IF Audited(c) THEN [chain EXCEPT ![c.session] = Append(@, Entry(id, c, "PERMIT"))] ELSE chain
    /\ Finish(id, "served")
    /\ UNCHANGED <<now, binding>>

\* It rolls back: the operation refuses, or an invisible row counts as absent
\* (a read finds nothing, a claim gets no message, a stale revision conflicts).
Refuse(id) ==
    LET c == call[id] IN
    /\ c.at = "open"
    /\ \/ Visible(c, c.of) /\ ~Applies(c)
       \/ ~Visible(c, c.of) /\ ~Audited(c) /\ (c.op \in {"read", "claim", "acknowledge"} \/ c.expected > 0)
    /\ Finish(id, "refused")
    /\ UNCHANGED <<now, binding, rows, message, chain>>

\* An insert the row policy rejects (42501): rolled back, then recorded.
PolicyDenies(id) ==
    LET c == call[id] IN
    /\ c.at = "open" /\ ~Visible(c, c.of)
    /\ Audited(c) \/ (c.op \in {"put", "bind", "overwrite"} /\ c.expected = 0)
    /\ call' = [call EXCEPT ![id] = [@ EXCEPT !.at = "denying"]]
    /\ UNCHANGED <<now, binding, rows, message, chain>>

\* recordDenial, and only then the answer.  Without a binding for the session
\* the policy refuses this insert too: the caller learns that the audit failed.
RecordDenial(id) ==
    LET c == call[id] IN
    /\ c.at = "denying"
    /\ IF MayRecordDenial(c)
       THEN /\ chain' = [chain EXCEPT ![c.session] = Append(@, Entry(id, c, "DENY"))]
            /\ Finish(id, "denied")
       ELSE Finish(id, "auditFailed") /\ UNCHANGED chain
    /\ UNCHANGED <<now, binding, rows, message>>

\* The database goes away before a transaction commits.
Fail(id) ==
    /\ call[id].at \in {"open", "denying"}
    /\ Finish(id, "unavailable")
    /\ UNCHANGED <<now, binding, rows, message, chain>>

-----------------------------------------------------------------------------

Revoke ==
    \E principal \in binding :
        /\ Cardinality((Tenants \X Modes) \ binding) < MaxRevoked
        /\ binding' = binding \ {principal}
        /\ UNCHANGED <<now, rows, message, chain, call>>

Tick ==
    /\ now < MaxTime
    /\ now' = now + 1
    /\ UNCHANGED <<binding, rows, message, chain, call>>

Init ==
    /\ now = 0
    /\ binding = Tenants \X Modes
    /\ rows = [t \in Tenants |-> [rev |-> 0, key |-> None, last |-> None]]
    /\ message = [t \in Tenants |-> [bound |-> FALSE, owner |-> None, until |-> 0, done |-> FALSE]]
    /\ chain = [t \in Tenants |-> <<>>]
    /\ call = [id \in Calls |-> Blank]

Next ==
    \/ \E id \in Calls, request \in Requests : Arrive(id, request)
    \/ \E id \in Calls : \/ Check(id) \/ Reauthorize(id) \/ Execute(id) \/ Refuse(id)
                         \/ PolicyDenies(id) \/ RecordDenial(id) \/ Fail(id)
    \/ Revoke \/ Tick

Spec == Init /\ [][Next]_vars

-----------------------------------------------------------------------------
(* Properties                                                              *)

TypeOK ==
    /\ now \in 0..MaxTime
    /\ binding \subseteq Tenants \X Modes
    /\ \A t \in Tenants : rows[t].rev \in 0..MaxRev /\ rows[t].key \in Workers \cup {None}
    /\ \A id \in Calls : call[id].at \in {"idle", "checked", "allowed", "open", "denying", "done"}

InChain(id, decision) ==
    LET c == call[id] IN
    \E i \in DOMAIN chain[c.session] : chain[c.session][i] = Entry(id, c, decision)

\* No request reaches another tenant's rows except under a break-glass approval
\* that had not expired when its transaction ran; every access but a tenant's
\* own left its permit, and every caller that was told of a denial its denial,
\* in the chain of the session's tenant.
AccessIsAudited ==
    \A id \in Calls :
        LET c == call[id] IN
        /\ c.answer = "served" =>
              /\ c.of # c.session => c.mode = "break-glass" /\ c.when < c.expires
              /\ c.mode # "tenant" => InChain(id, "PERMIT")
        /\ c.answer = "denied" => InChain(id, "DENY")

=============================================================================

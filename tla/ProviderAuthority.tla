-------------------------- MODULE ProviderAuthority --------------------------
(***************************************************************************)
(* May this provider do this to this asset: resolveProviderAuthority of    *)
(* provider-authority.mjs, with the actors it depends on.  An issuer       *)
(* approves an authority for an interval and revokes it later, a registry  *)
(* keeper publishes dated snapshots of what it knows of each authority, an *)
(* enforcement point dates a request, a verifier signs a receipt for one   *)
(* request under one snapshot, and the enforcement point resolves the      *)
(* request with whatever snapshot and receipt it then has.  A snapshot and *)
(* an entry are their own digests; the formats of identifiers, instants    *)
(* and digests are left out.  Issuer, keeper and verifier are outside the  *)
(* code: a snapshot says of an authority what was so when it was looked at *)
(* (the approval and the revocation at different times), and a receipt may *)
(* name a verifier that did not sign it.                                   *)
(***************************************************************************)
EXTENDS Naturals, FiniteSets

CONSTANTS
    Authorities, Requests,
    Covers,      \* authority -> the scopes (participant, provider, source, asset, action) of its entry
    ScopeOf,     \* request -> its scope
    Terms,       \* authority -> the intervals it may be proposed and approved for
    MaxAge,      \* registry.revocationMaxAgeSeconds
    MaxTime, MaxSnapshots, MaxDate, MaxReceipts,
    None

VARIABLES
    now,
    mandate,     \* authority -> its approval: the interval, when approved, when verified
    revokedAt,   \* authority -> when it was revoked
    registry,    \* the snapshot in use
    asked,       \* request -> its evaluatedAt
    receipts,    \* those that were signed: by is the verifier named, signer who signed
    decision,    \* request -> the authority it was allowed on
    snapshots

vars == <<now, mandate, revokedAt, registry, asked, receipts, decision, snapshots>>
truths == <<mandate, revokedAt>>

Empty == [asOf |-> 0, entries |-> [a \in Authorities |-> None], eligible |-> FALSE]
Denied(reason) == [allowed |-> FALSE, reason |-> reason]

Init ==
    /\ now = 0 /\ registry = Empty
    /\ mandate = [a \in Authorities |-> None] /\ revokedAt = [a \in Authorities |-> None]
    /\ asked = [r \in Requests |-> None] /\ receipts = {}
    /\ decision = [r \in Requests |-> None] /\ snapshots = 0

-----------------------------------------------------------------------------
(* The registry                                                            *)

Listed(reg) == {a \in Authorities : reg.entries[a] # None}

(* The clauses of semanticAuthorityErrors that relate two facts.           *)
Consistent(entry, asOf) ==
    /\ entry.from < entry.until
    /\ entry.checkedAt <= asOf
    /\ entry.decision = "approved" =>
        /\ entry.status = "current"
        /\ entry.approvedAt \in entry.from..entry.until
        /\ entry.verifiedAt \in entry.approvedAt..asOf
        /\ entry.verifiedAt <= entry.checkedAt

(* hasApprovedCurrent                                                      *)
InForce(entry, asOf) ==
    /\ entry.decision = "approved" /\ entry.status = "current"
    /\ entry.from <= asOf /\ asOf < entry.until
    /\ entry.checkedAt <= asOf /\ asOf - entry.checkedAt <= MaxAge

RegistryStands(reg) ==
    /\ \A a \in Listed(reg) : Consistent(reg.entries[a], reg.asOf)
    /\ reg.eligible = \E a \in Listed(reg) : InForce(reg.entries[a], reg.asOf)

-----------------------------------------------------------------------------
(* The resolver                                                            *)

Candidates(reg, r) == {a \in Listed(reg) : ScopeOf[r] \in Covers[a]}

\* Mutant: a receipt signed for another request of the same scope will do.
ReceiptMatches_AnyRequest(receipt, a, r, reg) ==
    receipt.authority = a /\ receipt.registry = reg /\ receipt.by = "verifier"

(* receiptMatches: entry, registry and payload digests and every field of  *)
(* the request.                                                            *)
ReceiptMatches(receipt, a, r, reg) ==
    /\ receipt.authority = a /\ receipt.registry = reg
    /\ receipt.request = r /\ receipt.at = asked[r]
    /\ receipt.by = "verifier"

(* The denials in the order of resolveProviderAuthority; works: the        *)
(* signature callback answers, with true for the verifier's own signature. *)
Answer(reg, r, receipt, works) ==
    LET at == asked[r]
        found == Candidates(reg, r)
        a == CHOOSE x \in found : TRUE
        entry == reg.entries[a]
    IN  CASE ~RegistryStands(reg) -> Denied("REGISTRY_INVALID")
          [] at > reg.asOf -> Denied("REGISTRY_SNAPSHOT_TOO_OLD")
          [] found = {} -> Denied("AUTHORITY_NOT_FOUND")
          [] Cardinality(found) > 1 -> Denied("AUTHORITY_AMBIGUOUS")
          [] entry.decision # "approved" -> Denied("AUTHORITY_NOT_APPROVED")
          [] entry.status # "current" -> Denied("AUTHORITY_NOT_CURRENT")
          [] at < entry.from \/ at >= entry.until -> Denied("AUTHORITY_OUTSIDE_VALIDITY")
          [] entry.checkedAt > at -> Denied("REVOCATION_EVIDENCE_FROM_FUTURE")
          [] at - entry.checkedAt > MaxAge -> Denied("REVOCATION_EVIDENCE_STALE")
          [] receipt = None -> Denied("AUTHORITY_VERIFICATION_REQUIRED")
          [] ~ReceiptMatches(receipt, a, r, reg) -> Denied("AUTHORITY_VERIFICATION_INVALID")
          [] \/ receipt.verifiedAt < entry.verifiedAt
             \/ receipt.verifiedAt > at
             \/ at - receipt.verifiedAt > MaxAge -> Denied("AUTHORITY_VERIFICATION_STALE")
          [] ~(works /\ receipt.signer = receipt.by) -> Denied("AUTHORITY_SIGNATURE_UNVERIFIED")
          [] OTHER -> [allowed |-> TRUE, authority |-> a]

(* The callback answers, or fails or throws, which denies; after a denial  *)
(* the request may be resolved again with other evidence.                  *)
Resolve(r) ==
    /\ asked[r] # None /\ decision[r] = None
    /\ \E receipt \in receipts \cup {None}, works \in BOOLEAN :
        LET answer == Answer(registry, r, receipt, works)
        IN  answer.allowed /\ decision' = [decision EXCEPT ![r] = answer.authority]
    /\ UNCHANGED <<now, truths, registry, asked, receipts, snapshots>>

-----------------------------------------------------------------------------
(* Clock, issuer, keeper, enforcement point and verifier                   *)

Tick ==
    /\ now < MaxTime /\ now' = now + 1
    /\ UNCHANGED <<truths, registry, asked, receipts, decision, snapshots>>

(* An approval is seen by the registry once it has been verified.          *)
Approve(a) ==
    /\ mandate[a] = None
    /\ \E term \in Terms[a], at \in 0..now :
        mandate' = [mandate EXCEPT ![a] =
            [from |-> term.from, until |-> term.until, approvedAt |-> at, verifiedAt |-> now]]
    /\ UNCHANGED <<now, revokedAt, registry, asked, receipts, decision, snapshots>>

Revoke(a) ==
    /\ mandate[a] # None /\ revokedAt[a] = None
    /\ revokedAt' = [revokedAt EXCEPT ![a] = now]
    /\ UNCHANGED <<now, mandate, registry, asked, receipts, decision, snapshots>>

StatusAt(a, t) == IF revokedAt[a] # None /\ revokedAt[a] <= t THEN "revoked" ELSE "current"

Proposed(a) ==
    {[from |-> term.from, until |-> term.until, decision |-> "pending",
      approvedAt |-> None, verifiedAt |-> None] : term \in Terms[a]}
Granted(a) ==
    {[from |-> m.from, until |-> m.until, decision |-> "approved",
      approvedAt |-> m.approvedAt, verifiedAt |-> m.verifiedAt] : m \in {mandate[a]} \ {None}}

Entry(a, basis, checked) ==
    [from |-> basis.from, until |-> basis.until, decision |-> basis.decision,
     approvedAt |-> basis.approvedAt, verifiedAt |-> basis.verifiedAt,
     status |-> StatusAt(a, checked), checkedAt |-> checked]

Bases == UNION {Proposed(a) \cup Granted(a) : a \in Authorities}

(* A snapshot dated asOf, eligible when the code finds it so.              *)
Snapshot(bases, checked, asOf) ==
    LET entries == [a \in Authorities |->
                      IF bases[a] = None THEN None ELSE Entry(a, bases[a], checked[a])]
        reg == [asOf |-> asOf, entries |-> entries, eligible |-> FALSE]
    IN  [reg EXCEPT !.eligible = \E a \in Listed(reg) : InForce(entries[a], asOf)]

(* An entry is as proposed or as granted, its revocation checked again or  *)
(* as it was found earlier.                                                *)
Publish ==
    /\ snapshots < MaxSnapshots /\ snapshots' = snapshots + 1
    /\ \E bases \in [Authorities -> Bases \cup {None}],
          checked \in [Authorities -> 0..now], asOf \in now..MaxDate :
        /\ \A a \in Authorities :
             \/ bases[a] = None /\ checked[a] = 0
             \/ bases[a] \in Proposed(a) \cup Granted(a)
        /\ registry' = Snapshot(bases, checked, asOf)
    /\ UNCHANGED <<now, truths, asked, receipts, decision>>

(* A request may be dated ahead of its evaluation.                         *)
Ask(r) ==
    /\ asked[r] = None
    /\ \E at \in now..MaxDate : asked' = [asked EXCEPT ![r] = at]
    /\ UNCHANGED <<now, truths, registry, receipts, decision, snapshots>>

(* The approval names its verifier; others sign too, in their own name or  *)
(* in the verifier's.                                                      *)
Sign(r, a) ==
    /\ asked[r] # None /\ registry.entries[a] # None /\ decision[r] = None
    /\ Cardinality(receipts) < MaxReceipts
    /\ \E signer, by \in {"verifier", "other"} :
        /\ signer = "verifier" => by = "verifier"
        /\ receipts' = receipts \cup
            {[request |-> r, at |-> asked[r], authority |-> a, registry |-> registry, by |-> by,
              signer |-> signer, verifiedAt |-> now]}
    /\ UNCHANGED <<now, truths, registry, asked, decision, snapshots>>

Next ==
    \/ Tick \/ Publish
    \/ \E a \in Authorities : Approve(a) \/ Revoke(a)
    \/ \E r \in Requests : Ask(r) \/ Resolve(r) \/ \E a \in Authorities : Sign(r, a)

Spec == Init /\ [][Next]_vars

-----------------------------------------------------------------------------
TypeOK ==
    /\ now \in 0..MaxTime /\ snapshots \in 0..MaxSnapshots
    /\ \A r \in Requests : decision[r] # None => asked[r] # None
    /\ \A a \in Authorities : mandate[a] # None => mandate[a].verifiedAt \in 0..now
    /\ \A a \in Authorities : revokedAt[a] = None \/ revokedAt[a] \in 0..now

(* Whatever snapshot and receipt were at hand, an authority that answered  *)
(* a request had been approved and the approval verified by the instant of *)
(* the request, the instant lies in the interval it was approved for, it   *)
(* had not been revoked longer than the permitted age before, and the      *)
(* verifier itself had signed for this very request, under a verified      *)
(* approval and within that age (resolveProviderAuthority).                *)
AllowedWasInForce ==
    \A r \in Requests :
        decision[r] # None =>
            LET a == decision[r]
                m == mandate[a]
            IN  /\ ScopeOf[r] \in Covers[a]
                /\ m # None
                /\ m.approvedAt \in m.from..m.until /\ m.verifiedAt <= asked[r]
                /\ m.from <= asked[r] /\ asked[r] < m.until
                /\ revokedAt[a] = None \/ revokedAt[a] + MaxAge >= asked[r]
                /\ \E receipt \in receipts :
                    /\ receipt.request = r /\ receipt.authority = a /\ receipt.signer = "verifier"
                    /\ m.verifiedAt <= receipt.verifiedAt
                    /\ receipt.verifiedAt <= asked[r] /\ asked[r] <= receipt.verifiedAt + MaxAge
=============================================================================

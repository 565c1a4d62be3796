--------------------------- MODULE ProfilesProofs ---------------------------
(***************************************************************************)
(* What the judgements over a release and over an authority are worth for  *)
(* all values of the constants.  Each part has an inductive invariant of   *)
(* its own; a step of Profiles is a step of one part.                      *)
(***************************************************************************)
EXTENDS Profiles, FiniteSetTheorems, WellFoundedInduction, TLAPS

-----------------------------------------------------------------------------
(* The provider authority.  What an entry says of an authority was so when *)
(* it was checked, an approval stays as it was given, and a revocation is  *)
(* never dated back.                                                       *)

Instants == Nat \cup {None}
Mandates == [from : Nat, until : Nat, approvedAt : Nat, verifiedAt : Nat]

AuthorityTyped ==
    /\ Authority!TypeOK
    /\ mandate \in [Authorities -> Mandates \cup {None}]
    /\ revokedAt \in [Authorities -> Instants]
    /\ asked \in [Requests -> Instants]
    /\ \A x \in receipts : x.verifiedAt \in 0..now
    /\ decision \in [Requests -> Authorities \cup {None}]

\* An authority that was current when it was checked is revoked later, if ever, and
\* an approved entry states the approval that was given.
EntryIsTrue(a, entry) ==
    /\ entry.checkedAt \in 0..now
    /\ entry.status = "current" => revokedAt[a] = None \/ revokedAt[a] >= entry.checkedAt
    /\ entry.decision = "approved" =>
         /\ mandate[a] # None
         /\ entry.from = mandate[a].from /\ entry.until = mandate[a].until
         /\ entry.approvedAt = mandate[a].approvedAt /\ entry.verifiedAt = mandate[a].verifiedAt

RegistryIsTrue == \A a \in Authority!Listed(registry) : EntryIsTrue(a, registry.entries[a])

\* An authority on which a request may be allowed, with the receipt for it.
Holds(r, a) ==
    LET m == mandate[a]
    IN  /\ ScopeOf[r] \in Covers[a]
        /\ m # None
        /\ m.approvedAt \in m.from..m.until /\ m.verifiedAt <= asked[r]
        /\ m.from <= asked[r] /\ asked[r] < m.until
        /\ revokedAt[a] = None \/ revokedAt[a] + MaxAge >= asked[r]
        /\ \E receipt \in receipts :
             /\ receipt.request = r /\ receipt.authority = a /\ receipt.signer = "verifier"
             /\ m.verifiedAt <= receipt.verifiedAt
             /\ receipt.verifiedAt <= asked[r] /\ asked[r] <= receipt.verifiedAt + MaxAge

AllowedHolds == \A r \in Requests : decision[r] # None => Holds(r, decision[r])

AuthorityInv == AuthorityTyped /\ RegistryIsTrue /\ AllowedHolds

LEMMA AuthorityStarts == Authority!Init => AuthorityInv
<1> SUFFICES ASSUME Authority!Init PROVE AuthorityInv
  OBVIOUS
<1>1. AuthorityTyped
  BY AuthorityAssumption DEF Authority!Init, AuthorityTyped, Authority!TypeOK, Instants
<1>2. RegistryIsTrue
  BY DEF Authority!Init, Authority!Empty, RegistryIsTrue, Authority!Listed
<1>3. AllowedHolds
  BY DEF Authority!Init, AllowedHolds
<1>q. QED BY <1>1, <1>2, <1>3 DEF AuthorityInv

\* What may happen beside the registry: the clock runs, approvals are given and
\* revoked, requests dated and receipts signed.
Onward ==
    /\ now' \in Nat /\ now' >= now
    /\ \A a \in Authorities : mandate'[a] = mandate[a] \/ mandate[a] = None
    /\ \A a \in Authorities :
         revokedAt'[a] = revokedAt[a] \/ (revokedAt[a] = None /\ revokedAt'[a] = now /\ mandate[a] # None)
    /\ \A r \in Requests : asked[r] # None => asked'[r] = asked[r]
    /\ receipts \subseteq receipts'

\* What is said of an entry stays true while the clock runs and others are revoked.
LEMMA EntriesStayTrue ==
    ASSUME AuthorityTyped, RegistryIsTrue, registry' = registry, Onward
    PROVE  RegistryIsTrue'
<1> SUFFICES ASSUME NEW a \in Authority!Listed(registry) PROVE EntryIsTrue(a, registry.entries[a])'
  BY DEF RegistryIsTrue, Authority!Listed
<1>1. a \in Authorities /\ EntryIsTrue(a, registry.entries[a]) /\ now \in Nat
  BY DEF RegistryIsTrue, Authority!Listed, AuthorityTyped, Authority!TypeOK
<1>q. QED BY <1>1 DEF Onward, EntryIsTrue

\* What a request was allowed on holds from then on: a revocation comes no earlier
\* than the receipt, which is young enough.
LEMMA HoldsOn ==
    ASSUME AuthorityTyped, Onward, NEW r \in Requests, NEW a \in Authorities, Holds(r, a),
           asked[r] # None
    PROVE  Holds(r, a)'
<1>1. now \in Nat /\ asked[r] \in Nat /\ asked'[r] = asked[r] /\ mandate'[a] = mandate[a]
  BY DEF AuthorityTyped, Authority!TypeOK, Instants, Onward, Holds
<1>2. PICK receipt \in receipts :
        /\ receipt.request = r /\ receipt.authority = a /\ receipt.signer = "verifier"
        /\ mandate[a].verifiedAt <= receipt.verifiedAt
        /\ receipt.verifiedAt <= asked[r] /\ asked[r] <= receipt.verifiedAt + MaxAge
  BY DEF Holds
<1>3. receipt.verifiedAt \in 0..now /\ receipt \in receipts'
  BY <1>2 DEF AuthorityTyped, Onward
<1>4. now + MaxAge >= asked[r]
  BY <1>1, <1>2, <1>3, AuthorityAssumption
<1>5. revokedAt'[a] = None \/ revokedAt'[a] + MaxAge >= asked[r]
  BY <1>4 DEF Holds, Onward
<1>q. QED BY <1>1, <1>2, <1>3, <1>5 DEF Holds

\* The conditions under which a request is allowed hold from then on.
LEMMA AllowedStays ==
    ASSUME AuthorityTyped, AllowedHolds, decision' = decision, Onward
    PROVE  AllowedHolds'
<1> SUFFICES ASSUME NEW r \in Requests, decision[r] # None PROVE Holds(r, decision[r])'
  BY DEF AllowedHolds
<1>1. decision[r] \in Authorities /\ asked[r] # None /\ Holds(r, decision[r])
  BY DEF AuthorityTyped, Authority!TypeOK, AllowedHolds
<1>2. PICK a \in Authorities : a = decision[r]
  BY <1>1
<1>3. Holds(r, a)'
  BY <1>1, <1>2, HoldsOn
<1>q. QED BY <1>2, <1>3 DEF Holds

\* An answer that allows has found one authority in force, and a receipt of the
\* verifier for this request.
LEMMA AnswerAllows ==
    ASSUME AuthorityTyped, RegistryIsTrue, NEW r \in Requests, asked[r] # None,
           NEW receipt \in receipts \cup {None}, NEW works \in BOOLEAN,
           Authority!Answer(registry, r, receipt, works).allowed
    PROVE  LET a == Authority!Answer(registry, r, receipt, works).authority
           IN  a \in Authorities /\ Holds(r, a)
  <1> DEFINE A == Authority!Answer(registry, r, receipt, works)
           at == asked[r]
           found == Authority!Candidates(registry, r)
           a == CHOOSE x \in found : TRUE
           entry == registry.entries[a]
<1>1. /\ Authority!RegistryStands(registry)
      /\ found # {} /\ entry.decision = "approved" /\ entry.status = "current"
      /\ ~(at < entry.from) /\ ~(at >= entry.until)
      /\ ~(entry.checkedAt > at) /\ ~(at - entry.checkedAt > MaxAge)
      /\ receipt # None /\ Authority!ReceiptMatches(receipt, a, r, registry)
      /\ ~(receipt.verifiedAt < entry.verifiedAt)
      /\ ~(receipt.verifiedAt > at) /\ ~(at - receipt.verifiedAt > MaxAge)
      /\ receipt.signer = receipt.by
      /\ A.authority = a
  BY DEF Authority!Answer, Authority!Denied
<1>2. a \in found
  BY <1>1
<1>3. a \in Authority!Listed(registry) /\ a \in Authorities /\ ScopeOf[r] \in Covers[a]
  BY <1>2 DEF Authority!Candidates, Authority!Listed
<1>4. EntryIsTrue(a, entry)
  BY <1>3 DEF RegistryIsTrue
<1>5. entry.approvedAt \in entry.from..entry.until
  BY <1>1, <1>3 DEF Authority!RegistryStands, Authority!Consistent
<1> HIDE DEF a, A
<1>6. /\ at \in Nat /\ entry.checkedAt \in Nat /\ revokedAt[a] \in Instants
      /\ mandate[a] \in Mandates
  BY <1>1, <1>3, <1>4 DEF AuthorityTyped, Authority!TypeOK, Instants, EntryIsTrue
<1>7. revokedAt[a] = None \/ revokedAt[a] + MaxAge >= at
  <2>1. revokedAt[a] = None \/ (revokedAt[a] \in Nat /\ revokedAt[a] >= entry.checkedAt)
    BY <1>1, <1>4, <1>6 DEF EntryIsTrue, Instants
  <2>q. QED BY <1>1, <1>6, <2>1, AuthorityAssumption
<1>8. /\ receipt \in receipts /\ receipt.verifiedAt \in Nat
      /\ receipt.request = r /\ receipt.authority = a /\ receipt.signer = "verifier"
  <2>1. receipt \in receipts
    BY <1>1
  <2>2. receipt.verifiedAt \in 0..now /\ now \in Nat
    BY <2>1 DEF AuthorityTyped, Authority!TypeOK
  <2>3. receipt.request = r /\ receipt.authority = a /\ receipt.by = "verifier"
    BY <1>1 DEF Authority!ReceiptMatches
  <2>q. QED BY <1>1, <2>1, <2>2, <2>3
<1>9. /\ mandate[a] # None
      /\ entry.from = mandate[a].from /\ entry.until = mandate[a].until
      /\ entry.approvedAt = mandate[a].approvedAt /\ entry.verifiedAt = mandate[a].verifiedAt
  BY <1>1, <1>4 DEF EntryIsTrue
<1>10. /\ mandate[a].from \in Nat /\ mandate[a].until \in Nat
       /\ mandate[a].approvedAt \in Nat /\ mandate[a].verifiedAt \in Nat
  BY <1>6 DEF Mandates
<1>11. /\ mandate[a].verifiedAt <= receipt.verifiedAt
       /\ receipt.verifiedAt <= at /\ at <= receipt.verifiedAt + MaxAge
  BY <1>1, <1>6, <1>8, <1>9, <1>10, AuthorityAssumption
<1>12. /\ mandate[a].approvedAt \in mandate[a].from..mandate[a].until
       /\ mandate[a].verifiedAt <= at /\ mandate[a].from <= at /\ at < mandate[a].until
  BY <1>1, <1>5, <1>6, <1>8, <1>9, <1>10, <1>11
<1>13. Holds(r, a)
  BY <1>3, <1>7, <1>8, <1>9, <1>11, <1>12 DEF Holds
<1>q. QED BY <1>1, <1>3, <1>13 DEF A

LEMMA ResolveKeeps == ASSUME AuthorityInv, NEW r \in Requests, Authority!Resolve(r) PROVE AuthorityInv'
<1>1. PICK receipt \in receipts \cup {None}, works \in BOOLEAN :
        /\ Authority!Answer(registry, r, receipt, works).allowed
        /\ decision' = [decision EXCEPT ![r] = Authority!Answer(registry, r, receipt, works).authority]
  BY DEF Authority!Resolve
<1>2. /\ UNCHANGED <<now, mandate, revokedAt, registry, asked, receipts, snapshots>>
      /\ asked[r] # None
  BY DEF Authority!Resolve, Authority!truths
<1>3. PICK a \in Authorities : a = Authority!Answer(registry, r, receipt, works).authority /\ Holds(r, a)
  BY <1>1, <1>2, AnswerAllows DEF AuthorityInv
<1>4. decision' = [decision EXCEPT ![r] = a]
  BY <1>1, <1>3
<1>5. AuthorityTyped'
  BY <1>2, <1>4 DEF AuthorityInv, AuthorityTyped, Authority!TypeOK
<1>6. RegistryIsTrue'
  BY <1>2 DEF AuthorityInv, RegistryIsTrue, EntryIsTrue, Authority!Listed
<1>7. ASSUME NEW q \in Requests, decision'[q] # None PROVE Holds(q, decision[q])'
  <2>1. CASE q = r
    <3>1. decision'[q] = a
      BY <1>4, <2>1 DEF AuthorityInv, AuthorityTyped
    <3>q. QED BY <1>2, <1>3, <2>1, <3>1 DEF Holds
  <2>2. CASE q # r
    <3>1. decision'[q] = decision[q]
      BY <1>4, <2>2 DEF AuthorityInv, AuthorityTyped
    <3>2. Holds(q, decision[q])
      BY <1>7, <3>1 DEF AuthorityInv, AllowedHolds
    <3>q. QED BY <1>2, <3>1, <3>2 DEF Holds
  <2>q. QED BY <2>1, <2>2
<1>8. AllowedHolds'
  BY <1>7 DEF AllowedHolds
<1>q. QED BY <1>5, <1>6, <1>8 DEF AuthorityInv

LEMMA PublishKeeps == ASSUME AuthorityInv, Authority!Publish PROVE AuthorityInv'
<1>1. /\ UNCHANGED <<now, mandate, revokedAt, asked, receipts, decision>>
      /\ snapshots < MaxSnapshots /\ snapshots' = snapshots + 1
  BY DEF Authority!Publish, Authority!truths
<1>2. PICK bases \in [Authorities -> Authority!Bases \cup {None}],
           checked \in [Authorities -> 0..now], asOf \in now..MaxDate :
        /\ \A a \in Authorities :
             \/ bases[a] = None /\ checked[a] = 0
             \/ bases[a] \in Authority!Proposed(a) \cup Authority!Granted(a)
        /\ registry' = Authority!Snapshot(bases, checked, asOf)
  BY DEF Authority!Publish
<1>a. registry'.entries = [a \in Authorities |->
         IF bases[a] = None THEN None ELSE Authority!Entry(a, bases[a], checked[a])]
  BY <1>2 DEF Authority!Snapshot
<1>3. ASSUME NEW a \in Authority!Listed(registry') PROVE EntryIsTrue(a, registry'.entries[a])
  <2>1. /\ a \in Authorities /\ registry'.entries[a] = Authority!Entry(a, bases[a], checked[a])
        /\ bases[a] \in Authority!Proposed(a) \cup Authority!Granted(a)
    BY <1>2, <1>a DEF Authority!Listed
  <2>2. now \in Nat /\ checked[a] \in 0..now /\ revokedAt[a] \in Instants
    BY <1>2, <2>1, AuthorityAssumption DEF AuthorityInv, AuthorityTyped, Authority!TypeOK
  <2>3. bases[a].decision = "approved" =>
          /\ mandate[a] # None
          /\ bases[a].from = mandate[a].from /\ bases[a].until = mandate[a].until
          /\ bases[a].approvedAt = mandate[a].approvedAt
          /\ bases[a].verifiedAt = mandate[a].verifiedAt
    BY <2>1 DEF Authority!Proposed, Authority!Granted
  <2>4. /\ registry'.entries[a].decision = bases[a].decision
        /\ registry'.entries[a].from = bases[a].from /\ registry'.entries[a].until = bases[a].until
        /\ registry'.entries[a].approvedAt = bases[a].approvedAt
        /\ registry'.entries[a].verifiedAt = bases[a].verifiedAt
        /\ registry'.entries[a].checkedAt = checked[a]
        /\ registry'.entries[a].status = Authority!StatusAt(a, checked[a])
    BY <2>1 DEF Authority!Entry
  <2>5. Authority!StatusAt(a, checked[a]) = "current" => revokedAt[a] = None \/ revokedAt[a] >= checked[a]
    BY <2>2 DEF Authority!StatusAt, Instants
  <2>q. QED BY <2>2, <2>3, <2>4, <2>5 DEF EntryIsTrue
<1>4. RegistryIsTrue'
  BY <1>1, <1>3 DEF RegistryIsTrue, EntryIsTrue, Authority!Listed
<1>5. AuthorityTyped'
  BY <1>1, AuthorityAssumption DEF AuthorityInv, AuthorityTyped, Authority!TypeOK
<1>6. AllowedHolds'
  BY <1>1 DEF AuthorityInv, AllowedHolds, Holds
<1>q. QED BY <1>4, <1>5, <1>6 DEF AuthorityInv

\* The clock, an approval, a revocation, a request and a receipt.
LEMMA OthersKeep ==
    ASSUME AuthorityInv,
           \/ Authority!Tick
           \/ \E a \in Authorities : Authority!Approve(a) \/ Authority!Revoke(a)
           \/ \E r \in Requests : Authority!Ask(r) \/ \E a \in Authorities : Authority!Sign(r, a)
    PROVE  AuthorityInv'
<1> USE DEF AuthorityInv
<1> DEFINE Quietly ==
         /\ Onward
         /\ registry' = registry /\ decision' = decision /\ snapshots' = snapshots
         /\ now' \in 0..MaxTime
         /\ \A a \in Authorities :
              mandate'[a] = mandate[a] \/ (mandate'[a] \in Mandates /\ mandate'[a].verifiedAt = now)
         /\ mandate' \in [Authorities -> Mandates \cup {None}]
         /\ revokedAt' \in [Authorities -> Instants]
         /\ asked' \in [Requests -> Instants]
         /\ \A x \in receipts' : x.verifiedAt \in 0..now'
<1>0. now \in Nat /\ now \in 0..MaxTime
  BY AuthorityAssumption DEF AuthorityTyped, Authority!TypeOK
<1>1. Quietly
  <2>1. CASE Authority!Tick
    BY <1>0, <2>1, AuthorityAssumption
    DEF Authority!Tick, Authority!truths, AuthorityTyped, Authority!TypeOK, Onward
  <2>2. ASSUME NEW a \in Authorities, Authority!Revoke(a) PROVE Quietly
    BY <1>0, <2>2 DEF Authority!Revoke, AuthorityTyped, Instants, Onward
  <2>3. ASSUME NEW a \in Authorities, Authority!Approve(a) PROVE Quietly
    <3>1. PICK term \in Terms[a], at \in 0..now : mandate' = [mandate EXCEPT ![a] =
            [from |-> term.from, until |-> term.until, approvedAt |-> at, verifiedAt |-> now]]
      BY <2>3 DEF Authority!Approve
    <3>2. term.from \in Nat /\ term.until \in Nat /\ at \in Nat
      BY <1>0, AuthorityAssumption
    <3> DEFINE given == [from |-> term.from, until |-> term.until, approvedAt |-> at, verifiedAt |-> now]
    <3>a. given \in Mandates /\ given.verifiedAt = now
      BY <1>0, <3>2 DEF Mandates
    <3>3. PICK m \in Mandates : mandate' = [mandate EXCEPT ![a] = m] /\ m.verifiedAt = now
      <4>1. mandate' = [mandate EXCEPT ![a] = given]
        BY <3>1
      <4> HIDE DEF given
      <4>q. QED BY <3>a, <4>1
    <3>q. QED BY <1>0, <2>3, <3>3 DEF Authority!Approve, AuthorityTyped, Onward
  <2>4. ASSUME NEW r \in Requests, Authority!Ask(r) PROVE Quietly
    <3>0. PICK at \in now..MaxDate : asked' = [asked EXCEPT ![r] = at]
      BY <2>4 DEF Authority!Ask
    <3>1. at \in Nat
      BY <1>0, AuthorityAssumption
    <3>q. QED BY <1>0, <2>4, <3>0, <3>1 DEF Authority!Ask, Authority!truths, AuthorityTyped, Instants, Onward
  <2>5. ASSUME NEW r \in Requests, NEW a \in Authorities, Authority!Sign(r, a) PROVE Quietly
    BY <1>0, <2>5 DEF Authority!Sign, Authority!truths, AuthorityTyped, Onward
  <2>q. QED BY <2>1, <2>2, <2>3, <2>4, <2>5
<1>2. RegistryIsTrue'
  BY <1>1, EntriesStayTrue
<1>3. AllowedHolds'
  BY <1>1, AllowedStays
<1>4. Authority!TypeOK'
  <2>1. \A r \in Requests : decision'[r] # None => asked'[r] # None
    BY <1>1 DEF AuthorityTyped, Authority!TypeOK, Onward
  <2>2. \A a \in Authorities : mandate'[a] # None => mandate'[a].verifiedAt \in 0..now'
    BY <1>0, <1>1 DEF AuthorityTyped, Authority!TypeOK, Onward
  <2>3. \A a \in Authorities : revokedAt'[a] = None \/ revokedAt'[a] \in 0..now'
    BY <1>0, <1>1 DEF AuthorityTyped, Authority!TypeOK, Onward
  <2>q. QED BY <1>1, <2>1, <2>2, <2>3 DEF Authority!TypeOK, AuthorityTyped
<1>5. AuthorityTyped'
  BY <1>1, <1>4 DEF AuthorityTyped
<1>q. QED BY <1>2, <1>3, <1>5

LEMMA AuthorityStays == AuthorityInv /\ [Authority!Next]_authority_vars => AuthorityInv'
<1> SUFFICES ASSUME AuthorityInv, [Authority!Next]_authority_vars PROVE AuthorityInv'
  OBVIOUS
<1>1. CASE UNCHANGED authority_vars
  BY <1>1 DEF authority_vars, AuthorityInv, AuthorityTyped, Authority!TypeOK, RegistryIsTrue,
     EntryIsTrue, Authority!Listed, AllowedHolds, Holds
<1>q. QED BY <1>1, ResolveKeeps, PublishKeeps, OthersKeep DEF Authority!Next

LEMMA AuthorityImplies == AuthorityInv => Authority!TypeOK /\ Authority!AllowedWasInForce
  BY DEF AuthorityInv, AuthorityTyped, AllowedHolds, Holds, Authority!AllowedWasInForce

-----------------------------------------------------------------------------
(* Profile validation.  A report that passes was judged in full, whatever  *)
(* the limit, and a publication check puts together only reports of one    *)
(* document whose digests are those of the plan.                           *)

Severities == {"Violation", "Warning", "Info"}
Releases == [Artifacts -> Bytes]

\* A scan counts; when it counted nothing, nothing was raised.
LEMMA Scans ==
    ASSUME NEW raised \in Seq(STRING)
    PROVE  /\ Validation!Scan(raised).found \in Nat
           /\ Validation!Scan(raised).found = 0 /\ ~Validation!Scan(raised).full => raised = <<>>
           /\ /\ Validation!Scan(raised).found = 0
              /\ ~Validation!Scan(raised).full
              <=> Validation!Scan(raised) = Validation!Empty
<1> DEFINE S == Validation!ToSet(raised)
<1>1. S = {raised[i] : i \in 1..Len(raised)}
  BY DEF Validation!ToSet
<1>2. IsFiniteSet(1..Len(raised))
  BY FS_Interval
<1>3. raised \in Surjection(1..Len(raised), S)
  BY <1>1 DEF Surjection
<1>4. IsFiniteSet(S)
  BY <1>2, <1>3, FS_Surjection
<1>5. Validation!Cardinality(S) = Cardinality(S)
  BY DEF Validation!Cardinality, Cardinality
<1>6. Cardinality(S) \in Nat
  BY <1>4, FS_CardinalityType
<1>7. S = {} => raised = <<>>
  BY <1>1
<1> HIDE DEF S
<1>8. Cardinality(S) = 0 => raised = <<>>
  BY <1>4, <1>7, FS_EmptySet
<1>9. Validation!Scan(raised) =
        [found |-> IF Cardinality(S) > MaxResults THEN MaxResults ELSE Cardinality(S),
         full |-> Cardinality(S) > MaxResults]
  BY <1>5 DEF Validation!Scan, S
<1>10. /\ Validation!Scan(raised).found =
             IF Cardinality(S) > MaxResults THEN MaxResults ELSE Cardinality(S)
       /\ Validation!Scan(raised).full = (Cardinality(S) > MaxResults)
  BY <1>9
<1>11. Validation!Scan(raised).found = 0 /\ ~Validation!Scan(raised).full
         <=> Validation!Scan(raised) = Validation!Empty
  <2> DEFINE n == IF Cardinality(S) > MaxResults THEN MaxResults ELSE Cardinality(S)
             f == Cardinality(S) > MaxResults
  <2>1. f \in BOOLEAN
    OBVIOUS
  <2>2. Validation!Scan(raised) = [found |-> n, full |-> f]
    BY <1>9
  <2> HIDE DEF n, f
  <2>3. f = FALSE <=> ~f
    BY <2>1
  <2>4. [found |-> n, full |-> f] = [found |-> 0, full |-> FALSE] <=> n = 0 /\ f = FALSE
    OBVIOUS
  <2>q. QED BY <2>2, <2>3, <2>4 DEF Validation!Empty
<1>q. QED BY <1>6, <1>8, <1>10, <1>11, ValidationAssumption

\* What passes the gate is acceptable by every result it raised.
LEMMA PassedIsAcceptable ==
    ASSUME NEW name \in Conformances \cup {Publication}, NEW release \in Releases,
           NEW d \in Documents, Validation!GatePassed(name, release, d)
    PROVE  Validation!Acceptable(name, release[ShapesOf[name]], d)
<1> DEFINE safety == Validation!SafetyScan(d)
           clean == safety = Validation!Empty
           routing == IF clean THEN Validation!RoutingScan(name, d) ELSE Validation!Empty
           judges == clean /\ routing = Validation!Empty
           results == Results[name][release[ShapesOf[name]]][d]
           shacl == IF judges THEN SubSeq(results, 1, IF Len(results) > MaxResults THEN MaxResults + 1 ELSE Len(results))
                    ELSE <<>>
           network == IF judges /\ name = "network" /\ shacl = <<>> /\ ~NetworkHolds[release["network"]][d]
                      THEN <<"Violation">> ELSE <<>>
           preflight == [i \in 1..(safety.found + routing.found) |-> "Violation"]
           judgement == shacl \o network
           kept == SubSeq(judgement, 1, IF Len(judgement) > MaxResults THEN MaxResults ELSE Len(judgement))
           full == safety.full \/ routing.full \/ Len(judgement) > MaxResults
<1>1. Validation!Passes(name, preflight \o kept, full)
  BY DEF Validation!GatePassed
<1>2. results \in Seq(Severities)
  BY ValidationAssumption DEF Releases, Severities
<1>3. /\ safety.found \in Nat
      /\ safety.found = 0 /\ ~safety.full => Raised[d] = <<>>
      /\ clean <=> safety.found = 0 /\ ~safety.full
  <2>1. Raised[d] \in Seq(STRING)
    BY ValidationAssumption
  <2>q. QED BY <2>1, Scans DEF Validation!SafetyScan
<1>4. /\ routing.found \in Nat
      /\ clean /\ routing.found = 0 /\ ~routing.full /\ name = "core" => Routed[d] = <<>>
      /\ routing = Validation!Empty <=> routing.found = 0 /\ ~routing.full
  <2>1. Routed[d] \in Seq(STRING)
    BY ValidationAssumption
  <2>q. QED BY <2>1, Scans DEF Validation!RoutingScan, Validation!Empty
<1>6. shacl \in Seq(Severities)
  BY <1>2, ValidationAssumption
<1>7. network \in Seq(Severities)
  <2>1. <<>> \in Seq(Severities) /\ <<"Violation">> \in Seq(Severities)
    BY DEF Severities
  <2>q. QED BY <2>1
<1> HIDE DEF safety, routing, results, shacl, network
<1>8. judgement \in Seq(Severities)
  BY <1>6, <1>7
<1> HIDE DEF judgement
<1>9. kept \in Seq(Severities)
  BY <1>8, ValidationAssumption
<1>10. preflight \in Seq(Severities) /\ Len(preflight) = safety.found + routing.found
  BY <1>3, <1>4 DEF Severities
<1>11. ~full /\ "Violation" \notin Validation!ToSet(preflight \o kept)
       /\ (name = Publication => "Warning" \notin Validation!ToSet(preflight \o kept))
  BY <1>1 DEF Validation!Passes, Validation!Gate
<1>12. \A i \in 1..Len(preflight) : preflight[i] = "Violation"
  BY <1>10
<1>17. kept = judgement
  BY <1>8, <1>11
<1> HIDE DEF preflight, kept
<1>13. Len(preflight) = 0
  <2>1. ASSUME Len(preflight) # 0 PROVE FALSE
    <3>1. 1 \in DOMAIN (preflight \o kept) /\ (preflight \o kept)[1] = "Violation"
      BY <1>9, <1>10, <1>12, <1>3, <1>4, <2>1
    <3>q. QED BY <1>11, <3>1 DEF Validation!ToSet
  <2>q. QED BY <2>1
<1>14. safety.found = 0 /\ routing.found = 0
  BY <1>3, <1>4, <1>10, <1>13
<1>15. clean /\ judges /\ Raised[d] = <<>> /\ (name = "core" => Routed[d] = <<>>)
  BY <1>3, <1>4, <1>11, <1>14
<1>16. preflight \o kept = kept
  <2>1. preflight = <<>>
    BY <1>10, <1>13
  <2>q. QED BY <1>9, <2>1
<1>18. shacl = results
  <2>1. Len(judgement) = Len(shacl) + Len(network)
    BY <1>6, <1>7 DEF judgement
  <2>2. Len(judgement) <= MaxResults
    BY <1>8, <1>11, ValidationAssumption
  <2>3. Len(results) <= MaxResults
    BY <1>2, <1>6, <1>7, <1>15, <2>1, <2>2, ValidationAssumption DEF shacl
  <2>q. QED BY <1>2, <1>15, <2>3, ValidationAssumption DEF shacl
<1>19. \A i \in 1..Len(results) : results[i] = kept[i] /\ i \in 1..Len(kept)
  <2>1. judgement = results \o network
    BY <1>18 DEF judgement
  <2>q. QED BY <1>2, <1>7, <1>17, <2>1
<1>20. /\ "Violation" \notin Validation!ToSet(results)
       /\ name = Publication => "Warning" \notin Validation!ToSet(results)
  <2>1. \A x \in Validation!ToSet(results) : x \in Validation!ToSet(kept)
    BY <1>2, <1>9, <1>19 DEF Validation!ToSet
  <2>q. QED BY <1>11, <1>16, <2>1
<1>q. QED BY <1>15, <1>20 DEF Validation!Acceptable, results

\* What a report says is true of the document it names.
GoodReport(n, report) ==
    report.passed => Validation!Acceptable(n, report.digest[2], report.input)

\* What the reader has read of a release is of the release.
ReaderHolds ==
    /\ reader.lock = None \/ reader.lock \in Releases
    /\ reader = [manifest |-> reader.manifest, lock |-> reader.lock, bytes |-> reader.bytes]

\* The second profile is judged when the first has been.
RoundsFollow ==
    /\ pc \in {"isolate", "work"} =>
         /\ round \in Validation!ToSet(Validation!Planned)
         /\ round # profile => profile \in DOMAIN reports /\ round = Publication
    /\ pc \in {"compose", "write"} => Validation!ToSet(Validation!Planned) \subseteq DOMAIN reports

ReportsAreGood ==
    /\ mail # None => pc = "work" /\ GoodReport(round, mail)
    /\ \A n \in DOMAIN reports : GoodReport(n, reports[n])

PlanIsWhole == order = <<>> \/ DOMAIN order = Validation!ToSet(Validation!Planned)

\* What is composed is of one plan and of one document.
VerdictIsWhole ==
    /\ pc = "write" => Validation!SamePlan(reports) /\ Validation!SameInput(reports)
    /\ verdict.passed => pc = "ended"

ValidationTyped ==
    /\ Validation!TypeOK
    /\ profile \in Conformances \cup {Publication}

ValidationInv ==
    /\ ValidationTyped /\ ReaderHolds /\ RoundsFollow /\ ReportsAreGood
    /\ PlanIsWhole /\ VerdictIsWhole /\ Validation!PassIsOneJudgement

LEMMA PlannedProfiles ==
    /\ profile \in Validation!ToSet(Validation!Planned)
    /\ Validation!ToSet(Validation!Planned) \subseteq {profile, Publication}
    /\ Validation!Planned[Len(Validation!Planned)] \in {profile, Publication}
    /\ Validation!ToSet(Validation!Planned) =
         {profile, Validation!Planned[Len(Validation!Planned)]}
<1>1. CASE command = "composite"
  <2>1. Validation!Planned = <<profile, Publication>>
    BY <1>1 DEF Validation!Planned
  <2>q. QED BY <2>1 DEF Validation!ToSet
<1>2. CASE command # "composite"
  <2>1. Validation!Planned = <<profile>>
    BY <1>2 DEF Validation!Planned
  <2>q. QED BY <2>1 DEF Validation!ToSet
<1>q. QED BY <1>1, <1>2

LEMMA ValidationStarts == Validation!Init => ValidationInv
<1> SUFFICES ASSUME Validation!Init PROVE ValidationInv
  OBVIOUS
<1>1. bytes \in [Artifacts -> Bytes] /\ pinned = bytes
  BY DEF Validation!Init
<1>2. ValidationTyped
  BY <1>1, ValidationAssumption DEF Validation!Init, ValidationTyped, Validation!TypeOK,
     Validation!AllProfiles
<1>3. ReaderHolds
  BY DEF Validation!Init, ReaderHolds, Validation!Nothing
<1>4. RoundsFollow /\ ReportsAreGood /\ PlanIsWhole
  BY DEF Validation!Init, RoundsFollow, ReportsAreGood, PlanIsWhole
<1>5. VerdictIsWhole /\ Validation!PassIsOneJudgement
  BY DEF Validation!Init, VerdictIsWhole, Validation!PassIsOneJudgement, Validation!Without
<1>q. QED BY <1>2, <1>3, <1>4, <1>5 DEF ValidationInv

\* While command and profile stay, so does what was planned; a judgement that was
\* printed is of reports and a plan that nothing changes any more.
LEMMA JudgementStays ==
    ASSUME ValidationInv, UNCHANGED <<command, profile, order, reports, verdict>>
    PROVE  /\ PlanIsWhole' /\ Validation!PassIsOneJudgement'
           /\ Validation!Planned' = Validation!Planned
           /\ Validation!SamePlan(reports)' = Validation!SamePlan(reports)
           /\ Validation!SameInput(reports)' = Validation!SameInput(reports)
  BY DEF ValidationInv, PlanIsWhole, Validation!PassIsOneJudgement, Validation!Planned,
     Validation!SamePlan, Validation!SameInput

\* Others edit, or the reader reads.
LEMMA EditsKeep ==
    ASSUME ValidationInv,
           UNCHANGED <<command, profile, pc, order, fixed, round, mail, reports, verdict>>,
           ValidationTyped', ReaderHolds'
    PROVE  ValidationInv'
<1>1. RoundsFollow' /\ ReportsAreGood' /\ VerdictIsWhole'
  BY JudgementStays DEF ValidationInv, RoundsFollow, ReportsAreGood, VerdictIsWhole, GoodReport,
     Validation!Acceptable
<1>q. QED BY <1>1, JudgementStays DEF ValidationInv

LEMMA ReadersKeep ==
    ASSUME ValidationInv,
           Validation!ReadManifest \/ Validation!ReadLock \/ Validation!ReadArtifact
    PROVE  ValidationInv'
<1>1. /\ UNCHANGED <<command, profile, pc, order, fixed, round, mail, reports, verdict>>
      /\ UNCHANGED <<bytes, pinned, document, target, changes>>
  BY DEF Validation!ReadManifest, Validation!ReadLock, Validation!ReadArtifact, Validation!World,
     Validation!Job
<1>2. ReaderHolds'
  BY DEF ValidationInv, ReaderHolds, ValidationTyped, Validation!TypeOK, Releases,
     Validation!ReadManifest, Validation!ReadLock, Validation!ReadArtifact
<1>3. ValidationTyped'
  BY <1>1 DEF ValidationInv, ValidationTyped, Validation!TypeOK
<1>q. QED BY <1>1, <1>2, <1>3, EditsKeep

LEMMA EditorsKeep ==
    ASSUME ValidationInv,
           \/ Validation!EditArtifact \/ Validation!Relock
           \/ Validation!EditDocument \/ Validation!TakeTarget
    PROVE  ValidationInv'
<1>1. UNCHANGED <<command, profile, pc, reader, order, fixed, round, mail, reports, verdict>>
  BY DEF Validation!EditArtifact, Validation!Relock, Validation!EditDocument,
     Validation!TakeTarget, Validation!Edited, Validation!Job
<1>2. ReaderHolds'
  BY <1>1 DEF ValidationInv, ReaderHolds
<1>3. ValidationTyped'
  <2>1. /\ changes' \in 0..ValidationEdits
        /\ bytes' \in [Artifacts -> Bytes] /\ pinned' \in [Artifacts -> Bytes]
        /\ document' \in Documents /\ target' \in {"absent", "file", "directory", "input"}
    <3> USE ValidationAssumption DEF ValidationInv, ValidationTyped, Validation!TypeOK, Validation!Edited
    <3>1. CASE Validation!EditArtifact
      BY <3>1 DEF Validation!EditArtifact
    <3>2. CASE Validation!Relock
      BY <3>2 DEF Validation!Relock
    <3>3. CASE Validation!EditDocument
      BY <3>3 DEF Validation!EditDocument
    <3>4. CASE Validation!TakeTarget
      BY <3>4 DEF Validation!TakeTarget
    <3>q. QED BY <3>1, <3>2, <3>3, <3>4
  <2>q. QED BY <1>1, <2>1 DEF ValidationInv, ValidationTyped, Validation!TypeOK
<1>q. QED BY <1>1, <1>2, <1>3, EditsKeep

\* The command ends without a judgement.
LEMMA EndsKeep ==
    ASSUME ValidationInv, NEW reason, Validation!Ends(reason) PROVE ValidationInv'
<1>1. /\ pc' = "ended" /\ verdict'.passed = FALSE /\ mail' = None
      /\ reader' = Validation!Nothing
      /\ UNCHANGED <<bytes, pinned, document, target, changes>>
      /\ UNCHANGED <<command, profile, order, fixed, round, reports>>
  BY DEF Validation!Ends, Validation!Without, Validation!World, Validation!Job
<1>2. ValidationTyped'
  BY <1>1 DEF ValidationInv, ValidationTyped, Validation!TypeOK
<1>3. ReaderHolds'
  BY <1>1 DEF ReaderHolds, Validation!Nothing
<1>4. RoundsFollow' /\ VerdictIsWhole' /\ Validation!PassIsOneJudgement'
  BY <1>1 DEF RoundsFollow, VerdictIsWhole, Validation!PassIsOneJudgement
<1>5. ReportsAreGood'
  BY <1>1 DEF ValidationInv, ReportsAreGood, GoodReport, Validation!Acceptable
<1>6. PlanIsWhole'
  BY <1>1 DEF ValidationInv, PlanIsWhole, Validation!Planned
<1>q. QED BY <1>2, <1>3, <1>4, <1>5, <1>6 DEF ValidationInv

LEMMA StartKeeps == ASSUME ValidationInv, Validation!Start PROVE ValidationInv'
<1>1. /\ pc = "start" /\ pc' \in {"isolate", "plan"}
      /\ pc' = "isolate" => round' = profile
      /\ round' \in {profile, None}
      /\ UNCHANGED <<bytes, pinned, document, target, changes>>
      /\ UNCHANGED <<command, profile, reader, order, fixed, mail, reports, verdict>>
  BY DEF Validation!Start, Validation!World, Validation!Job
<1>2. ValidationTyped'
  BY <1>1 DEF ValidationInv, ValidationTyped, Validation!TypeOK, Validation!AllProfiles
<1>3. ReaderHolds' /\ VerdictIsWhole'
  BY <1>1 DEF ValidationInv, ReaderHolds, VerdictIsWhole
<1>4. RoundsFollow'
  <2>1. Validation!Planned' = Validation!Planned /\ profile' = profile
    BY <1>1, JudgementStays
  <2>2. pc' \in {"isolate", "work"} => round' = profile'
    BY <1>1, <2>1
  <2>3. pc' \notin {"compose", "write"}
    BY <1>1
  <2>4. profile' \in Validation!ToSet(Validation!Planned)'
    BY <2>1, PlannedProfiles
  <2>q. QED BY <2>2, <2>3, <2>4 DEF RoundsFollow
<1>5. ReportsAreGood'
  BY <1>1 DEF ValidationInv, ReportsAreGood, GoodReport, Validation!Acceptable, RoundsFollow
<1>q. QED BY <1>1, <1>2, <1>3, <1>4, <1>5, JudgementStays DEF ValidationInv

LEMMA PlanKeeps == ASSUME ValidationInv, Validation!Plan PROVE ValidationInv'
<1>1. /\ pc = "plan" /\ pc' = "isolate" /\ round' = profile
      /\ reader' = Validation!Nothing
      /\ DOMAIN order' = Validation!ToSet(Validation!Planned)
      /\ UNCHANGED <<bytes, pinned, document, target, changes>>
      /\ UNCHANGED <<command, profile, mail, reports, verdict>>
  BY DEF Validation!Plan, Validation!World, Validation!Job
<1>2. ValidationTyped'
  BY <1>1 DEF ValidationInv, ValidationTyped, Validation!TypeOK, Validation!AllProfiles
<1>3. ReaderHolds' /\ VerdictIsWhole'
  BY <1>1 DEF ValidationInv, ReaderHolds, VerdictIsWhole, Validation!Nothing
<1>4. Validation!Planned' = Validation!Planned
  BY <1>1 DEF Validation!Planned
<1>5. RoundsFollow' /\ PlanIsWhole'
  BY <1>1, <1>4, PlannedProfiles DEF RoundsFollow, PlanIsWhole
<1>6. ReportsAreGood'
  BY <1>1 DEF ValidationInv, ReportsAreGood, GoodReport, Validation!Acceptable
<1>7. Validation!PassIsOneJudgement'
  BY <1>1 DEF ValidationInv, VerdictIsWhole, Validation!PassIsOneJudgement
<1>q. QED BY <1>2, <1>3, <1>5, <1>6, <1>7 DEF ValidationInv

LEMMA IsolateKeeps == ASSUME ValidationInv, Validation!Isolate PROVE ValidationInv'
<1>1. /\ pc = "isolate" /\ pc' = "work"
      /\ UNCHANGED <<bytes, pinned, document, target, changes>>
      /\ UNCHANGED <<command, profile, reader, order, fixed, round, mail, reports, verdict>>
  BY DEF Validation!Isolate, Validation!World, Validation!Job
<1>2. ValidationTyped' /\ ReaderHolds' /\ VerdictIsWhole'
  BY <1>1 DEF ValidationInv, ValidationTyped, Validation!TypeOK, ReaderHolds, VerdictIsWhole
<1>3. RoundsFollow'
  BY <1>1, JudgementStays DEF ValidationInv, RoundsFollow
<1>4. ReportsAreGood'
  BY <1>1 DEF ValidationInv, ReportsAreGood, GoodReport, Validation!Acceptable
<1>q. QED BY <1>1, <1>2, <1>3, <1>4, JudgementStays DEF ValidationInv

\* What the worker posts is what the gate says of a release that was verified and
\* of the document as it is.
LEMMA WorkerPostKeeps == ASSUME ValidationInv, Validation!Worker_Post PROVE ValidationInv'
<1>1. /\ pc = "work" /\ mail' = Validation!Report(round, reader.bytes, document)
      /\ reader.bytes = reader.lock /\ reader.lock # None
      /\ UNCHANGED <<bytes, pinned, document, target, changes>>
      /\ UNCHANGED <<command, profile, pc, reader, order, fixed, round, reports, verdict>>
  BY DEF Validation!Worker_Post, Validation!Verified, Validation!Complete, Validation!World,
     Validation!Job
<1>2. ValidationTyped' /\ ReaderHolds' /\ VerdictIsWhole'
  BY <1>1 DEF ValidationInv, ValidationTyped, Validation!TypeOK, ReaderHolds, VerdictIsWhole
<1>3. RoundsFollow'
  BY <1>1, JudgementStays DEF ValidationInv, RoundsFollow
<1>4. GoodReport(round, mail')
  <2>1. reader.bytes \in Releases /\ document \in Documents
    BY <1>1 DEF ValidationInv, ReaderHolds, ValidationTyped, Validation!TypeOK
  <2>2. round \in Conformances \cup {Publication}
    BY <1>1, PlannedProfiles DEF ValidationInv, ValidationTyped, RoundsFollow
  <2>3. /\ mail'.passed = Validation!GatePassed(round, reader.bytes, document)
        /\ mail'.digest[2] = reader.bytes[ShapesOf[round]] /\ mail'.input = document
    BY <1>1 DEF Validation!Report, Validation!Digest
  <2>q. QED BY <2>1, <2>2, <2>3, PassedIsAcceptable DEF GoodReport
<1>5. ReportsAreGood'
  BY <1>1, <1>4 DEF ValidationInv, ReportsAreGood, GoodReport, Validation!Acceptable
<1>q. QED BY <1>1, <1>2, <1>3, <1>5, JudgementStays DEF ValidationInv

LEMMA ReceiveKeeps == ASSUME ValidationInv, Validation!Receive PROVE ValidationInv'
<1> DEFINE final == Validation!Planned[Len(Validation!Planned)]
<1>1. /\ pc = "work" /\ mail # None /\ mail' = None /\ reader' = Validation!Nothing
      /\ reports' = [n \in DOMAIN reports \cup {round} |-> IF n = round THEN mail ELSE reports[n]]
      /\ IF round = final THEN pc' = "compose" /\ round' = round
         ELSE pc' = "isolate" /\ round' = Publication
      /\ UNCHANGED <<bytes, pinned, document, target, changes>>
      /\ UNCHANGED <<command, profile, order, fixed, verdict>>
  BY DEF Validation!Receive, Validation!World, Validation!Job
<1>2. Validation!Planned' = Validation!Planned
  BY <1>1 DEF Validation!Planned
<1>3. /\ round \in Validation!ToSet(Validation!Planned)
      /\ round # profile => profile \in DOMAIN reports /\ round = Publication
  BY <1>1 DEF ValidationInv, RoundsFollow
<1>4. /\ Validation!ToSet(Validation!Planned) = {profile, final} /\ final \in {profile, Publication}
      /\ DOMAIN reports' = DOMAIN reports \cup {round}
  BY <1>1, PlannedProfiles
<1> HIDE DEF final
<1>5. RoundsFollow'
  BY <1>1, <1>2, <1>3, <1>4 DEF RoundsFollow
<1>6. ValidationTyped'
  BY <1>1, <1>3, <1>4 DEF ValidationInv, ValidationTyped, Validation!TypeOK, Validation!AllProfiles
<1>7. ReportsAreGood'
  BY <1>1 DEF ValidationInv, ReportsAreGood, GoodReport, Validation!Acceptable
<1>8. ReaderHolds' /\ VerdictIsWhole' /\ Validation!PassIsOneJudgement'
  BY <1>1 DEF ValidationInv, ReaderHolds, VerdictIsWhole, Validation!Nothing,
     Validation!PassIsOneJudgement
<1>9. PlanIsWhole'
  BY <1>1, <1>2 DEF ValidationInv, PlanIsWhole
<1>q. QED BY <1>5, <1>6, <1>7, <1>8, <1>9 DEF ValidationInv

LEMMA ComposeKeeps == ASSUME ValidationInv, Validation!Compose PROVE ValidationInv'
<1>1. /\ pc = "compose" /\ pc' \in {"write", "ended"}
      /\ pc' = "write" => /\ Validation!SamePlan(reports) /\ Validation!SameInput(reports)
                          /\ verdict' = verdict
      /\ pc' = "ended" => verdict'.passed = FALSE
      /\ UNCHANGED <<bytes, pinned, document, target, changes>>
      /\ UNCHANGED <<command, profile, reader, order, fixed, round, mail, reports>>
  BY DEF Validation!Compose, Validation!Without, Validation!World, Validation!Job
<1>2. /\ ValidationTyped' /\ ReaderHolds'
  BY <1>1 DEF ValidationInv, ValidationTyped, Validation!TypeOK, ReaderHolds
<1>3. Validation!Planned' = Validation!Planned
  BY <1>1 DEF Validation!Planned
<1>4. RoundsFollow' /\ PlanIsWhole'
  BY <1>1, <1>3 DEF ValidationInv, RoundsFollow, PlanIsWhole
<1>5. ReportsAreGood'
  BY <1>1 DEF ValidationInv, ReportsAreGood, GoodReport, Validation!Acceptable
<1>6. ~verdict'.passed
  BY <1>1 DEF ValidationInv, VerdictIsWhole
<1>7. VerdictIsWhole' /\ Validation!PassIsOneJudgement'
  BY <1>1, <1>6 DEF VerdictIsWhole, Validation!SamePlan, Validation!SameInput,
     Validation!PassIsOneJudgement
<1>q. QED BY <1>2, <1>4, <1>5, <1>7 DEF ValidationInv

LEMMA WriteKeeps ==
    ASSUME ValidationInv, NEW wanted \in BOOLEAN, Validation!Write(wanted) PROVE ValidationInv'
<1>1. /\ pc = "write" /\ pc' = "ended"
      /\ verdict' = Validation!Composed \/ verdict'.passed = FALSE
      /\ target' \in {target, "file"}
      /\ UNCHANGED <<bytes, pinned, document, changes>>
      /\ UNCHANGED <<command, profile, reader, order, fixed, round, mail, reports>>
  BY DEF Validation!Write, Validation!Without, Validation!Job
<1>2. /\ ValidationTyped' /\ ReaderHolds' /\ VerdictIsWhole'
  BY <1>1 DEF ValidationInv, ValidationTyped, Validation!TypeOK, ReaderHolds, VerdictIsWhole
<1>3. Validation!Planned' = Validation!Planned
  BY <1>1 DEF Validation!Planned
<1>4. RoundsFollow' /\ PlanIsWhole'
  BY <1>1, <1>3 DEF ValidationInv, RoundsFollow, PlanIsWhole
<1>5. ReportsAreGood'
  BY <1>1 DEF ValidationInv, ReportsAreGood, GoodReport, Validation!Acceptable
<1>6. ASSUME verdict'.passed, NEW n \in Validation!ToSet(Validation!Planned)
      PROVE  Validation!Acceptable(n, IF order = <<>> THEN reports[n].digest[2] ELSE order[n][2], verdict'.input)
  <2>1. /\ verdict'.input = reports[profile].input
        /\ \A m \in DOMAIN reports : reports[m].passed
    BY <1>1, <1>6 DEF Validation!Composed
  <2>2. n \in DOMAIN reports /\ profile \in DOMAIN reports
    BY <1>1, PlannedProfiles DEF ValidationInv, RoundsFollow
  <2>3. Validation!Acceptable(n, reports[n].digest[2], reports[n].input)
    BY <2>1, <2>2 DEF ValidationInv, ReportsAreGood, GoodReport
  <2>4. reports[n].input = verdict'.input
    BY <1>1, <2>1, <2>2 DEF ValidationInv, VerdictIsWhole, Validation!SameInput
  <2>5. order # <<>> => order[n] = reports[n].digest
    BY <1>1 DEF ValidationInv, VerdictIsWhole, PlanIsWhole, Validation!SamePlan
  <2>q. QED BY <2>3, <2>4, <2>5
<1>7. Validation!PassIsOneJudgement'
  BY <1>1, <1>3, <1>6 DEF Validation!PassIsOneJudgement, Validation!Acceptable
<1>q. QED BY <1>2, <1>4, <1>5, <1>7 DEF ValidationInv

LEMMA ValidationStays == ValidationInv /\ [Validation!Next]_validation_vars => ValidationInv'
<1> SUFFICES ASSUME ValidationInv, [Validation!Next]_validation_vars PROVE ValidationInv'
  OBVIOUS
<1>1. ASSUME UNCHANGED validation_vars PROVE ValidationInv'
  <2>1. /\ UNCHANGED <<bytes, pinned, document, target, changes>>
        /\ UNCHANGED <<command, profile, pc, reader, order, fixed, round, mail, reports, verdict>>
    BY <1>1 DEF validation_vars
  <2>2. ValidationTyped' /\ ReaderHolds'
    BY <2>1 DEF ValidationInv, ValidationTyped, Validation!TypeOK, ReaderHolds
  <2>q. QED BY <2>1, <2>2, EditsKeep
<1>2. ASSUME \/ Validation!Start_Refused \/ Validation!Refuse
             \/ Validation!Worker_Fails \/ Validation!Timer
      PROVE  ValidationInv'
  BY <1>2, EndsKeep DEF Validation!Start_Refused, Validation!Refuse, Validation!Worker_Fails,
     Validation!Timer
<1>q. QED BY <1>1, <1>2, StartKeeps, ReadersKeep, EditorsKeep, PlanKeeps, IsolateKeeps,
             WorkerPostKeeps, ReceiveKeeps, ComposeKeeps, WriteKeeps DEF Validation!Next

LEMMA ValidationImplies == ValidationInv => Validation!TypeOK /\ Validation!PassIsOneJudgement
  BY DEF ValidationInv, ValidationTyped


-----------------------------------------------------------------------------
(* The release gate.  Everybody reads the directory as it is then; what    *)
(* each holds is bound to the lock that it read first.                     *)

FileSets == {d \in [Gate!Files -> Nat] : \A f \in Gate!Files : d[f] \in Revisions[f]}

Reports ==
    [lock : FileSets, registry : Nat \cup {None}, bundle : Nat \cup {None},
     traced : Nat \X Nat, eligible : BOOLEAN]

Shelves == [Gate!Kinds -> Reports \cup {None}]

Runs ==
    [kind : Gate!Kinds, command : {"candidate", "capture", "verify"},
     todo : SUBSET {"lock", "inputs"}, manifest : Nat, lock : FileSets,
     status : {"pending", "verified"}, registry : Nat \cup {None},
     traced : (Nat \X Nat) \cup {None}, bundle : Nat \cup {None}]

JudgedItems ==
    {"RA-REQUIREMENTS", "RA-RUNTIME", "RA-MULTI-ENGINE-MATRIX", "RA-SERIALIZATION-PARITY", "RA-LOCK"}

Gates ==
    [at : {"register", "korean", "checks", "evidence", "waiting", "terminal", "git", "done"},
     manifest : Nat, register : Nat \cup {None},
     todo : SUBSET {"lock", "artifacts", "git", "trace"},
     lock1 : FileSets \cup {None}, held : BOOLEAN,
     git1 : [clean : BOOLEAN, head : Nat] \cup {None}, traced : BOOLEAN, next : Nat,
     item : JudgedItems \cup {None}, invalid : SUBSET JudgedItems, coverage : Nat \cup {None},
     matrix : Reports \cup {None}, lock2 : FileSets \cup {None},
     decision : [candidate : BOOLEAN, recommendation : BOOLEAN] \cup {None}]

DirectoryTyped ==
    /\ disk \in FileSets /\ lock \in FileSets /\ korean \in DOMAIN Blindspots
    /\ relock \in FileSets \cup {None}
    /\ candidate \in Shelves /\ evidence \in Shelves
    /\ committed.disk \in FileSets /\ committed.lock \in FileSets
    /\ committed.korean \in DOMAIN Blindspots /\ committed.evidence \in Shelves
    /\ edits \in 0..ReleaseEdits /\ runs \in 0..MaxRuns /\ head \in 0..MaxCommits

IsLocked(report) ==
    report # None /\ report.eligible =>
        report.registry = report.lock["registry"] /\ report.bundle = report.lock["bundle"]

ShelvesAreLocked ==
    /\ IsLocked(candidate["matrix"]) /\ IsLocked(evidence["matrix"])
    /\ IsLocked(committed.evidence["matrix"])

\* The matrix reads nothing before its lock check, and then what that check took.
RunStands ==
    run # None =>
        /\ run \in Runs
        /\ run.bundle # None => run.todo = {}
        /\ "inputs" \notin run.todo => run.registry \in Nat /\ run.traced \in Nat \X Nat
        /\ run.kind = "matrix" =>
             /\ "lock" \in run.todo => "inputs" \in run.todo
             /\ run.status = "verified" =>
                  /\ "inputs" \notin run.todo => run.registry = run.lock["registry"]
                  /\ run.bundle # None => run.bundle = run.lock["bundle"]
        /\ run.command = "verify" => gate.at = "waiting"

\* Evidence that the gate did not reject is of the lock it read first.
EvidenceStands ==
    /\ gate.next > 2 /\ "RA-REQUIREMENTS" \notin gate.invalid =>
         gate.held /\ gate.coverage = gate.lock1["coverage"] /\ gate.coverage \in Unblocked
    /\ gate.next > 4 /\ "RA-MULTI-ENGINE-MATRIX" \notin gate.invalid =>
         /\ gate.held /\ gate.matrix.lock = gate.lock1
         /\ gate.matrix.registry = gate.lock1["registry"]
         /\ gate.matrix.bundle = gate.lock1["bundle"]

StagesFollow ==
    /\ gate.next # 0
    /\ gate.at \in {"register", "korean", "checks"} => gate.next = 1
    /\ gate.at \in {"register", "korean"} => gate.todo = {"lock", "artifacts", "git", "trace"}
    /\ gate.at \in {"korean", "checks", "evidence", "waiting", "terminal", "git"} =>
         /\ gate.register \in Revisions["register"]
         /\ Gate!RegisterStands(AcceptanceOf[gate.register])
    /\ gate.at \in {"evidence", "waiting", "terminal", "git"} => gate.todo = {}
    /\ gate.at = "waiting" => gate.next > 4 /\ gate.item \in JudgedItems
    /\ gate.at \in {"terminal", "git"} => gate.next > 6
    /\ "lock" \in gate.todo => "artifacts" \in gate.todo
    /\ "artifacts" \in gate.todo => ~gate.held
    /\ "lock" \notin gate.todo => gate.lock1 \in FileSets
    /\ gate.held => gate.lock1 \in FileSets /\ gate.lock1["manifest"] = gate.manifest

LockStands ==
    gate.at = "git" /\ "RA-LOCK" \notin gate.invalid =>
        gate.held /\ gate.lock1 = gate.lock2 /\ gate.register = gate.lock1["register"]

GateStands ==
    /\ gate = Gate!Idle \/ gate \in Gates
    /\ gate.at # "idle" => EvidenceStands /\ StagesFollow /\ LockStands
    /\ Gate!EligibleIsOneLock

\* A signer found nothing signed, and a verifier finds what was.
SignatureStands ==
    /\ signing # None => /\ signing.command = "sign" => signature = None
                         /\ signing.command = "verify" => signature # None
                         /\ signing.command \in {"sign", "verify"}
    /\ signature # None => signature.files = signature.lock
    /\ accepted # None => /\ accepted \in FileSets /\ signature # None
                          /\ accepted = signature.files

ReleaseInv ==
    DirectoryTyped /\ ShelvesAreLocked /\ RunStands /\ GateStands /\ SignatureStands

LEMMA EvidenceIs ==
    /\ Len(Gate!EvidenceOf) = 6
    /\ Gate!EvidenceOf[1] = [item |-> "RA-REQUIREMENTS", kind |-> "traceability"]
    /\ Gate!EvidenceOf[2] = [item |-> "RA-REQUIREMENTS", kind |-> "coverage"]
    /\ Gate!EvidenceOf[3] = [item |-> "RA-RUNTIME", kind |-> "command"]
    /\ Gate!EvidenceOf[4] = [item |-> "RA-MULTI-ENGINE-MATRIX", kind |-> "file"]
    /\ Gate!EvidenceOf[5] = [item |-> "RA-MULTI-ENGINE-MATRIX", kind |-> "matrix"]
    /\ Gate!EvidenceOf[6] = [item |-> "RA-SERIALIZATION-PARITY", kind |-> "parity"]
  BY DEF Gate!EvidenceOf

LEMMA FileSetIsRelease == ASSUME NEW d \in FileSets PROVE Gate!IsRelease(d)
  BY DEF FileSets, Gate!IsRelease

LEMMA ReleaseStarts == Gate!Init => ReleaseInv
<1> SUFFICES ASSUME Gate!Init PROVE ReleaseInv
  OBVIOUS
<1>1. /\ disk = [f \in Gate!Files |-> 1] /\ lock = disk /\ korean = Pinned
      /\ candidate = [k \in Gate!Kinds |-> None]
      /\ evidence = [k \in Gate!Kinds |-> Gate!FirstReport(disk)]
      /\ head = 0 /\ edits = 0 /\ runs = 0 /\ relock = None /\ run = None
      /\ gate = Gate!Idle /\ signing = None /\ signature = None /\ accepted = None
      /\ committed = [disk |-> disk, lock |-> lock, korean |-> korean, evidence |-> evidence]
  BY DEF Gate!Init, Gate!Tree
<1>2. disk \in FileSets /\ disk["registry"] = 1 /\ disk["bundle"] = 1
  BY <1>1, ReleaseAssumption DEF FileSets, Gate!Files
<1>3. Gate!FirstReport(disk) \in Reports
  BY <1>2 DEF Gate!FirstReport, Reports
<1>4. evidence \in Shelves /\ candidate \in Shelves
  BY <1>1, <1>3 DEF Shelves
<1>5. DirectoryTyped
  BY <1>1, <1>2, <1>4, ReleaseAssumption DEF DirectoryTyped
<1>6. ShelvesAreLocked
  BY <1>1 DEF ShelvesAreLocked, IsLocked, Gate!FirstReport, Gate!Kinds
<1>7. RunStands /\ SignatureStands
  BY <1>1 DEF RunStands, SignatureStands
<1>8. GateStands
  BY <1>1 DEF GateStands, Gate!Idle, Gate!EligibleIsOneLock
<1>q. QED BY <1>5, <1>6, <1>7, <1>8 DEF ReleaseInv

\* A part that nobody moves stands.
LEMMA GateRests == ASSUME GateStands, UNCHANGED gate PROVE GateStands'
  BY DEF GateStands, Gate!EligibleIsOneLock, EvidenceStands, StagesFollow, LockStands,
     Gate!RegisterStands

LEMMA RunRests == ASSUME RunStands, UNCHANGED run, gate' = gate PROVE RunStands'
  BY DEF RunStands

LEMMA SignatureRests ==
    ASSUME SignatureStands, UNCHANGED <<signing, signature, accepted>> PROVE SignatureStands'
  BY DEF SignatureStands

LEMMA DirectoryRests ==
    ASSUME DirectoryTyped, ShelvesAreLocked,
           UNCHANGED <<disk, lock, korean, candidate, evidence, relock, committed>>,
           UNCHANGED <<edits, head>>, runs' \in 0..MaxRuns
    PROVE  DirectoryTyped' /\ ShelvesAreLocked'
  BY DEF DirectoryTyped, ShelvesAreLocked, IsLocked

\* People edit, relock, commit and check out.
LEMMA PeopleKeep ==
    ASSUME ReleaseInv,
           \/ \E f \in Gate!Files : Gate!Edit(f)
           \/ Gate!EditKorean \/ Gate!Restore \/ Gate!Commit
           \/ Gate!Relock_Read \/ Gate!Relock_Write
    PROVE  ReleaseInv'
<1>1. UNCHANGED <<run, gate>> /\ UNCHANGED <<signing, signature, accepted>>
  BY DEF Gate!Edit, Gate!EditKorean, Gate!Restore, Gate!Commit, Gate!Relock_Read, Gate!Relock_Write
<1>2. RunStands' /\ GateStands' /\ SignatureStands'
  BY <1>1, RunRests, GateRests, SignatureRests DEF ReleaseInv
<1>3. DirectoryTyped' /\ ShelvesAreLocked'
  <2> USE ReleaseAssumption DEF ReleaseInv, DirectoryTyped, ShelvesAreLocked, IsLocked
  <2>1. ASSUME NEW f \in Gate!Files, Gate!Edit(f) PROVE DirectoryTyped' /\ ShelvesAreLocked'
    <3>1. disk' \in FileSets /\ edits' \in 0..ReleaseEdits
      BY <2>1 DEF Gate!Edit, FileSets
    <3>2. UNCHANGED <<lock, korean, candidate, evidence, relock, committed, head, runs>>
      BY <2>1 DEF Gate!Edit
    <3>q. QED BY <3>1, <3>2
  <2>2. CASE Gate!EditKorean
    BY <2>2 DEF Gate!EditKorean
  <2>3. CASE Gate!Restore
    BY <2>3 DEF Gate!Restore
  <2>4. CASE Gate!Commit
    BY <2>4 DEF Gate!Commit, Gate!Tree
  <2>5. CASE Gate!Relock_Read
    BY <2>5 DEF Gate!Relock_Read
  <2>6. CASE Gate!Relock_Write
    BY <2>6 DEF Gate!Relock_Write
  <2>q. QED BY <2>1, <2>2, <2>3, <2>4, <2>5, <2>6
<1>q. QED BY <1>2, <1>3 DEF ReleaseInv

\* A step of the gate that goes on with what it holds.
LEMMA MoveIsTyped ==
    ASSUME NEW g \in Gates, NEW n \in Nat, NEW bad \in SUBSET JudgedItems,
           NEW seen \in Nat \cup {None}, NEW report \in Reports \cup {None}
    PROVE  /\ [g EXCEPT !.at = "evidence", !.next = n, !.invalid = bad] \in Gates
           /\ [g EXCEPT !.next = n, !.invalid = bad] \in Gates
           /\ [g EXCEPT !.coverage = seen, !.next = n, !.invalid = bad] \in Gates
           /\ [g EXCEPT !.matrix = report, !.next = n, !.invalid = bad] \in Gates
<1>1. [g EXCEPT !.at = "evidence", !.next = n, !.invalid = bad] \in Gates
  BY DEF Gates
<1>2. [g EXCEPT !.next = n, !.invalid = bad] \in Gates
  BY DEF Gates
<1>3. [g EXCEPT !.coverage = seen, !.next = n, !.invalid = bad] \in Gates
  BY DEF Gates
<1>4. [g EXCEPT !.matrix = report, !.next = n, !.invalid = bad] \in Gates
  BY DEF Gates
<1>q. QED BY <1>1, <1>2, <1>3, <1>4

\* The gate goes on with the judgement of a runner that it waited for.
LEMMA JudgedStands ==
    ASSUME GateStands, gate.at = "waiting", NEW ok \in BOOLEAN,
           gate' = [gate EXCEPT !.at = "evidence", !.next = @ + 1,
                                !.invalid = IF ok THEN @ ELSE @ \cup {gate.item}]
    PROVE  GateStands'
<1> DEFINE rejected == IF ok THEN gate.invalid ELSE gate.invalid \cup {gate.item}
<1>1. gate \in Gates
  BY DEF GateStands, Gate!Idle
<1>2. gate.next \in Nat /\ gate.next > 4 /\ EvidenceStands /\ StagesFollow
  BY <1>1 DEF Gates, GateStands, StagesFollow
<1>3. gate.item \in JudgedItems /\ gate.invalid \in SUBSET JudgedItems
  BY <1>1, <1>2 DEF Gates, StagesFollow
<1>4. rejected \in SUBSET JudgedItems /\ gate.invalid \subseteq rejected
  BY <1>3
<1> HIDE DEF rejected
<1>5. gate' = [gate EXCEPT !.at = "evidence", !.next = gate.next + 1, !.invalid = rejected]
  BY <1>1 DEF rejected, Gates
<1>6. gate' \in Gates
  <2>1. gate.next + 1 \in Nat
    BY <1>2
  <2>2. [gate EXCEPT !.at = "evidence", !.next = gate.next + 1, !.invalid = rejected] \in Gates
    BY <1>1, <1>4, <2>1, MoveIsTyped
  <2>q. QED BY <1>5, <2>2
<1>7. /\ gate'.at = "evidence" /\ gate'.next = gate.next + 1 /\ gate.invalid \subseteq gate'.invalid
      /\ gate'.manifest = gate.manifest /\ gate'.register = gate.register /\ gate'.todo = gate.todo
      /\ gate'.lock1 = gate.lock1 /\ gate'.held = gate.held /\ gate'.coverage = gate.coverage
      /\ gate'.matrix = gate.matrix
  BY <1>1, <1>4, <1>5 DEF Gates
<1>8. EvidenceStands'
  BY <1>2, <1>7 DEF EvidenceStands
<1>9. StagesFollow'
  BY <1>2, <1>7 DEF StagesFollow, Gate!RegisterStands
<1>10. LockStands' /\ Gate!EligibleIsOneLock'
  BY <1>7 DEF LockStands, Gate!EligibleIsOneLock
<1>q. QED BY <1>6, <1>8, <1>9, <1>10 DEF GateStands

LEMMA JudgedKeeps ==
    ASSUME GateStands, RunStands, run # None, NEW ok \in BOOLEAN, Gate!Judged(ok)
    PROVE  GateStands'
<1>1. CASE run.command = "verify"
  BY <1>1, JudgedStands DEF Gate!Judged, RunStands
<1>2. CASE run.command # "verify"
  BY <1>2, GateRests DEF Gate!Judged
<1>q. QED BY <1>1, <1>2

LEMMA RunnerTouches ==
    ASSUME Gate!RunOnly
    PROVE  /\ UNCHANGED <<disk, lock, korean, relock, committed>>
           /\ UNCHANGED <<edits, head, runs, plan>>
           /\ UNCHANGED <<signing, signature, accepted>>
  BY DEF Gate!RunOnly, Gate!people

LEMMA RunEnds == ASSUME run' = None PROVE RunStands'
  BY DEF RunStands

LEMMA GoesKeep ==
    ASSUME ReleaseInv, NEW r, Gate!Goes(r), Gate!RunOnly, RunStands' PROVE ReleaseInv'
<1>1. UNCHANGED <<candidate, evidence, gate>>
  BY DEF Gate!Goes
<1>2. DirectoryTyped' /\ ShelvesAreLocked'
  BY <1>1, RunnerTouches, DirectoryRests DEF ReleaseInv, DirectoryTyped
<1>q. QED BY <1>1, <1>2, RunnerTouches, GateRests, SignatureRests DEF ReleaseInv

LEMMA FailsKeep ==
    ASSUME ReleaseInv, run # None, Gate!Fails, Gate!RunOnly PROVE ReleaseInv'
<1>1. run' = None /\ Gate!Judged(FALSE) /\ UNCHANGED <<candidate, evidence>>
  BY DEF Gate!Fails
<1>2. DirectoryTyped' /\ ShelvesAreLocked'
  BY <1>1, RunnerTouches, DirectoryRests DEF ReleaseInv, DirectoryTyped
<1>3. GateStands'
  BY <1>1, JudgedKeeps DEF ReleaseInv
<1>q. QED BY <1>1, <1>2, <1>3, RunEnds, RunnerTouches, SignatureRests DEF ReleaseInv

\* Every report that claims the lock has its bytes.
LEMMA ReportIsLocked ==
    ASSUME RunStands, run # None, run.bundle # None
    PROVE  Gate!Report \in Reports /\ (run.kind = "matrix" => IsLocked(Gate!Report))
<1>1. /\ run \in Runs /\ run.todo = {} /\ run.registry \in Nat /\ run.traced \in Nat \X Nat
      /\ run.kind = "matrix" /\ run.status = "verified" =>
           run.registry = run.lock["registry"] /\ run.bundle = run.lock["bundle"]
  BY DEF RunStands
<1>2. run.lock \in FileSets /\ run.bundle \in Nat \cup {None}
  BY <1>1 DEF Runs
<1>3. Gate!Report \in Reports
  BY <1>1, <1>2 DEF Gate!Report, Reports
<1>4. run.kind = "matrix" => IsLocked(Gate!Report)
  BY <1>1 DEF Gate!Report, IsLocked
<1>q. QED BY <1>3, <1>4

LEMMA PublishedKeeps ==
    ASSUME ReleaseInv, run # None, run.bundle # None, Gate!Published(Gate!Report), Gate!RunOnly
    PROVE  ReleaseInv'
<1> DEFINE report == Gate!Report
<1>1. report \in Reports /\ (run.kind = "matrix" => IsLocked(report))
  BY ReportIsLocked DEF ReleaseInv
<1>2. run.kind \in Gate!Kinds /\ run.command \in {"candidate", "capture", "verify"}
  BY DEF ReleaseInv, RunStands, Runs
<1>3. run' = None
  BY DEF Gate!Published
<1>4. /\ candidate' = candidate \/ candidate' = [candidate EXCEPT ![run.kind] = report]
      /\ evidence' = evidence \/ evidence' = [evidence EXCEPT ![run.kind] = report]
      /\ gate' = gate \/ \E ok \in BOOLEAN : Gate!Judged(ok)
  BY <1>2 DEF Gate!Published
<1> HIDE DEF report
<1>5. DirectoryTyped' /\ ShelvesAreLocked'
  <2>1. candidate' \in Shelves /\ evidence' \in Shelves
    BY <1>1, <1>2, <1>4 DEF ReleaseInv, DirectoryTyped, Shelves
  <2>2. candidate \in Shelves /\ evidence \in Shelves
    BY DEF ReleaseInv, DirectoryTyped
  <2>3. /\ \/ candidate'["matrix"] = candidate["matrix"]
           \/ run.kind = "matrix" /\ candidate'["matrix"] = report
        /\ \/ evidence'["matrix"] = evidence["matrix"]
           \/ run.kind = "matrix" /\ evidence'["matrix"] = report
    BY <1>2, <1>4, <2>2 DEF Shelves, Gate!Kinds
  <2>4. UNCHANGED <<disk, lock, korean, relock, committed, edits, head, runs>>
    BY RunnerTouches
  <2>5. DirectoryTyped'
    BY <2>1, <2>4 DEF ReleaseInv, DirectoryTyped
  <2>6. ShelvesAreLocked'
    BY <1>1, <2>3, <2>4 DEF ReleaseInv, ShelvesAreLocked, IsLocked
  <2>q. QED BY <2>5, <2>6
<1>6. GateStands'
  BY <1>4, GateRests, JudgedKeeps DEF ReleaseInv
<1>q. QED BY <1>3, <1>5, <1>6, RunEnds, RunnerTouches, SignatureRests DEF ReleaseInv

LEMMA RunStartKeeps ==
    ASSUME ReleaseInv, NEW k \in Gate!Kinds, NEW c \in {"candidate", "capture"},
           Gate!Run_Start(k, c)
    PROVE  ReleaseInv'
<1>1. /\ run' = Gate!Started(k, c) /\ runs' = runs + 1 /\ runs < MaxRuns
      /\ UNCHANGED <<disk, lock, korean, candidate, evidence, relock, committed, edits, head>>
      /\ UNCHANGED <<gate, signing, signature, accepted>>
  BY DEF Gate!Run_Start, Gate!people
<1>2. RunStands'
  <2>1. disk["manifest"] \in Nat /\ lock \in FileSets
    BY DEF ReleaseInv, DirectoryTyped, FileSets, Gate!Files
  <2>2. Gate!Started(k, c) \in Runs
    BY <2>1 DEF Gate!Started, Runs
  <2>q. QED BY <1>1, <2>2 DEF RunStands, Gate!Started
<1>3. DirectoryTyped' /\ ShelvesAreLocked'
  <2>1. runs' \in 0..MaxRuns
    BY <1>1, ReleaseAssumption DEF ReleaseInv, DirectoryTyped
  <2>q. QED BY <1>1, <2>1, DirectoryRests DEF ReleaseInv
<1>q. QED BY <1>1, <1>2, <1>3, GateRests, SignatureRests DEF ReleaseInv

LEMMA RunLockKeeps == ASSUME ReleaseInv, Gate!Run_Lock PROVE ReleaseInv'
<1>1. run # None /\ "lock" \in run.todo /\ Gate!RunOnly
  BY DEF Gate!Run_Lock
<1>2. /\ run \in Runs
      /\ "inputs" \notin run.todo => run.registry \in Nat /\ run.traced \in Nat \X Nat
      /\ run.bundle = None /\ (run.kind = "matrix" => "inputs" \in run.todo)
      /\ run.command = "verify" => gate.at = "waiting"
  BY <1>1 DEF ReleaseInv, RunStands
<1>3. ASSUME NEW s \in {"pending", "verified"},
             Gate!Goes([run EXCEPT !.todo = @ \ {"lock"}, !.status = s])
      PROVE  ReleaseInv'
  <2> DEFINE r == [run EXCEPT !.todo = run.todo \ {"lock"}, !.status = s]
  <2>1. run' = r /\ gate' = gate
    BY <1>3 DEF Gate!Goes
  <2>2. /\ r \in Runs /\ r.bundle = run.bundle /\ r.todo = run.todo \ {"lock"}
        /\ r.registry = run.registry /\ r.traced = run.traced /\ r.kind = run.kind
        /\ r.command = run.command /\ r.lock = run.lock
    BY <1>2 DEF Runs
  <2> HIDE DEF r
  <2>3. RunStands'
    BY <1>2, <2>1, <2>2 DEF RunStands
  <2>q. QED BY <1>1, <1>3, <2>3, GoesKeep
<1>4. \/ Gate!Fails
      \/ Gate!Goes([run EXCEPT !.todo = @ \ {"lock"}, !.status = "verified"])
      \/ Gate!Goes([run EXCEPT !.todo = @ \ {"lock"}])
  BY DEF Gate!Run_Lock
<1>5. [run EXCEPT !.todo = @ \ {"lock"}] = [run EXCEPT !.todo = @ \ {"lock"}, !.status = run.status]
      /\ run.status \in {"pending", "verified"}
  BY <1>2 DEF Runs
<1>6. CASE Gate!Goes([run EXCEPT !.todo = @ \ {"lock"}])
  <2>1. Gate!Goes([run EXCEPT !.todo = @ \ {"lock"}, !.status = run.status])
    BY <1>5, <1>6 DEF Gate!Goes
  <2>q. QED BY <1>3, <1>5, <2>1
<1>q. QED BY <1>1, <1>3, <1>4, <1>6, FailsKeep

LEMMA InputsKeep ==
    ASSUME ReleaseInv, Gate!Matrix_Inputs \/ Gate!Parity_Inputs PROVE ReleaseInv'
<1> DEFINE traced == <<disk["registry"], disk["bundle"]>>
<1>0. disk \in FileSets /\ disk["registry"] \in Nat /\ disk["bundle"] \in Nat
  BY DEF ReleaseInv, DirectoryTyped, FileSets, Gate!Files
<1>1. run # None /\ "inputs" \in run.todo /\ Gate!RunOnly
  BY DEF Gate!Matrix_Inputs, Gate!Parity_Inputs
<1>2. /\ run \in Runs /\ run.bundle = None
      /\ run.command = "verify" => gate.at = "waiting"
      /\ run.lock["registry"] \in Nat
  BY <1>1 DEF ReleaseInv, RunStands, Runs, FileSets, Gate!Files
<1>3. ASSUME NEW registered \in Nat, NEW left \in SUBSET {"lock", "inputs"}, "inputs" \notin left,
             Gate!Goes([run EXCEPT !.todo = left, !.traced = traced, !.registry = registered]),
             run.kind = "matrix" =>
               "lock" \notin left /\ (run.status = "verified" => registered = run.lock["registry"])
      PROVE  ReleaseInv'
  <2> DEFINE r == [run EXCEPT !.todo = left, !.traced = traced, !.registry = registered]
  <2>1. run' = r /\ gate' = gate
    BY <1>3 DEF Gate!Goes
  <2>2. /\ r \in Runs /\ r.bundle = run.bundle /\ r.todo = left
        /\ r.registry = registered /\ r.traced = traced /\ r.kind = run.kind
        /\ r.command = run.command /\ r.lock = run.lock /\ r.status = run.status
    BY <1>0, <1>2 DEF Runs
  <2> HIDE DEF r
  <2>3. RunStands'
    BY <1>0, <1>2, <1>3, <2>1, <2>2 DEF RunStands
  <2>q. QED BY <1>1, <1>3, <2>3, GoesKeep
<1>4. CASE Gate!Matrix_Inputs
  <2>1. /\ run.kind = "matrix"
        /\ \/ Gate!Fails
           \/ Gate!Goes([run EXCEPT !.todo = {}, !.traced = traced,
                                    !.registry = Gate!MatrixBytes("registry")])
    BY <1>4 DEF Gate!Matrix_Inputs
  <2>2. /\ Gate!MatrixBytes("registry") \in Nat
        /\ run.status = "verified" => Gate!MatrixBytes("registry") = run.lock["registry"]
    BY <1>0, <1>2 DEF Gate!MatrixBytes
  <2>q. QED BY <1>1, <1>3, <2>1, <2>2, FailsKeep
<1>5. CASE Gate!Parity_Inputs
  <2>1. /\ run.kind = "parity"
        /\ \/ Gate!Fails
           \/ Gate!Goes([run EXCEPT !.todo = @ \ {"inputs"},
                                    !.registry = Gate!ParityBytes("registry"), !.traced = traced])
    BY <1>5 DEF Gate!Parity_Inputs
  <2>2. CASE Gate!Fails
    BY <1>1, <2>2, FailsKeep
  <2>3. ASSUME Gate!Goes([run EXCEPT !.todo = @ \ {"inputs"},
                                    !.registry = Gate!ParityBytes("registry"), !.traced = traced])
        PROVE  ReleaseInv'
    <3>1. Gate!Goes([run EXCEPT !.todo = run.todo \ {"inputs"}, !.traced = traced,
                                !.registry = disk["registry"]])
      <4>1. [run EXCEPT !.todo = @ \ {"inputs"}, !.registry = Gate!ParityBytes("registry"),
                        !.traced = traced]
              = [run EXCEPT !.todo = run.todo \ {"inputs"}, !.traced = traced,
                            !.registry = disk["registry"]]
        BY <1>2 DEF Runs, Gate!ParityBytes
      <4>q. QED BY <2>3, <4>1
    <3>2. run.todo \ {"inputs"} \in SUBSET {"lock", "inputs"}
      BY <1>2 DEF Runs
    <3>q. QED BY <1>0, <1>3, <2>1, <3>1, <3>2
  <2>q. QED BY <2>1, <2>2, <2>3
<1>q. QED BY <1>4, <1>5

LEMMA ExecuteKeeps ==
    ASSUME ReleaseInv, Gate!Matrix_Execute \/ Gate!Parity_Execute PROVE ReleaseInv'
<1>0. disk["bundle"] \in Nat
  BY DEF ReleaseInv, DirectoryTyped, FileSets, Gate!Files
<1>1. run # None /\ run.todo = {} /\ Gate!RunOnly
  BY DEF Gate!Matrix_Execute, Gate!Parity_Execute
<1>2. /\ run \in Runs /\ run.registry \in Nat /\ run.traced \in Nat \X Nat
      /\ run.command = "verify" => gate.at = "waiting"
      /\ run.kind = "matrix" /\ run.status = "verified" => run.registry = run.lock["registry"]
      /\ run.lock["bundle"] \in Nat
  BY <1>1 DEF ReleaseInv, RunStands, Runs, FileSets, Gate!Files
<1>3. ASSUME NEW b \in Nat, Gate!Goes([run EXCEPT !.bundle = b]),
             run.kind = "matrix" /\ run.status = "verified" => b = run.lock["bundle"]
      PROVE  ReleaseInv'
  <2> DEFINE r == [run EXCEPT !.bundle = b]
  <2>1. run' = r /\ gate' = gate
    BY <1>3 DEF Gate!Goes
  <2>2. /\ r \in Runs /\ r.bundle = b /\ r.todo = {}
        /\ r.registry = run.registry /\ r.traced = run.traced /\ r.kind = run.kind
        /\ r.command = run.command /\ r.lock = run.lock /\ r.status = run.status
    BY <1>1, <1>2 DEF Runs
  <2> HIDE DEF r
  <2>3. RunStands'
    BY <1>2, <1>3, <2>1, <2>2 DEF RunStands
  <2>q. QED BY <1>1, <1>3, <2>3, GoesKeep
<1>4. CASE Gate!Matrix_Execute
  <2>1. Gate!Fails \/ Gate!Goes([run EXCEPT !.bundle = Gate!MatrixBytes("bundle")])
    BY <1>4 DEF Gate!Matrix_Execute
  <2>2. /\ Gate!MatrixBytes("bundle") \in Nat
        /\ run.status = "verified" => Gate!MatrixBytes("bundle") = run.lock["bundle"]
    BY <1>0, <1>2 DEF Gate!MatrixBytes
  <2>q. QED BY <1>1, <1>3, <2>1, <2>2, FailsKeep
<1>5. CASE Gate!Parity_Execute
  <2>1. /\ run.kind = "parity"
        /\ Gate!Fails \/ Gate!Goes([run EXCEPT !.bundle = Gate!ParityBytes("bundle")])
    BY <1>5 DEF Gate!Parity_Execute
  <2>q. QED BY <1>0, <1>1, <1>3, <2>1, FailsKeep DEF Gate!ParityBytes
<1>q. QED BY <1>4, <1>5

LEMMA FinishKeeps ==
    ASSUME ReleaseInv, Gate!Matrix_Finish \/ Gate!Parity_Finish PROVE ReleaseInv'
<1>1. /\ run # None /\ run.bundle # None /\ Gate!RunOnly
      /\ Gate!Published(Gate!Report) \/ Gate!Fails
  BY DEF Gate!Matrix_Finish, Gate!Parity_Finish
<1>q. QED BY <1>1, PublishedKeeps, FailsKeep

\* The gate moves, and no runner is judged.
LEMMA GateMoves ==
    ASSUME ReleaseInv, gate.at # "waiting", Gate!GateOnly, GateStands' PROVE ReleaseInv'
<1>1. /\ UNCHANGED <<disk, lock, korean, candidate, evidence, relock, committed>>
      /\ UNCHANGED <<edits, head, runs, run>>
      /\ UNCHANGED <<signing, signature, accepted>>
  BY DEF Gate!GateOnly, Gate!people
<1>2. DirectoryTyped' /\ ShelvesAreLocked'
  BY <1>1, DirectoryRests DEF ReleaseInv, DirectoryTyped
<1>3. RunStands'
  BY <1>1 DEF ReleaseInv, RunStands
<1>q. QED BY <1>1, <1>2, <1>3, SignatureRests DEF ReleaseInv

LEMMA GateLoadKeeps == ASSUME ReleaseInv, Gate!Gate_Load PROVE ReleaseInv'
<1> DEFINE g == [at |-> "register", manifest |-> disk["manifest"], register |-> None,
                 todo |-> {"lock", "artifacts", "git", "trace"},
                 lock1 |-> None, held |-> FALSE, git1 |-> None, traced |-> FALSE,
                 next |-> 1, item |-> None, invalid |-> {}, coverage |-> None,
                 matrix |-> None, lock2 |-> None, decision |-> None]
<1>1. /\ gate.at = "idle" /\ gate' = g /\ Gate!GateOnly
  BY DEF Gate!Gate_Load, Gate!GateOnly
<1>2. disk["manifest"] \in Nat
  BY DEF ReleaseInv, DirectoryTyped, FileSets, Gate!Files
<1>3. g \in Gates
  BY <1>2 DEF Gates
<1>4. /\ g.at = "register" /\ g.next = 1 /\ g.held = FALSE
      /\ g.todo = {"lock", "artifacts", "git", "trace"}
  OBVIOUS
<1> HIDE DEF g
<1>5. GateStands'
  BY <1>1, <1>3, <1>4 DEF GateStands, EvidenceStands, StagesFollow, LockStands,
     Gate!EligibleIsOneLock
<1>q. QED BY <1>1, <1>5, GateMoves

\* The gate rejects a register.
LEMMA IndeterminateStands ==
    ASSUME ReleaseInv, gate.at \in {"register", "korean"},
           gate' = [gate EXCEPT !.at = "done", !.decision = Gate!Indeterminate]
    PROVE  GateStands'
<1>1. gate \in Gates /\ gate.next = 1 /\ gate.todo = {"lock", "artifacts", "git", "trace"} /\ ~gate.held
  BY DEF ReleaseInv, GateStands, StagesFollow, Gate!Idle
<1>2. gate' \in Gates
  BY <1>1 DEF Gates, Gate!Indeterminate
<1>3. /\ gate'.at = "done" /\ gate'.decision.candidate = FALSE /\ gate'.next = 1
      /\ gate'.todo = gate.todo /\ ~gate'.held
  BY <1>1 DEF Gates, Gate!Indeterminate
<1>q. QED BY <1>1, <1>2, <1>3 DEF GateStands, EvidenceStands, StagesFollow, LockStands,
             Gate!EligibleIsOneLock

LEMMA RegistersKeep == ASSUME ReleaseInv, Gate!Gate_Register \/ Gate!Gate_Korean PROVE ReleaseInv'
<1>1. gate.at \in {"register", "korean"} /\ Gate!GateOnly
  BY DEF Gate!Gate_Register, Gate!Gate_Korean
<1>2. gate \in Gates /\ gate.next = 1 /\ gate.todo = {"lock", "artifacts", "git", "trace"} /\ ~gate.held
  BY <1>1 DEF ReleaseInv, GateStands, StagesFollow, Gate!Idle
<1>3. disk["register"] \in Revisions["register"] /\ disk["register"] \in Nat
  BY DEF ReleaseInv, DirectoryTyped, FileSets, Gate!Files
<1>4. CASE /\ gate.at = "register" /\ Gate!RegisterStands(AcceptanceOf[disk["register"]])
           /\ gate' = [gate EXCEPT !.at = "korean", !.register = disk["register"]]
  <2>1. gate' \in Gates
    BY <1>2, <1>3, <1>4 DEF Gates
  <2>2. /\ gate'.at = "korean" /\ gate'.register = disk["register"]
        /\ gate'.next = 1 /\ gate'.todo = gate.todo /\ ~gate'.held
    BY <1>2, <1>4 DEF Gates
  <2>3. Gate!RegisterStands(AcceptanceOf[gate.register])'
    BY <1>4, <2>2 DEF Gate!RegisterStands
  <2>4. EvidenceStands' /\ LockStands' /\ Gate!EligibleIsOneLock'
    BY <2>2 DEF EvidenceStands, LockStands, Gate!EligibleIsOneLock
  <2>5. StagesFollow'
    BY <1>2, <1>3, <2>2, <2>3 DEF StagesFollow
  <2>q. QED BY <1>1, <2>1, <2>4, <2>5, GateMoves DEF GateStands
<1>5. CASE gate.at = "korean" /\ gate' = [gate EXCEPT !.at = "checks"]
  <2>1. gate' \in Gates
    BY <1>2, <1>5 DEF Gates
  <2>2. /\ gate'.at = "checks" /\ gate'.register = gate.register
        /\ gate'.next = 1 /\ gate'.todo = gate.todo /\ ~gate'.held
    BY <1>2, <1>5 DEF Gates
  <2>3. /\ gate.register \in Revisions["register"]
        /\ Gate!RegisterStands(AcceptanceOf[gate.register])
    BY <1>5 DEF ReleaseInv, GateStands, StagesFollow
  <2>4. Gate!RegisterStands(AcceptanceOf[gate.register])'
    BY <2>2, <2>3 DEF Gate!RegisterStands
  <2>5. EvidenceStands' /\ LockStands' /\ Gate!EligibleIsOneLock'
    BY <2>2 DEF EvidenceStands, LockStands, Gate!EligibleIsOneLock
  <2>6. StagesFollow'
    BY <1>2, <2>2, <2>3, <2>4 DEF StagesFollow
  <2>q. QED BY <1>1, <2>1, <2>5, <2>6, GateMoves DEF GateStands
<1>6. CASE gate' = [gate EXCEPT !.at = "done", !.decision = Gate!Indeterminate]
  BY <1>1, <1>6, IndeterminateStands, GateMoves
<1>7. CASE Gate!Gate_Register
  BY <1>1, <1>4, <1>6, <1>7, GateMoves DEF Gate!Gate_Register
<1>8. CASE Gate!Gate_Korean
  BY <1>1, <1>5, <1>6, <1>8, GateMoves DEF Gate!Gate_Korean
<1>q. QED BY <1>7, <1>8

\* An initial check ends.
LEMMA CheckStands ==
    ASSUME GateStands, gate.at = "checks", NEW task \in gate.todo,
           gate' \in Gates, gate'.todo = gate.todo \ {task},
           gate'.at \in {"checks", "evidence"}, gate'.at = "evidence" => gate'.todo = {},
           gate'.next = gate.next, gate'.manifest = gate.manifest, gate'.register = gate.register,
           IF task = "lock" THEN gate'.lock1 \in FileSets ELSE gate'.lock1 = gate.lock1,
           IF task = "artifacts"
           THEN "lock" \notin gate.todo
                  /\ (gate'.held => gate.lock1["manifest"] = gate.manifest)
           ELSE gate'.held = gate.held
    PROVE  GateStands'
<1>1. gate \in Gates /\ gate.next = 1 /\ StagesFollow
  BY DEF GateStands, StagesFollow, Gate!Idle
<1>2. EvidenceStands' /\ LockStands' /\ Gate!EligibleIsOneLock'
  BY <1>1 DEF EvidenceStands, LockStands, Gate!EligibleIsOneLock
<1>3. StagesFollow'
  BY <1>1 DEF StagesFollow, Gate!RegisterStands
<1>q. QED BY <1>2, <1>3 DEF GateStands

LEMMA ChecksKeep ==
    ASSUME ReleaseInv,
           Gate!Gate_Lock \/ Gate!Gate_Artifacts \/ Gate!Gate_Git \/ Gate!Gate_Trace
    PROVE  ReleaseInv'
<1>1. gate.at = "checks" /\ Gate!GateOnly
  BY DEF Gate!Gate_Lock, Gate!Gate_Artifacts, Gate!Gate_Git, Gate!Gate_Trace
<1>2. gate \in Gates
  BY <1>1 DEF ReleaseInv, GateStands, Gate!Idle
<1> DEFINE at(task) == IF gate.todo \ {task} = {} THEN "evidence" ELSE "checks"
<1>3. \A task : at(task) \in {"checks", "evidence"}
                  /\ (at(task) = "evidence" => gate.todo \ {task} = {})
  OBVIOUS
<1> HIDE DEF at
<1>4. GateStands'
  <2>1. CASE Gate!Gate_Lock
    <3>1. "lock" \in gate.todo /\ lock \in FileSets
      BY <2>1 DEF Gate!Gate_Lock, ReleaseInv, DirectoryTyped
    <3>2. gate' = [gate EXCEPT !.todo = gate.todo \ {"lock"}, !.at = at("lock"), !.lock1 = lock]
      BY <1>2, <2>1 DEF Gate!Gate_Lock, Gate!Checked, Gates, at
    <3>3. gate' \in Gates
      BY <1>2, <1>3, <3>1, <3>2 DEF Gates
    <3>4. /\ gate'.todo = gate.todo \ {"lock"} /\ gate'.at = at("lock") /\ gate'.lock1 = lock
          /\ gate'.next = gate.next /\ gate'.manifest = gate.manifest
          /\ gate'.register = gate.register /\ gate'.held = gate.held
      BY <1>2, <3>2 DEF Gates
    <3>q. QED BY <1>1, <1>3, <3>1, <3>3, <3>4, CheckStands DEF ReleaseInv
  <2>2. CASE Gate!Gate_Artifacts
    <3> DEFINE holds == Gate!LockHolds(gate.lock1, gate.manifest)
    <3>1. "artifacts" \in gate.todo /\ "lock" \notin gate.todo
      BY <2>2 DEF Gate!Gate_Artifacts
    <3>2. /\ holds \in BOOLEAN
          /\ holds => gate.lock1["manifest"] = gate.manifest
      BY DEF Gate!LockHolds
    <3>3. gate' = [gate EXCEPT !.todo = gate.todo \ {"artifacts"}, !.at = at("artifacts"), !.held = holds]
      BY <1>2, <2>2 DEF Gate!Gate_Artifacts, Gate!Checked, Gates, at
    <3> HIDE DEF holds
    <3>4. gate' \in Gates
      BY <1>2, <1>3, <3>2, <3>3 DEF Gates
    <3>5. /\ gate'.todo = gate.todo \ {"artifacts"} /\ gate'.at = at("artifacts")
          /\ gate'.held = holds /\ gate'.lock1 = gate.lock1
          /\ gate'.next = gate.next /\ gate'.manifest = gate.manifest
          /\ gate'.register = gate.register
      BY <1>2, <3>3 DEF Gates
    <3>q. QED BY <1>1, <1>3, <3>1, <3>2, <3>4, <3>5, CheckStands DEF ReleaseInv
  <2>3. CASE Gate!Gate_Git
    <3>1. "git" \in gate.todo /\ Gate!GitState \in [clean : BOOLEAN, head : Nat]
      BY <2>3, ReleaseAssumption DEF Gate!Gate_Git, Gate!GitState, ReleaseInv, DirectoryTyped
    <3>2. gate' = [gate EXCEPT !.todo = gate.todo \ {"git"}, !.at = at("git"), !.git1 = Gate!GitState]
      BY <1>2, <2>3 DEF Gate!Gate_Git, Gate!Checked, Gates, at
    <3>3. gate' \in Gates
      BY <1>2, <1>3, <3>1, <3>2 DEF Gates
    <3>4. /\ gate'.todo = gate.todo \ {"git"} /\ gate'.at = at("git") /\ gate'.lock1 = gate.lock1
          /\ gate'.next = gate.next /\ gate'.manifest = gate.manifest
          /\ gate'.register = gate.register /\ gate'.held = gate.held
      BY <1>2, <3>2 DEF Gates
    <3>q. QED BY <1>1, <1>3, <3>1, <3>3, <3>4, CheckStands DEF ReleaseInv
  <2>4. CASE Gate!Gate_Trace
    <3> DEFINE passes == <<disk["registry"], disk["bundle"]>> \in PassingPairs
    <3>1. "trace" \in gate.todo /\ passes \in BOOLEAN
      BY <2>4 DEF Gate!Gate_Trace
    <3>2. gate' = [gate EXCEPT !.todo = gate.todo \ {"trace"}, !.at = at("trace"), !.traced = passes]
      BY <1>2, <2>4 DEF Gate!Gate_Trace, Gate!Checked, Gates, at
    <3> HIDE DEF passes
    <3>3. gate' \in Gates
      BY <1>2, <1>3, <3>1, <3>2 DEF Gates
    <3>4. /\ gate'.todo = gate.todo \ {"trace"} /\ gate'.at = at("trace") /\ gate'.lock1 = gate.lock1
          /\ gate'.next = gate.next /\ gate'.manifest = gate.manifest
          /\ gate'.register = gate.register /\ gate'.held = gate.held
      BY <1>2, <3>2 DEF Gates
    <3>q. QED BY <1>1, <1>3, <3>1, <3>3, <3>4, CheckStands DEF ReleaseInv
  <2>q. QED BY <2>1, <2>2, <2>3, <2>4
<1>q. QED BY <1>1, <1>4, GateMoves

\* A piece of evidence was judged.
LEMMA EvidenceMoves ==
    ASSUME GateStands, gate.at = "evidence", gate' \in Gates, gate'.at = "evidence",
           gate'.next # 0, gate'.manifest = gate.manifest, gate'.register = gate.register,
           gate'.todo = gate.todo, gate'.lock1 = gate.lock1, gate'.held = gate.held,
           EvidenceStands'
    PROVE  GateStands'
<1>1. StagesFollow'
  BY DEF GateStands, StagesFollow, Gate!RegisterStands
<1>2. LockStands' /\ Gate!EligibleIsOneLock'
  BY DEF LockStands, Gate!EligibleIsOneLock
<1>q. QED BY <1>1, <1>2 DEF GateStands

LEMMA EvidenceKeeps == ASSUME ReleaseInv, Gate!Gate_Evidence PROVE ReleaseInv'
<1>1. /\ gate.at = "evidence" /\ gate.next <= 6 /\ Gate!GateOnly
      /\ Gate!EvidenceOf[gate.next].kind \notin {"matrix", "parity"}
  BY EvidenceIs DEF Gate!Gate_Evidence, Gate!Kinds
<1>2. gate \in Gates
  BY <1>1 DEF ReleaseInv, GateStands, Gate!Idle
<1>3. /\ EvidenceStands /\ StagesFollow /\ gate.next \in Nat /\ gate.next # 0
      /\ gate.invalid \in SUBSET JudgedItems
  BY <1>1, <1>2 DEF ReleaseInv, GateStands, StagesFollow, Gates
<1> DEFINE e == Gate!EvidenceOf[gate.next]
<1>4. PICK ok \in BOOLEAN :
        /\ e.kind = "coverage" =>
             ok = (Gate!MatchesSnapshot("coverage") /\ disk["coverage"] \in Unblocked)
        /\ e.kind = "file" => ok = Gate!MatrixStands(evidence["matrix"])
        /\ gate' = [(CASE e.kind = "coverage" -> [gate EXCEPT !.coverage = disk["coverage"]]
                       [] e.kind = "file"     -> [gate EXCEPT !.matrix = evidence["matrix"]]
                       [] OTHER               -> gate)
                     EXCEPT !.next = @ + 1, !.invalid = IF ok THEN @ ELSE @ \cup {e.item}]
  BY DEF Gate!Gate_Evidence
<1> DEFINE bad == IF ok THEN gate.invalid ELSE gate.invalid \cup {e.item}
<1>5. gate.next + 1 \in Nat /\ gate.next + 1 # 0
  BY <1>3
<1>7. CASE gate.next \in {1, 3}
  <2>1. e.item \in {"RA-REQUIREMENTS", "RA-RUNTIME"} /\ e.kind \notin {"coverage", "file"}
    BY <1>7, EvidenceIs
  <2> HIDE DEF e
  <2>2. bad \in SUBSET JudgedItems /\ gate.invalid \subseteq bad
    BY <1>3, <2>1 DEF JudgedItems
  <2>3. gate' = [gate EXCEPT !.next = gate.next + 1, !.invalid = bad]
    BY <1>2, <1>4, <2>1 DEF Gates
  <2> HIDE DEF bad
  <2>4. gate' \in Gates
    BY <1>2, <1>5, <2>2, <2>3, MoveIsTyped
  <2>5. /\ gate'.at = "evidence" /\ gate'.next = gate.next + 1 /\ gate'.invalid = bad
        /\ gate'.manifest = gate.manifest /\ gate'.register = gate.register
        /\ gate'.todo = gate.todo /\ gate'.lock1 = gate.lock1 /\ gate'.held = gate.held
        /\ gate'.coverage = gate.coverage /\ gate'.matrix = gate.matrix
    BY <1>1, <1>2, <2>3 DEF Gates
  <2>6. EvidenceStands'
    BY <1>3, <1>7, <2>2, <2>5 DEF EvidenceStands
  <2>q. QED BY <1>1, <1>5, <2>4, <2>5, <2>6, EvidenceMoves, GateMoves DEF ReleaseInv
<1>8. CASE gate.next = 2
  <2>1. e.item = "RA-REQUIREMENTS" /\ e.kind = "coverage"
    BY <1>8, EvidenceIs
  <2> HIDE DEF e
  <2>a. ok => /\ gate.held /\ disk["coverage"] = gate.lock1["coverage"]
              /\ disk["coverage"] \in Unblocked
    BY <1>4, <2>1 DEF Gate!MatchesSnapshot
  <2>2. /\ bad \in SUBSET JudgedItems
        /\ "RA-REQUIREMENTS" \notin bad => ok
    BY <1>3, <2>1 DEF JudgedItems
  <2>3. disk["coverage"] \in Nat
    BY DEF ReleaseInv, DirectoryTyped, FileSets, Gate!Files
  <2>4. gate' = [gate EXCEPT !.coverage = disk["coverage"], !.next = gate.next + 1, !.invalid = bad]
    BY <1>2, <1>4, <2>1 DEF Gates
  <2> HIDE DEF bad
  <2>5. gate' \in Gates
    BY <1>2, <1>5, <2>2, <2>3, <2>4, MoveIsTyped
  <2>6. /\ gate'.at = "evidence" /\ gate'.next = gate.next + 1 /\ gate'.invalid = bad
        /\ gate'.manifest = gate.manifest /\ gate'.register = gate.register
        /\ gate'.todo = gate.todo /\ gate'.lock1 = gate.lock1 /\ gate'.held = gate.held
        /\ gate'.coverage = disk["coverage"]
    BY <1>1, <1>2, <2>4 DEF Gates
  <2>7. EvidenceStands'
    BY <1>8, <2>2, <2>a, <2>6 DEF EvidenceStands
  <2>q. QED BY <1>1, <1>5, <2>5, <2>6, <2>7, EvidenceMoves, GateMoves DEF ReleaseInv
<1>9. CASE gate.next = 4
  <2>1. e.item = "RA-MULTI-ENGINE-MATRIX" /\ e.kind = "file"
    BY <1>9, EvidenceIs
  <2> DEFINE report == evidence["matrix"]
  <2>2. /\ report \in Reports \cup {None}
        /\ report # None /\ report.eligible =>
             report.registry = report.lock["registry"] /\ report.bundle = report.lock["bundle"]
    BY DEF ReleaseInv, DirectoryTyped, ShelvesAreLocked, IsLocked, Shelves, Gate!Kinds
  <2> HIDE DEF e
  <2>a. ok => gate.held /\ report # None /\ report.eligible /\ report.lock = gate.lock1
    BY <1>4, <2>1 DEF Gate!MatrixStands
  <2>3. /\ bad \in SUBSET JudgedItems /\ gate.invalid \subseteq bad
        /\ "RA-MULTI-ENGINE-MATRIX" \notin bad => ok
    BY <1>3, <2>1 DEF JudgedItems
  <2>4. gate' = [gate EXCEPT !.matrix = report, !.next = gate.next + 1, !.invalid = bad]
    BY <1>2, <1>4, <2>1 DEF Gates
  <2> HIDE DEF bad, report
  <2>5. gate' \in Gates
    BY <1>2, <1>5, <2>2, <2>3, <2>4, MoveIsTyped
  <2>6. /\ gate'.at = "evidence" /\ gate'.next = gate.next + 1 /\ gate'.invalid = bad
        /\ gate'.manifest = gate.manifest /\ gate'.register = gate.register
        /\ gate'.todo = gate.todo /\ gate'.lock1 = gate.lock1 /\ gate'.held = gate.held
        /\ gate'.coverage = gate.coverage /\ gate'.matrix = report
    BY <1>1, <1>2, <2>4 DEF Gates
  <2>7. EvidenceStands'
    BY <1>3, <1>9, <2>2, <2>3, <2>a, <2>6 DEF EvidenceStands
  <2>q. QED BY <1>1, <1>5, <2>5, <2>6, <2>7, EvidenceMoves, GateMoves DEF ReleaseInv
<1>10. CASE gate.next \in {5, 6}
  BY <1>1, <1>10, EvidenceIs
<1>q. QED BY <1>1, <1>3, <1>7, <1>8, <1>9, <1>10

LEMMA CommandKeeps == ASSUME ReleaseInv, Gate!Gate_Command PROVE ReleaseInv'
<1> DEFINE e == Gate!EvidenceOf[gate.next]
<1>1. /\ gate.at = "evidence" /\ gate.next <= 6 /\ run = None
      /\ e.kind \in {"matrix", "parity"}
      /\ gate' = [gate EXCEPT !.at = "waiting", !.item = e.item]
      /\ run' = Gate!Started(e.kind, "verify")
      /\ UNCHANGED <<disk, lock, korean, candidate, evidence, relock, committed>>
      /\ UNCHANGED <<edits, head, runs>>
      /\ UNCHANGED <<signing, signature, accepted>>
  BY EvidenceIs DEF Gate!Gate_Command, Gate!Kinds, Gate!people
<1>2. gate \in Gates
  BY <1>1 DEF ReleaseInv, GateStands, Gate!Idle
<1>3. EvidenceStands /\ StagesFollow /\ gate.next \in Nat /\ gate.next # 0
  BY <1>1, <1>2 DEF ReleaseInv, GateStands, Gates, StagesFollow
<1>4. gate.next > 4 /\ e.item \in JudgedItems
  BY <1>1, <1>3, EvidenceIs DEF JudgedItems
<1>5. RunStands'
  <2>1. disk["manifest"] \in Nat /\ lock \in FileSets
    BY DEF ReleaseInv, DirectoryTyped, FileSets, Gate!Files
  <2>2. run' \in Runs
    BY <1>1, <2>1 DEF Gate!Started, Runs, Gate!Kinds
  <2>3. gate'.at = "waiting"
    BY <1>1, <1>2 DEF Gates
  <2>4. run'.todo = {"lock", "inputs"} /\ run'.bundle = None
    BY <1>1 DEF Gate!Started
  <2>q. QED BY <2>2, <2>3, <2>4 DEF RunStands
<1> HIDE DEF e
<1>6. gate' \in Gates
  BY <1>1, <1>2, <1>4 DEF Gates
<1>7. /\ gate'.at = "waiting" /\ gate'.next = gate.next /\ gate'.invalid = gate.invalid
      /\ gate'.manifest = gate.manifest /\ gate'.register = gate.register
      /\ gate'.todo = gate.todo /\ gate'.lock1 = gate.lock1 /\ gate'.held = gate.held
      /\ gate'.coverage = gate.coverage /\ gate'.matrix = gate.matrix /\ gate'.item = e.item
  BY <1>1, <1>2 DEF Gates
<1>8. EvidenceStands' /\ LockStands' /\ Gate!EligibleIsOneLock'
  BY <1>3, <1>7 DEF EvidenceStands, LockStands, Gate!EligibleIsOneLock
<1>9. StagesFollow'
  BY <1>1, <1>3, <1>4, <1>7 DEF StagesFollow, Gate!RegisterStands
<1>10. GateStands'
  BY <1>6, <1>8, <1>9 DEF GateStands
<1>11. DirectoryTyped' /\ ShelvesAreLocked'
  BY <1>1, DirectoryRests DEF ReleaseInv, DirectoryTyped
<1>q. QED BY <1>1, <1>5, <1>10, <1>11, SignatureRests DEF ReleaseInv

LEMMA TerminalKeeps ==
    ASSUME ReleaseInv, Gate!Gate_TerminalLock \/ Gate!Gate_TerminalArtifacts PROVE ReleaseInv'
<1>1. CASE Gate!Gate_TerminalLock
  <2>1. /\ gate.at = "evidence" /\ gate.next > 6 /\ Gate!GateOnly
        /\ gate' = [gate EXCEPT !.at = "terminal", !.lock2 = lock]
    BY <1>1, EvidenceIs DEF Gate!Gate_TerminalLock
  <2>2. gate \in Gates /\ lock \in FileSets
    BY <2>1 DEF ReleaseInv, DirectoryTyped, GateStands, Gate!Idle
  <2>3. gate' \in Gates
    BY <2>1, <2>2 DEF Gates
  <2>4. /\ gate'.at = "terminal" /\ gate'.next = gate.next /\ gate'.invalid = gate.invalid
        /\ gate'.manifest = gate.manifest /\ gate'.register = gate.register
        /\ gate'.todo = gate.todo /\ gate'.lock1 = gate.lock1 /\ gate'.held = gate.held
        /\ gate'.coverage = gate.coverage /\ gate'.matrix = gate.matrix
    BY <2>1, <2>2 DEF Gates
  <2>5. EvidenceStands /\ StagesFollow
    BY <2>1 DEF ReleaseInv, GateStands
  <2>6. EvidenceStands' /\ LockStands' /\ Gate!EligibleIsOneLock'
    BY <2>4, <2>5 DEF EvidenceStands, LockStands, Gate!EligibleIsOneLock
  <2>7. StagesFollow'
    BY <2>1, <2>4, <2>5 DEF StagesFollow, Gate!RegisterStands
  <2>q. QED BY <2>1, <2>3, <2>6, <2>7, GateMoves DEF GateStands
<1>2. CASE Gate!Gate_TerminalArtifacts
  <2> DEFINE locks == Gate!LockPassed(Gate!LockHolds(gate.lock2, gate.manifest))
             bad == IF locks /\ gate.held THEN gate.invalid ELSE gate.invalid \cup {"RA-LOCK"}
  <2>1. gate.at = "terminal" /\ Gate!GateOnly
    BY <1>2 DEF Gate!Gate_TerminalArtifacts
  <2>2. gate \in Gates /\ gate.invalid \in SUBSET JudgedItems
    BY <2>1 DEF ReleaseInv, GateStands, Gate!Idle, Gates
  <2>3. gate' = [gate EXCEPT !.at = "git", !.invalid = bad]
    BY <1>2, <2>2 DEF Gate!Gate_TerminalArtifacts, Gates
  <2>4. locks => /\ gate.held /\ gate.lock1 = gate.lock2
                  /\ gate.register = gate.lock1["register"]
    BY DEF Gate!LockPassed
  <2> HIDE DEF locks
  <2>5. /\ bad \in SUBSET JudgedItems /\ gate.invalid \subseteq bad
        /\ "RA-LOCK" \notin bad => locks
    BY <2>2 DEF JudgedItems
  <2> HIDE DEF bad
  <2>6. gate' \in Gates
    BY <2>2, <2>3, <2>5 DEF Gates
  <2>7. /\ gate'.at = "git" /\ gate'.next = gate.next /\ gate'.invalid = bad
        /\ gate'.manifest = gate.manifest /\ gate'.register = gate.register
        /\ gate'.todo = gate.todo /\ gate'.lock1 = gate.lock1 /\ gate'.held = gate.held
        /\ gate'.coverage = gate.coverage /\ gate'.matrix = gate.matrix
        /\ gate'.lock2 = gate.lock2
    BY <2>2, <2>3 DEF Gates
  <2>8. EvidenceStands /\ StagesFollow
    BY <2>1 DEF ReleaseInv, GateStands
  <2>9. EvidenceStands' /\ Gate!EligibleIsOneLock'
    BY <2>5, <2>7, <2>8 DEF EvidenceStands, Gate!EligibleIsOneLock
  <2>10. LockStands'
    BY <2>4, <2>5, <2>7 DEF LockStands
  <2>11. StagesFollow'
    BY <2>1, <2>7, <2>8 DEF StagesFollow, Gate!RegisterStands
  <2>q. QED BY <2>1, <2>6, <2>9, <2>10, <2>11, GateMoves DEF GateStands
<1>q. QED BY <1>1, <1>2

\* A candidate has no invalid item of the core, and none that is not fixed.
LEMMA EligibleIsClear ==
    ASSUME NEW invalid, Gate!RegisterStands(AcceptanceOf[gate.register]),
           gate.register \in Revisions["register"],
           Gate!Decision(invalid).candidate
    PROVE  /\ \A id \in {"RA-REQUIREMENTS", "RA-MULTI-ENGINE-MATRIX", "RA-LOCK"} : id \notin invalid
           /\ LET items == AcceptanceOf[gate.register]
              IN \A id \in DOMAIN items :
                   items[id].scope = "profile-core" => items[id].status = "fixed"
<1> DEFINE items == AcceptanceOf[gate.register]
<1>1. ASSUME NEW id \in DOMAIN items PROVE ~Gate!Blocking(id, items[id], invalid).candidate
  BY DEF Gate!Decision
<1>2. ASSUME NEW id \in {"RA-REQUIREMENTS", "RA-MULTI-ENGINE-MATRIX", "RA-LOCK"}
      PROVE  id \notin invalid
  <2>1. id \in DOMAIN items /\ items[id] = Pins[id] /\ Pins[id].scope = "profile-core"
    BY ReleaseAssumption DEF Gate!RegisterStands
  <2> HIDE DEF items
  <2>q. QED BY <1>1, <2>1 DEF Gate!Blocking, Gate!ScopeDefault
<1>3. ASSUME NEW id \in DOMAIN items, items[id].scope = "profile-core"
      PROVE  items[id].status = "fixed"
  <2>1. /\ items[id].status = "deferred-nonblocking" => items[id].scope = "interoperability-pack"
        /\ items[id].status \in {"open", "blocked-external-evidence"} => items[id].candidate
    BY <1>3 DEF Gate!RegisterStands
  <2>2. items[id].status \in {"open", "fixed", "deferred-nonblocking", "blocked-external-evidence"}
    BY ReleaseAssumption
  <2> HIDE DEF items
  <2>3. items[id].status \notin {"open", "blocked-external-evidence"}
    BY <1>1, <1>3, <2>1 DEF Gate!Blocking, Gate!ScopeDefault
  <2>q. QED BY <1>3, <2>1, <2>2, <2>3
<1>q. QED BY <1>2, <1>3

LEMMA DecideKeeps == ASSUME ReleaseInv, Gate!Gate_Decide PROVE ReleaseInv'
<1> DEFINE failed == (IF Gate!GitPassed(Gate!GitState) THEN {} ELSE {"RA-GIT"})
                       \cup (IF gate.traced THEN {} ELSE {"RA-REQUIREMENTS"})
           all == gate.invalid \cup failed
           decision_ == Gate!Decision(all)
<1>1. gate.at = "git" /\ Gate!GateOnly /\ gate' = [gate EXCEPT !.at = "done", !.decision = decision_]
  BY DEF Gate!Gate_Decide
<1>2. gate \in Gates
  BY <1>1 DEF ReleaseInv, GateStands, Gate!Idle
<1>3. EvidenceStands /\ StagesFollow /\ LockStands
  BY <1>1 DEF ReleaseInv, GateStands
<1>4. decision_ \in [candidate : BOOLEAN, recommendation : BOOLEAN]
  BY DEF Gate!Decision
<1>5. decision_.candidate =>
        /\ \A id \in {"RA-REQUIREMENTS", "RA-MULTI-ENGINE-MATRIX", "RA-LOCK"} : id \notin gate.invalid
        /\ LET items == AcceptanceOf[gate.register]
           IN \A id \in DOMAIN items :
                items[id].scope = "profile-core" => items[id].status = "fixed"
  <2>1. gate.register \in Revisions["register"] /\ Gate!RegisterStands(AcceptanceOf[gate.register])
    BY <1>1, <1>3 DEF StagesFollow
  <2> HIDE DEF failed
  <2>q. QED BY <2>1, EligibleIsClear
<1> HIDE DEF decision_
<1>6. gate' \in Gates
  BY <1>1, <1>2, <1>4 DEF Gates
<1>7. /\ gate'.at = "done" /\ gate'.next = gate.next /\ gate'.invalid = gate.invalid
      /\ gate'.manifest = gate.manifest /\ gate'.register = gate.register
      /\ gate'.todo = gate.todo /\ gate'.lock1 = gate.lock1 /\ gate'.held = gate.held
      /\ gate'.coverage = gate.coverage /\ gate'.matrix = gate.matrix
      /\ gate'.lock2 = gate.lock2 /\ gate'.decision = decision_
  BY <1>1, <1>2 DEF Gates
<1>8. EvidenceStands' /\ LockStands'
  BY <1>3, <1>7 DEF EvidenceStands, LockStands
<1>9. StagesFollow'
  BY <1>3, <1>7 DEF StagesFollow
<1>10. decision_.candidate =>
        /\ gate.held /\ gate.lock1 = gate.lock2 /\ gate.register = gate.lock2["register"]
        /\ gate.manifest = gate.lock2["manifest"]
        /\ gate.coverage = gate.lock2["coverage"] /\ gate.lock2["coverage"] \in Unblocked
        /\ gate.matrix.lock = gate.lock2
        /\ gate.matrix.registry = gate.lock2["registry"]
        /\ gate.matrix.bundle = gate.lock2["bundle"]
        /\ Gate!RegisterStands(AcceptanceOf[gate.register])
  <2>1. gate.next > 6 /\ gate.next \in Nat
    BY <1>1, <1>2, <1>3 DEF StagesFollow, Gates
  <2>q. QED BY <1>1, <1>3, <1>5, <2>1 DEF EvidenceStands, LockStands, StagesFollow
<1>11. Gate!EligibleIsOneLock'
  BY <1>5, <1>7, <1>10 DEF Gate!EligibleIsOneLock, Gate!RegisterStands
<1>12. GateStands'
  BY <1>6, <1>8, <1>9, <1>11 DEF GateStands
<1>q. QED BY <1>1, <1>12, GateMoves

\* Sign and verify read the lock, and the files after it.
LEMMA SignersKeep ==
    ASSUME ReleaseInv,
           \/ \E c \in {"sign", "verify"} : Gate!Payload_Start(c)
           \/ Gate!Sign_Finish \/ Gate!Verify_Finish
    PROVE  ReleaseInv'
<1>1. /\ UNCHANGED <<disk, lock, korean, candidate, evidence, relock, committed>>
      /\ UNCHANGED <<edits, head, runs>> /\ UNCHANGED <<run, gate>>
  BY DEF Gate!Payload_Start, Gate!Sign_Finish, Gate!Verify_Finish, Gate!SignOnly, Gate!people
<1>2. SignatureStands'
  <2>1. ASSUME NEW c \in {"sign", "verify"}, Gate!Payload_Start(c) PROVE SignatureStands'
    BY <2>1 DEF Gate!Payload_Start, ReleaseInv, SignatureStands
  <2>2. CASE Gate!Sign_Finish
    BY <2>2 DEF Gate!Sign_Finish, Gate!LockHolds, ReleaseInv, SignatureStands
  <2>3. CASE Gate!Verify_Finish
    BY <2>3 DEF Gate!Verify_Finish, Gate!LockHolds, ReleaseInv, SignatureStands, DirectoryTyped
  <2>q. QED BY <2>1, <2>2, <2>3
<1>3. DirectoryTyped' /\ ShelvesAreLocked'
  BY <1>1, DirectoryRests DEF ReleaseInv, DirectoryTyped
<1>q. QED BY <1>1, <1>2, <1>3, RunRests, GateRests DEF ReleaseInv

LEMMA ReleaseStays == ReleaseInv /\ [Gate!Next]_release_vars => ReleaseInv'
<1> SUFFICES ASSUME ReleaseInv, [Gate!Next]_release_vars PROVE ReleaseInv'
  OBVIOUS
<1>1. CASE UNCHANGED release_vars
  <2>1. /\ UNCHANGED <<disk, lock, korean, candidate, evidence, relock, committed>>
        /\ UNCHANGED <<edits, head, runs>> /\ UNCHANGED <<run, gate>>
        /\ UNCHANGED <<signing, signature, accepted>>
    BY <1>1 DEF release_vars
  <2>2. DirectoryTyped' /\ ShelvesAreLocked'
    BY <2>1, DirectoryRests DEF ReleaseInv, DirectoryTyped
  <2>q. QED BY <2>1, <2>2, RunRests, GateRests, SignatureRests DEF ReleaseInv
<1>q. QED
  BY <1>1, PeopleKeep, RunStartKeeps, RunLockKeeps, InputsKeep, ExecuteKeeps, FinishKeeps,
     GateLoadKeeps, RegistersKeep, ChecksKeep, EvidenceKeeps, CommandKeeps, TerminalKeeps,
     DecideKeeps, SignersKeep DEF Gate!Next

LEMMA ReleaseImplies ==
    ReleaseInv =>
        Gate!TypeOK /\ Gate!MatrixIsLocked /\ Gate!EligibleIsOneLock /\ Gate!SignedIsVerified
<1> SUFFICES ASSUME ReleaseInv
             PROVE  /\ Gate!TypeOK /\ Gate!MatrixIsLocked
                    /\ Gate!EligibleIsOneLock /\ Gate!SignedIsVerified
  OBVIOUS
<1>1. Gate!TypeOK
  <2>1. Gate!IsRelease(disk) /\ Gate!IsRelease(lock) /\ korean \in DOMAIN Blindspots
    BY FileSetIsRelease DEF ReleaseInv, DirectoryTyped
  <2>2. relock # None => Gate!IsRelease(relock)
    BY FileSetIsRelease DEF ReleaseInv, DirectoryTyped
  <2>3. ASSUME NEW k \in Gate!Kinds, NEW r \in {candidate[k], evidence[k]} \ {None}
        PROVE  Gate!IsRelease(r.lock) /\ r.traced \in Nat \X Nat /\ r.eligible \in BOOLEAN
    <3>1. r \in Reports
      BY <2>3 DEF ReleaseInv, DirectoryTyped, Shelves
    <3>q. QED BY <3>1, FileSetIsRelease DEF Reports
  <2>4. run # None => run.kind \in Gate!Kinds /\ run.todo \subseteq {"lock", "inputs"}
    BY DEF ReleaseInv, RunStands, Runs
  <2>5. gate.at \in {"idle", "register", "korean", "checks", "evidence", "waiting",
                     "terminal", "git", "done"}
    BY DEF ReleaseInv, GateStands, Gate!Idle, Gates
  <2>6. accepted # None => Gate!IsRelease(accepted)
    BY FileSetIsRelease DEF ReleaseInv, SignatureStands
  <2>7. edits \in 0..ReleaseEdits /\ runs \in 0..MaxRuns /\ head \in 0..MaxCommits
    BY DEF ReleaseInv, DirectoryTyped
  <2>q. QED BY <2>1, <2>2, <2>3, <2>4, <2>5, <2>6, <2>7 DEF Gate!TypeOK
<1>2. Gate!MatrixIsLocked
  BY DEF ReleaseInv, ShelvesAreLocked, IsLocked, Gate!MatrixIsLocked
<1>3. Gate!EligibleIsOneLock /\ Gate!SignedIsVerified
  BY DEF ReleaseInv, GateStands, SignatureStands, Gate!SignedIsVerified
<1>q. QED BY <1>1, <1>2, <1>3

-----------------------------------------------------------------------------
(* The requirement evidence.  While nothing changes, what the builder has  *)
(* computed is what the verifier will accept, and what is still to be      *)
(* written is all that is missing.                                         *)

CaseLists ==
    {c \in UNION {[S -> EvidenceCases] : S \in SUBSET EvidenceFiles} :
        "positive" \in DOMAIN c => c["positive"].mode = "profile"}

Outputs ==
    [register : RowDocuments, cases : CaseLists,
     mutations : UNION {[S -> Fixtures] : S \in SUBSET Ids}]

Missing == {None, Torn}

Shapes == [Keys -> [id : Ids \cup {None}, rule : Rules]]

Builds ==
    [phase : {"idle", "unlink", "mutations", "registers"},
     todo : SUBSET (Ids \cup {"rows", "csv", "cases"}), out : Outputs \cup {None}]

ReleaseTyped ==
    /\ shapes \in Shapes
    /\ clauses \in [Ids -> ShownFields]
    /\ files \in [EvidenceFiles -> Fixtures \cup Missing]
    /\ files["positive"] \in Fixtures /\ files["curated"] \in Fixtures
    /\ source \in Versions
    /\ upstream \in [{"shards", "csv", "inventory"} -> Versions \cup Missing]
    /\ registers \in [{"rows", "csv", "cases"} -> RowDocuments \cup CaseDocuments \cup Missing]
    /\ registers["rows"] \in RowDocuments \cup Missing
    /\ registers["cases"] \in [cases : CaseLists, approved : BOOLEAN] \cup Missing

BuilderTyped ==
    /\ build \in Builds
    /\ build.phase = "idle" => build = Requirement!Idle
    /\ build.phase # "idle" => build.out \in Outputs /\ upbuild = None
    /\ build.phase = "mutations" => build.todo \subseteq DOMAIN build.out.mutations
    /\ upbuild \in [next : Nat, version : Versions] \cup {None}
    /\ passed \subseteq {"local", "upstream"} /\ rewrites \in 0..RequirementEdits

Checks ==
    [at : {"register", "included", "clauses", "csv", "cases", "runtime", "replay", "passed"},
     shapes : Shapes \cup {None}, register : RowDocuments \cup {None}, cases : CaseLists \cup {None},
     todo : SUBSET EvidenceFiles, clean : BOOLEAN]

PassedStands ==
    /\ "local" \in passed => Requirement!Traceable
    /\ "upstream" \in passed => Requirement!Rebuilt

\* A case as the verifier replays it, whatever file holds it.
CaseStands(s, c, approved) ==
    LET e == IF c.mode = "profile" THEN Requirement!ProfileEvidence(s, c.content, approved)
                                   ELSE Requirement!UnitEvidence(s, c.content, c.target)
    IN  /\ c.covers \cup c.expected \cup c.atomic \subseteq approved
        /\ c.expected \cup c.atomic \subseteq c.covers
        /\ c.mode = "constraint-unit" =>
              /\ c.atomic = {c.target} /\ c.target \in c.covers
              /\ Requirement!Cardinality(Requirement!UnitKeys(s, c.target)) = 1
        /\ e.conforms = c.conforms
        /\ e.ids = c.expected /\ e.atomic = c.atomic
        /\ e.unattributed = {}

RowsFit(rows) ==
    /\ \A k, j \in Keys : shapes[k].id = shapes[j].id => k = j
    /\ \A k \in Keys : /\ shapes[k].id # None
                       /\ rows[k].id = shapes[k].id
                       /\ rows[k].fields = Shown[shapes[k].rule]

CasesStand(cs, mutations) ==
    \A f \in DOMAIN cs :
        /\ CaseStands(shapes, cs[f], Ids)
        /\ f \in Ids => f \in DOMAIN mutations /\ cs[f].content = mutations[f]
        /\ f \notin Ids => cs[f].content = files[f]

\* What was built, when nothing has changed since.
OutputStands(out) ==
    /\ Requirement!Included # None /\ out.register.included = Requirement!Included
    /\ out.register.approved
    /\ Requirement!ClausesAgree(out.register.rows) /\ RowsFit(out.register.rows)
    /\ CasesStand(out.cases, out.mutations)
    /\ \A k \in Keys : Requirement!RowLinked(out.register.rows[k], out.cases)

BuildStands ==
    \A out \in Outputs : settled /\ build.phase # "idle" /\ build.out = out =>
        /\ OutputStands(out)
        /\ build.phase = "mutations" =>
             \A id \in DOMAIN out.mutations \ build.todo : files[id] = out.mutations[id]
        /\ build.phase = "registers" =>
             /\ \A id \in DOMAIN out.mutations : files[id] = out.mutations[id]
             /\ \A d \in {"rows", "csv", "cases"} \ build.todo :
                   registers[d] = Requirement!Document(d, out)

\* What the verifier has found by now, of what it has read ...
ReadingStands ==
    /\ check.at # "register" => check.register \in RowDocuments
    /\ check.at \in {"runtime", "replay", "passed"} => check.cases \in CaseLists
    /\ check.at \in {"replay", "passed"} =>
         /\ check.shapes \in Shapes
         /\ \A f \in DOMAIN check.cases \ check.todo :
              CaseStands(check.shapes, check.cases[f], Requirement!ApprovedIds(check.register.rows))
    /\ check.at = "passed" =>
         /\ check.todo = {}
         /\ \A k \in Keys : Requirement!RowLinked(check.register.rows[k], check.cases)

\* ... and, while nothing changes, of what is on disk.
ReadingIsOfDisk ==
    /\ check.at = "register" => check.shapes = shapes /\ Requirement!ShapesStand(shapes)
    /\ check.at # "register" =>
         /\ check.register = registers["rows"] /\ registers["rows"].approved
         /\ Requirement!ShapesStand(shapes) /\ Requirement!RowsAgree(shapes, registers["rows"].rows)
    /\ check.at \notin {"register", "included"} =>
         Requirement!Included # None /\ registers["rows"].included = Requirement!Included
    /\ check.at \notin {"register", "included", "clauses"} =>
         Requirement!ClausesAgree(registers["rows"].rows)
    /\ check.at \notin {"register", "included", "clauses", "csv"} =>
         registers["csv"] = registers["rows"]
    /\ check.at \in {"runtime", "replay", "passed"} =>
         /\ registers["cases"] \notin Missing /\ registers["cases"].approved
         /\ check.cases = registers["cases"].cases
    /\ check.at \in {"replay", "passed"} =>
         /\ check.shapes = shapes
         /\ \A f \in DOMAIN check.cases \ check.todo : files[f] = check.cases[f].content

ReadingInv ==
    /\ check \in Checks \cup {None}
    /\ check # None => ReadingStands
    /\ check # None /\ check.clean => ReadingIsOfDisk

RequirementInv ==
    /\ ReleaseTyped /\ BuilderTyped /\ BuildStands /\ PassedStands
    /\ ReadingInv /\ Requirement!BuiltVerifies

LEMMA FilesAre == Requirement!Files = EvidenceFiles /\ Requirement!Reviewed = {"positive", "curated"}
  BY DEF Requirement!Files, Requirement!Reviewed, EvidenceFiles

LEMMA RequirementStarts == Requirement!Init => RequirementInv
<1> SUFFICES ASSUME Requirement!Init PROVE RequirementInv
  OBVIOUS
<1>1. ReleaseTyped
  <2>1. shapes \in [Keys -> [id : Ids \cup {None}, rule : Rules]]
    BY RequirementAssumption DEF Requirement!Init
  <2>2. clauses \in [Ids -> ShownFields]
    <3>1. ASSUME NEW id \in Ids PROVE Shown[shapes[Requirement!KeyOf(id)].rule] \in ShownFields
      <4>1. \E k \in Keys : shapes[k].id = id
        BY RequirementAssumption DEF Requirement!Init
      <4>2. Requirement!KeyOf(id) \in Keys
        BY <4>1 DEF Requirement!KeyOf
      <4>q. QED BY <2>1, <4>2 DEF ShownFields
    <3>q. QED BY <3>1 DEF Requirement!Init
  <2>3. /\ files = [f \in EvidenceFiles |-> IF f \in {"positive", "curated"} THEN FirstFixtures[f] ELSE None]
        /\ {"positive", "curated"} \subseteq EvidenceFiles
    BY FilesAre DEF Requirement!Init, EvidenceFiles
  <2>4. /\ files \in [EvidenceFiles -> Fixtures \cup Missing]
        /\ files["positive"] \in Fixtures /\ files["curated"] \in Fixtures
    BY <2>3, RequirementAssumption DEF Missing
  <2>5. upstream \in [{"shards", "csv", "inventory"} -> Versions \cup Missing]
    <3>1. {Requirement!Upstream[i] : i \in 1..Len(Requirement!Upstream)} = {"shards", "csv", "inventory"}
      <4>1. /\ Len(Requirement!Upstream) = 3 /\ Requirement!Upstream[1] = "shards"
            /\ Requirement!Upstream[2] = "csv" /\ Requirement!Upstream[3] = "inventory"
        BY DEF Requirement!Upstream
      <4>2. 1..Len(Requirement!Upstream) = {1, 2, 3}
        BY <4>1
      <4>q. QED BY <4>1, <4>2
    <3>q. QED BY <3>1 DEF Requirement!Init, Missing
  <2>6. source \in Versions
    BY RequirementAssumption DEF Requirement!Init
  <2>7. registers = [d \in {"rows", "csv", "cases"} |-> None]
    BY DEF Requirement!Init, Requirement!Registers
  <2>q. QED BY <2>1, <2>2, <2>4, <2>5, <2>6, <2>7 DEF ReleaseTyped, Missing, Shapes
<1>2. BuilderTyped
  BY RequirementAssumption DEF Requirement!Init, BuilderTyped, Builds, Requirement!Idle
<1>3. BuildStands /\ PassedStands /\ ReadingInv /\ Requirement!BuiltVerifies
  BY DEF Requirement!Init, BuildStands, PassedStands, ReadingInv, Requirement!BuiltVerifies, Requirement!Idle
<1>q. QED BY <1>1, <1>2, <1>3 DEF RequirementInv

LEMMA CaseHoldsWhere ==
    ASSUME NEW s, NEW x, NEW c, NEW approved
    PROVE  Requirement!CaseHolds(s, x, c, approved) <=> x = c.content /\ CaseStands(s, c, approved)
  BY DEF Requirement!CaseHolds, CaseStands

\* What stands depends on shapes, clauses, reviewed fixtures and the inventory.
LEMMA TraceableRests ==
    ASSUME UNCHANGED <<shapes, clauses, files, registers, upstream>>
    PROVE  Requirement!Traceable' = Requirement!Traceable
  BY DEF Requirement!Traceable, Requirement!Included, Requirement!ClausesAgree,
     Requirement!RowsAgree, Requirement!CaseHolds, Requirement!RowLinked,
     Requirement!ShapesStand, Requirement!Fields, Requirement!ApprovedIds, Requirement!ProfileEvidence,
     Requirement!UnitEvidence, Requirement!UnitKeys, Requirement!RuleOf,
     Requirement!WalkAll, Requirement!WalkNearest

LEMMA CaseRests ==
    ASSUME NEW c, NEW approved, UNCHANGED shapes
    PROVE  CaseStands(shapes, c, approved)' = CaseStands(shapes, c, approved)
  BY DEF CaseStands, Requirement!ProfileEvidence, Requirement!UnitEvidence,
     Requirement!UnitKeys, Requirement!RuleOf, Requirement!WalkAll, Requirement!WalkNearest

LEMMA OutputRests ==
    ASSUME NEW out \in Outputs, OutputStands(out), UNCHANGED <<shapes, clauses, upstream>>,
           files'["positive"] = files["positive"], files'["curated"] = files["curated"]
    PROVE  (OutputStands(out))'
<1>1. DOMAIN out.cases \subseteq EvidenceFiles
  BY DEF Outputs, CaseLists
<1>2. \A f \in DOMAIN out.cases : f \notin Ids => files'[f] = files[f]
  BY <1>1 DEF EvidenceFiles
<1>3. Requirement!Included' = Requirement!Included
  BY DEF Requirement!Included
<1>4. Requirement!ClausesAgree(out.register.rows)'
  BY DEF OutputStands, Requirement!ClausesAgree
<1>5. RowsFit(out.register.rows)'
  BY DEF OutputStands, RowsFit
<1>6. ASSUME NEW f \in DOMAIN out.cases PROVE CaseStands(shapes, out.cases[f], Ids)'
  <2>1. CaseStands(shapes, out.cases[f], Ids)
    BY DEF OutputStands, CasesStand
  <2>q. QED BY <2>1, CaseRests
<1>7. CasesStand(out.cases, out.mutations)'
  BY <1>2, <1>6 DEF OutputStands, CasesStand
<1>8. \A k \in Keys : Requirement!RowLinked(out.register.rows[k], out.cases)'
  BY DEF OutputStands, Requirement!RowLinked
<1>q. QED BY <1>3, <1>4, <1>5, <1>7, <1>8 DEF OutputStands

\* What is replayed is evidence on the shapes it is replayed on.
LEMMA ReplayedIsEvidence ==
    ASSUME NEW s \in Shapes, NEW rows \in [Keys -> EvidenceRows], NEW cs \in CaseLists,
           NEW approved, \A f \in DOMAIN cs : CaseStands(s, cs[f], approved),
           NEW k \in Keys, Requirement!RowLinked(rows[k], cs)
    PROVE  /\ rows[k].positive = "positive"
           /\ \A j \in Keys : Requirement!RuleOf(s, j) \notin Breaks[cs[rows[k].positive].content]
           /\ \E j \in Keys : /\ Requirement!RuleOf(s, j) \in Breaks[cs[rows[k].negative].content]
                              /\ rows[k].id \in {s[i].id : i \in {j, Owner[j]}}
<1>1. /\ DOMAIN cs \subseteq EvidenceFiles
      /\ \A f \in DOMAIN cs : cs[f] \in EvidenceCases
      /\ "positive" \in DOMAIN cs => cs["positive"].mode = "profile"
  BY DEF CaseLists
<1>2. rows[k] \in EvidenceRows
  OBVIOUS
<1>3. /\ rows[k].positive = "positive" /\ "positive" \in DOMAIN cs /\ cs["positive"].conforms
      /\ rows[k].negative \in DOMAIN cs /\ rows[k].id \in cs[rows[k].negative].expected
  BY <1>1, <1>2, RequirementAssumption DEF Requirement!RowLinked, EvidenceRows
<1>4. \A j \in Keys : Requirement!RuleOf(s, j) \notin Breaks[cs["positive"].content]
  <2>1. Requirement!ProfileEvidence(s, cs["positive"].content, approved).conforms
    BY <1>1, <1>3 DEF CaseStands
  <2>2. {j \in Keys : Requirement!RuleOf(s, j) \in Breaks[cs["positive"].content]} = {}
    BY <2>1 DEF Requirement!ProfileEvidence
  <2>q. QED BY <2>2
<1> DEFINE c == cs[rows[k].negative]
<1>5. CaseStands(s, c, approved) /\ c.mode \in {"profile", "constraint-unit"} /\ rows[k].id \in c.expected
  BY <1>1, <1>3 DEF EvidenceCases
<1> HIDE DEF c
<1>6. \E j \in Keys : /\ Requirement!RuleOf(s, j) \in Breaks[c.content]
                     /\ rows[k].id \in {s[i].id : i \in {j, Owner[j]}}
  <2>1. CASE c.mode = "profile"
    <3>1. Requirement!ProfileEvidence(s, c.content, approved).ids = c.expected
      BY <1>5, <2>1 DEF CaseStands
    <3>2. PICK j \in Keys : /\ Requirement!RuleOf(s, j) \in Breaks[c.content]
                            /\ rows[k].id \in Requirement!WalkAll(s, j, approved)
      BY <1>5, <3>1 DEF Requirement!ProfileEvidence
    <3>q. QED BY <3>2 DEF Requirement!WalkAll
  <2>2. CASE c.mode = "constraint-unit"
    <3>1. Requirement!UnitEvidence(s, c.content, c.target).ids = c.expected
      BY <1>5, <2>2 DEF CaseStands
    <3>2. PICK j \in Requirement!UnitKeys(s, c.target) : Requirement!RuleOf(s, j) \in Breaks[c.content]
      BY <1>5, <3>1 DEF Requirement!UnitEvidence
    <3>3. rows[k].id = c.target
      BY <1>5, <3>1 DEF Requirement!UnitEvidence
    <3>q. QED BY <3>2, <3>3 DEF Requirement!UnitKeys
  <2>q. QED BY <1>5, <2>1, <2>2
<1>q. QED BY <1>3, <1>4, <1>6 DEF c

\* What passes is evidenced.
LEMMA TraceableIsEvidenced ==
    ASSUME ReleaseTyped, Requirement!Traceable
    PROVE  /\ \A k \in Keys : Requirement!RuleOf(shapes, k) \notin Breaks[files["positive"]]
           /\ \A k \in Keys : \E j \in {j \in Keys : k \in {j, Owner[j]}}, f \in EvidenceFiles :
                 files[f] \in Fixtures /\ Requirement!RuleOf(shapes, j) \in Breaks[files[f]]
           /\ upstream["inventory"] \in Versions
           /\ registers["rows"].included = upstream["inventory"]
<1> DEFINE reg == registers["rows"]
           cs == registers["cases"].cases
<1>1. reg \in RowDocuments /\ cs \in CaseLists
  BY DEF ReleaseTyped, Missing, Requirement!Traceable, Requirement!Registers
<1>2. /\ Requirement!Included # None /\ reg.included = Requirement!Included
      /\ \A k, j \in Keys : shapes[k].id = shapes[j].id => k = j
      /\ \A k \in Keys : reg.rows[k].id = shapes[k].id
      /\ \A k \in Keys : Requirement!RowLinked(reg.rows[k], cs)
  BY DEF Requirement!Traceable, Requirement!RowsAgree, Requirement!ShapesStand
<1>3. \A f \in DOMAIN cs : Requirement!CaseHolds(shapes, files[f], cs[f], Requirement!ApprovedIds(reg.rows))
  BY DEF Requirement!Traceable
<1>4. \A f \in DOMAIN cs : files[f] = cs[f].content
                          /\ CaseStands(shapes, cs[f], Requirement!ApprovedIds(reg.rows))
  BY <1>3, CaseHoldsWhere
<1>5. /\ DOMAIN cs \subseteq EvidenceFiles
      /\ \A f \in DOMAIN cs : cs[f] \in EvidenceCases
  BY <1>1 DEF CaseLists
<1>6. reg.rows \in [Keys -> EvidenceRows] /\ shapes \in Shapes
  BY <1>1 DEF RowDocuments, ReleaseTyped
<1> HIDE DEF reg, cs
<1>7. ASSUME NEW k \in Keys
      PROVE  /\ Requirement!RuleOf(shapes, k) \notin Breaks[files["positive"]]
             /\ \E j \in {j \in Keys : k \in {j, Owner[j]}}, f \in EvidenceFiles :
                  files[f] \in Fixtures /\ Requirement!RuleOf(shapes, j) \in Breaks[files[f]]
  <2>1. /\ reg.rows[k].positive = "positive"
        /\ \A j \in Keys : Requirement!RuleOf(shapes, j) \notin Breaks[cs[reg.rows[k].positive].content]
        /\ \E j \in Keys : /\ Requirement!RuleOf(shapes, j) \in Breaks[cs[reg.rows[k].negative].content]
                           /\ reg.rows[k].id \in {shapes[i].id : i \in {j, Owner[j]}}
    BY <1>1, <1>2, <1>4, <1>6, ReplayedIsEvidence
  <2>2. PICK j \in Keys : /\ Requirement!RuleOf(shapes, j) \in Breaks[cs[reg.rows[k].negative].content]
                          /\ reg.rows[k].id \in {shapes[i].id : i \in {j, Owner[j]}}
    BY <2>1
  <2>3. k \in {j, Owner[j]}
    BY <1>2, <2>2, RequirementAssumption
  <2>4. "positive" \in DOMAIN cs /\ reg.rows[k].negative \in DOMAIN cs
    BY <1>2, <2>1 DEF Requirement!RowLinked
  <2>5. /\ files["positive"] = cs["positive"].content
        /\ files[reg.rows[k].negative] = cs[reg.rows[k].negative].content
        /\ cs[reg.rows[k].negative].content \in Fixtures /\ reg.rows[k].negative \in EvidenceFiles
    BY <1>4, <1>5, <2>4 DEF EvidenceCases
  <2>q. QED BY <2>1, <2>2, <2>3, <2>5
<1>8. upstream["inventory"] \in Versions /\ Requirement!Included = upstream["inventory"]
  BY <1>2 DEF Requirement!Included
<1>q. QED BY <1>2, <1>7, <1>8 DEF reg

LEMMA RequirementImplies ==
    RequirementInv =>
        /\ Requirement!TypeOK /\ Requirement!PassedIsEvidenced
        /\ Requirement!PassIsReplayed /\ Requirement!BuiltVerifies
<1> SUFFICES ASSUME RequirementInv
             PROVE  /\ Requirement!TypeOK /\ Requirement!PassedIsEvidenced
                    /\ Requirement!PassIsReplayed /\ Requirement!BuiltVerifies
  OBVIOUS
<1>1. Requirement!TypeOK
  <2>1. check = None \/ check.todo \subseteq EvidenceFiles
    BY DEF RequirementInv, ReadingInv, Checks
  <2>q. QED BY <2>1, FilesAre DEF RequirementInv, ReleaseTyped, BuilderTyped, Builds, Missing, Shapes,
               Requirement!TypeOK, Requirement!Registers
<1>2. Requirement!PassedIsEvidenced
  <2>1. ASSUME "upstream" \in passed PROVE upstream["inventory"] = source
    BY <2>1 DEF RequirementInv, PassedStands, Requirement!Rebuilt, ReleaseTyped
  <2>2. files["positive"] \in Fixtures
    BY DEF RequirementInv, ReleaseTyped
  <2>q. QED BY <2>1, <2>2, FilesAre, TraceableIsEvidenced
            DEF RequirementInv, PassedStands, Requirement!PassedIsEvidenced
<1>3. Requirement!PassIsReplayed
  <2> SUFFICES ASSUME check # None, check.at = "passed", NEW k \in Keys
               PROVE  LET row == check.register.rows[k]
                          s == check.shapes
                      IN  /\ \A j \in Keys : Requirement!RuleOf(s, j) \notin Breaks[check.cases[row.positive].content]
                          /\ \E j \in Keys :
                                /\ Requirement!RuleOf(s, j) \in Breaks[check.cases[row.negative].content]
                                /\ row.id \in {s[i].id : i \in {j, Owner[j]}}
    BY DEF Requirement!PassIsReplayed
  <2>1. /\ check.register.rows \in [Keys -> EvidenceRows] /\ check.cases \in CaseLists
        /\ check.shapes \in Shapes
        /\ \A f \in DOMAIN check.cases :
             CaseStands(check.shapes, check.cases[f], Requirement!ApprovedIds(check.register.rows))
        /\ Requirement!RowLinked(check.register.rows[k], check.cases)
    BY DEF RequirementInv, ReadingInv, ReadingStands, RowDocuments
  <2>q. QED BY <2>1, ReplayedIsEvidence
<1>q. QED BY <1>1, <1>2, <1>3 DEF RequirementInv

-----------------------------------------------------------------------------
(* What the builder computes.                                              *)

LEMMA EvidenceIsApproved ==
    ASSUME NEW x
    PROVE  LET e == Requirement!ProfileEvidence(shapes, x, Ids)
           IN  /\ e.ids \in SUBSET Ids /\ e.atomic \in SUBSET Ids /\ e.conforms \in BOOLEAN
               /\ e.atomic \subseteq e.ids
               /\ e.conforms => e.ids = {} /\ e.atomic = {} /\ e.unattributed = {}
<1> DEFINE broken == {k \in Keys : Requirement!RuleOf(shapes, k) \in Breaks[x]}
           e == Requirement!ProfileEvidence(shapes, x, Ids)
<1>1. /\ e.ids = UNION {Requirement!WalkAll(shapes, k, Ids) : k \in broken}
      /\ e.atomic = UNION {Requirement!WalkNearest(shapes, k, Ids) : k \in broken}
      /\ e.unattributed = {k \in broken : Requirement!WalkNearest(shapes, k, Ids) = {}}
      /\ e.conforms = (broken = {})
  BY DEF Requirement!ProfileEvidence
<1>2. \A k \in Keys : /\ Requirement!WalkAll(shapes, k, Ids) \subseteq Ids
                      /\ Requirement!WalkNearest(shapes, k, Ids) \subseteq Requirement!WalkAll(shapes, k, Ids)
  BY DEF Requirement!WalkAll, Requirement!WalkNearest
<1>3. broken \subseteq Keys
  OBVIOUS
<1> HIDE DEF broken, e
<1>4. e.atomic \subseteq e.ids /\ e.ids \subseteq Ids
  BY <1>1, <1>2, <1>3
<1>5. e.conforms => e.ids = {} /\ e.atomic = {} /\ e.unattributed = {}
  BY <1>1
<1>q. QED BY <1>1, <1>4, <1>5 DEF e

\* A case over the whole profile.
LEMMA ProfileCaseStands ==
    ASSUME NEW x \in Fixtures,
           Requirement!ProfileEvidence(shapes, x, Ids).unattributed = {}
    PROVE  LET c == Requirement!Case(x, "profile", None, Requirement!ProfileEvidence(shapes, x, Ids))
           IN  c \in EvidenceCases /\ c.content = x /\ CaseStands(shapes, c, Ids)
<1> DEFINE e == Requirement!ProfileEvidence(shapes, x, Ids)
           c == Requirement!Case(x, "profile", None, e)
<1>1. /\ e.ids \in SUBSET Ids /\ e.atomic \in SUBSET Ids /\ e.conforms \in BOOLEAN
      /\ e.atomic \subseteq e.ids /\ e.unattributed = {}
  BY EvidenceIsApproved
<1>2. c = [content |-> x, conforms |-> e.conforms, mode |-> "profile", target |-> None,
           covers |-> e.ids, expected |-> e.ids, atomic |-> e.atomic]
  BY DEF Requirement!Case
<1> HIDE DEF e
<1>3. /\ c.content = x /\ c.conforms = e.conforms /\ c.mode = "profile"
      /\ c.covers = e.ids /\ c.expected = e.ids /\ c.atomic = e.atomic
      /\ c \in EvidenceCases
  BY <1>1, <1>2 DEF EvidenceCases
<1> HIDE DEF c
<1>4. CaseStands(shapes, c, Ids)
  BY <1>1, <1>3 DEF CaseStands, e
<1>q. QED BY <1>3, <1>4 DEF c, e

\* A case over one constraint.
LEMMA UnitCaseStands ==
    ASSUME NEW x \in Fixtures, NEW id \in Ids,
           Requirement!Alone(Requirement!UnitEvidence(shapes, x, id), id),
           Requirement!Cardinality(Requirement!UnitKeys(shapes, id)) = 1
    PROVE  LET c == Requirement!Case(x, "constraint-unit", id, Requirement!UnitEvidence(shapes, x, id))
           IN  c \in EvidenceCases /\ c.content = x /\ CaseStands(shapes, c, Ids)
<1> DEFINE e == Requirement!UnitEvidence(shapes, x, id)
           c == Requirement!Case(x, "constraint-unit", id, e)
<1>1. /\ e.ids \in SUBSET Ids /\ e.atomic = {id} /\ e.conforms \in BOOLEAN
      /\ e.ids = {id} /\ e.unattributed = {}
  BY DEF Requirement!UnitEvidence, Requirement!Alone
<1>2. c = [content |-> x, conforms |-> e.conforms, mode |-> "constraint-unit", target |-> id,
           covers |-> e.ids, expected |-> e.ids, atomic |-> e.atomic]
  BY DEF Requirement!Case
<1> HIDE DEF e
<1>3. /\ c.content = x /\ c.conforms = e.conforms /\ c.mode = "constraint-unit" /\ c.target = id
      /\ c.covers = e.ids /\ c.expected = e.ids /\ c.atomic = e.atomic
      /\ c \in EvidenceCases
  BY <1>1, <1>2 DEF EvidenceCases
<1> HIDE DEF c
<1>4. CaseStands(shapes, c, Ids)
  BY <1>1, <1>3 DEF CaseStands, e
<1>q. QED BY <1>3, <1>4 DEF c, e

LEMMA KeyOfIs ==
    ASSUME Requirement!Buildable, NEW id \in Ids
    PROVE  /\ Requirement!KeyOf(id) \in Keys /\ shapes[Requirement!KeyOf(id)].id = id
           /\ Requirement!Cardinality(Requirement!UnitKeys(shapes, id)) = 1
<1>1. \E k \in Keys : shapes[k].id = id
  BY DEF Requirement!Buildable, Requirement!Approved
<1>2. Requirement!KeyOf(id) \in Keys /\ shapes[Requirement!KeyOf(id)].id = id
  BY <1>1 DEF Requirement!KeyOf
<1>3. Requirement!UnitKeys(shapes, id) = {Requirement!KeyOf(id)}
  BY <1>2 DEF Requirement!Buildable, Requirement!UnitKeys
<1>4. Cardinality({Requirement!KeyOf(id)}) = 1
  BY FS_Singleton
<1>5. Requirement!Cardinality({Requirement!KeyOf(id)}) = Cardinality({Requirement!KeyOf(id)})
  BY DEF Requirement!Cardinality, Cardinality
<1>q. QED BY <1>2, <1>3, <1>4, <1>5

\* Every mutation that is made is a fixture that breaks one constraint alone.
LEMMA MutationsAre ==
    ASSUME ReleaseTyped, Requirement!Buildable, NEW id \in Requirement!Generated
    PROVE  LET c == Requirement!GeneratedCase(id)
           IN  /\ id \in Ids /\ Requirement!MutationOf(id) \in Fixtures
               /\ c \in EvidenceCases /\ c.content = Requirement!MutationOf(id)
               /\ CaseStands(shapes, c, Ids)
<1> DEFINE x == Requirement!MutationOf(id)
<1>1. id \in Ids /\ id \in Requirement!Covered
  BY DEF Requirement!Generated, Requirement!Covered
<1>2. ASSUME NEW j \in Ids PROVE Requirement!Candidates(j) \subseteq Fixtures
  <2>1. Requirement!RuleOf(shapes, Requirement!KeyOf(j)) \in Keys \X Rules
    BY KeyOfIs DEF Requirement!RuleOf, ReleaseTyped, Shapes
  <2>q. QED BY <2>1, RequirementAssumption DEF Requirement!Candidates
<1>3. Requirement!Pool \subseteq Fixtures
  <2>1. ASSUME NEW f \in Requirement!CuratedCases PROVE files[f] \in Fixtures
    <3>1. f = "curated"
      BY DEF Requirement!CuratedCases
    <3>q. QED BY <3>1 DEF ReleaseTyped
  <2>2. Requirement!Covered \subseteq Ids
    BY DEF Requirement!Covered
  <2>3. UNION {Requirement!Candidates(j) : j \in Requirement!Covered} \subseteq Fixtures
    BY <1>2, <2>2
  <2>4. {files[f] : f \in Requirement!CuratedCases} \subseteq Fixtures
    BY <2>1
  <2>q. QED BY <2>3, <2>4 DEF Requirement!Pool
<1>4. CASE Requirement!ProfileLane(id) # {}
  <2>1. x \in Requirement!ProfileLane(id)
    BY <1>4 DEF Requirement!MutationOf
  <2>2. /\ x \in Fixtures
        /\ Requirement!ProfileEvidence(shapes, x, Ids).unattributed = {}
    BY <1>1, <1>2, <2>1 DEF Requirement!ProfileLane, Requirement!Alone
  <2>3. Requirement!GeneratedCase(id) =
          Requirement!Case(x, "profile", None, Requirement!ProfileEvidence(shapes, x, Ids))
    BY <1>4 DEF Requirement!GeneratedCase
  <2> HIDE DEF x
  <2>q. QED BY <1>1, <2>2, <2>3, ProfileCaseStands DEF x
<1>5. CASE Requirement!ProfileLane(id) = {}
  <2>1. x \in Requirement!UnitLane(id)
    BY <1>5 DEF Requirement!MutationOf, Requirement!Generated
  <2>2. x \in Fixtures /\ Requirement!Alone(Requirement!UnitEvidence(shapes, x, id), id)
    BY <1>3, <2>1 DEF Requirement!UnitLane
  <2>3. Requirement!GeneratedCase(id) =
          Requirement!Case(x, "constraint-unit", id, Requirement!UnitEvidence(shapes, x, id))
    BY <1>5 DEF Requirement!GeneratedCase
  <2> HIDE DEF x
  <2>q. QED BY <1>1, <2>2, <2>3, UnitCaseStands, KeyOfIs DEF x
<1>q. QED BY <1>4, <1>5

\* The case of the positive fixture covers what it activates.
LEMMA PositiveCaseStands ==
    ASSUME ReleaseTyped, Requirement!Buildable
    PROVE  LET x == files["positive"]
               c == [Requirement!Case(x, "profile", None, Requirement!ProfileEvidence(shapes, x, Ids))
                       EXCEPT !.covers = Requirement!Covered]
           IN  /\ c \in EvidenceCases /\ c.content = x /\ c.mode = "profile" /\ c.conforms
               /\ c.covers = Requirement!Covered /\ CaseStands(shapes, c, Ids)
<1> DEFINE x == files["positive"]
           e == Requirement!ProfileEvidence(shapes, x, Ids)
           c == [Requirement!Case(x, "profile", None, e) EXCEPT !.covers = Requirement!Covered]
<1>1. e.conforms = TRUE /\ e.ids = {} /\ e.atomic = {} /\ e.unattributed = {} /\ x \in Fixtures
  BY EvidenceIsApproved DEF Requirement!Buildable
<1>2. Requirement!Covered \subseteq Ids
  BY DEF Requirement!Covered
<1> HIDE DEF x, e
<1>3. c = [content |-> x, conforms |-> e.conforms, mode |-> "profile", target |-> None,
           covers |-> Requirement!Covered, expected |-> e.ids, atomic |-> e.atomic]
  BY DEF Requirement!Case
<1>4. /\ c.content = x /\ c.conforms = e.conforms /\ c.mode = "profile"
      /\ c.covers = Requirement!Covered /\ c.expected = e.ids /\ c.atomic = e.atomic
      /\ c \in EvidenceCases
  BY <1>1, <1>2, <1>3 DEF EvidenceCases
<1> HIDE DEF c
<1>5. CaseStands(shapes, c, Ids)
  BY <1>1, <1>2, <1>4 DEF CaseStands, e
<1>q. QED BY <1>1, <1>4, <1>5 DEF c, e, x

LEMMA BuiltCasesStand ==
    ASSUME ReleaseTyped, Requirement!Buildable
    PROVE  /\ Requirement!BuiltCases \in CaseLists
           /\ CasesStand(Requirement!BuiltCases,
                         [id \in Requirement!Generated |-> Requirement!MutationOf(id)])
           /\ Requirement!Covered # {} =>
                /\ "positive" \in DOMAIN Requirement!BuiltCases
                /\ Requirement!BuiltCases["positive"].conforms
                /\ Requirement!BuiltCases["positive"].covers = Requirement!Covered
<1> DEFINE cs == Requirement!BuiltCases
           mutations == [id \in Requirement!Generated |-> Requirement!MutationOf(id)]
           domain == (IF Requirement!Covered = {} THEN {} ELSE {"positive"})
                        \cup Requirement!CuratedCases \cup Requirement!Generated
           positive == [Requirement!Case(files["positive"], "profile", None,
                                         Requirement!ProfileEvidence(shapes, files["positive"], Ids))
                          EXCEPT !.covers = Requirement!Covered]
           curated == Requirement!Case(files["curated"], "profile", None,
                                       Requirement!ProfileEvidence(shapes, files["curated"], Ids))
<1>1. /\ Requirement!CuratedCases \subseteq {"curated"} /\ Requirement!Generated \subseteq Ids
      /\ Ids \cap {"positive", "curated"} = {}
  BY RequirementAssumption DEF Requirement!CuratedCases, Requirement!Generated, Requirement!Covered
<1>2. /\ DOMAIN cs = domain
      /\ \A f \in domain : cs[f] = IF f = "positive" THEN positive
                                   ELSE IF f = "curated" THEN curated
                                   ELSE Requirement!GeneratedCase(f)
  <2>1. cs = [f \in domain |-> IF f = "positive" THEN positive
                               ELSE IF f = "curated" THEN curated
                               ELSE Requirement!GeneratedCase(f)]
    BY DEF Requirement!BuiltCases
  <2> HIDE DEF cs, domain, positive, curated
  <2>q. QED BY <2>1
<1>3. /\ positive \in EvidenceCases /\ positive.content = files["positive"]
      /\ positive.mode = "profile" /\ positive.conforms
      /\ positive.covers = Requirement!Covered /\ CaseStands(shapes, positive, Ids)
  BY PositiveCaseStands
<1>4. ASSUME "curated" \in Requirement!CuratedCases
      PROVE  curated \in EvidenceCases /\ curated.content = files["curated"] /\ CaseStands(shapes, curated, Ids)
  <2>1. Requirement!ProfileEvidence(shapes, files["curated"], Ids).unattributed = {}
    BY <1>4 DEF Requirement!CuratedCases
  <2>2. files["curated"] \in Fixtures
    BY DEF ReleaseTyped
  <2>q. QED BY <2>1, <2>2, ProfileCaseStands
<1>5. \A f \in domain : f \in {"positive"} \cup Requirement!CuratedCases \cup Requirement!Generated
  OBVIOUS
<1>6. Requirement!Covered # {} => "positive" \in domain
  OBVIOUS
<1>7. DOMAIN mutations = Requirement!Generated
      /\ \A id \in Requirement!Generated : mutations[id] = Requirement!MutationOf(id)
  OBVIOUS
<1> HIDE DEF cs, domain, positive, curated, mutations
<1>8. ASSUME NEW f \in domain
      PROVE  /\ cs[f] \in EvidenceCases /\ CaseStands(shapes, cs[f], Ids) /\ f \in EvidenceFiles
             /\ f \in Ids => f \in DOMAIN mutations /\ cs[f].content = mutations[f]
             /\ f \notin Ids => cs[f].content = files[f]
             /\ f = "positive" => cs[f] = positive
  <2>1. CASE f = "positive"
    <3>1. cs[f] = positive /\ f \notin Ids /\ f \in EvidenceFiles
      BY <1>1, <1>2, <2>1 DEF EvidenceFiles
    <3>q. QED BY <1>3, <2>1, <3>1
  <2>2. CASE f \in Requirement!CuratedCases
    <3>1. f = "curated" /\ f \notin Ids /\ f \in EvidenceFiles
      BY <1>1, <2>2 DEF EvidenceFiles
    <3>2. cs[f] = curated
      BY <1>2, <3>1
    <3>q. QED BY <1>4, <2>2, <3>1, <3>2
  <2>3. CASE f \in Requirement!Generated
    <3>1. f \in Ids /\ f # "positive" /\ f # "curated" /\ f \in EvidenceFiles
      BY <1>1, <2>3 DEF EvidenceFiles
    <3>2. cs[f] = Requirement!GeneratedCase(f)
      BY <1>2, <3>1
    <3>q. QED BY <1>7, <2>3, <3>1, <3>2, MutationsAre
  <2>q. QED BY <1>5, <2>1, <2>2, <2>3
<1>9. cs \in CaseLists
  <2>1. cs \in [domain -> EvidenceCases] /\ domain \in SUBSET EvidenceFiles
    <3>1. cs = [f \in DOMAIN cs |-> cs[f]]
      BY DEF cs, Requirement!BuiltCases
    <3>q. QED BY <1>2, <1>8, <3>1
  <2>2. "positive" \in DOMAIN cs => cs["positive"].mode = "profile"
    BY <1>2, <1>3, <1>8
  <2>q. QED BY <2>1, <2>2 DEF CaseLists
<1>10. CasesStand(cs, mutations)
  BY <1>2, <1>8 DEF CasesStand
<1>q. QED BY <1>2, <1>3, <1>6, <1>8, <1>9, <1>10 DEF cs, mutations

\* The negative that a row is given is eligible.
LEMMA NegativeIs ==
    ASSUME NEW id, NEW cs
    PROVE  \/ Requirement!NegativeOf(id, cs) = None
           \/ LET f == Requirement!NegativeOf(id, cs)
              IN  /\ f \in DOMAIN cs /\ ~cs[f].conforms /\ id \in cs[f].expected
                  /\ Requirement!Cardinality(cs[f].atomic) = 1
<1> DEFINE eligible == {f \in DOMAIN cs : /\ ~cs[f].conforms
                                           /\ id \in cs[f].expected
                                           /\ Requirement!Cardinality(cs[f].atomic) = 1}
           n == Requirement!NegativeOf(id, cs)
<1>1. n = None \/ n \in eligible
  <2>1. n = IF id \in eligible THEN id
            ELSE IF eligible \cap Ids # {} THEN CHOOSE f \in eligible \cap Ids : TRUE
            ELSE IF eligible # {} THEN CHOOSE f \in eligible : TRUE ELSE None
    BY DEF Requirement!NegativeOf
  <2> HIDE DEF eligible, n
  <2>q. QED BY <2>1
<1>q. QED BY <1>1

LEMMA BuiltRowsStand ==
    ASSUME ReleaseTyped, Requirement!Buildable
    PROVE  /\ Requirement!BuiltRegister \in RowDocuments
           /\ RowsFit(Requirement!BuiltRows) /\ Requirement!ClausesAgree(Requirement!BuiltRows)
           /\ Requirement!BuiltRegister.approved =>
                \A k \in Keys : Requirement!RowLinked(Requirement!BuiltRows[k], Requirement!BuiltCases)
<1> DEFINE rows == Requirement!BuiltRows
           cs == Requirement!BuiltCases
           positive(k) == IF shapes[k].id \in Requirement!Covered THEN "positive" ELSE None
           negative(k) == Requirement!NegativeOf(shapes[k].id, cs)
           fields(k) == Shown[shapes[k].rule]
<1>1. ASSUME NEW k \in Keys
      PROVE  /\ shapes[k].id \in Ids /\ shapes[k].rule \in Rules /\ shapes[k].id # None
             /\ clauses[shapes[k].id] = fields(k) /\ fields(k) \in ShownFields
  BY RequirementAssumption DEF Requirement!Buildable, Requirement!Approved, ReleaseTyped,
     Requirement!Fields, ShownFields, Shapes, EvidenceFiles
<1>2. rows = [k \in Keys |->
                [id |-> shapes[k].id, fields |-> fields(k), clause |-> clauses[shapes[k].id],
                 positive |-> positive(k), negative |-> negative(k)]]
  BY DEF Requirement!BuiltRows, Requirement!Fields
<1>3. /\ cs \in CaseLists
      /\ CasesStand(cs, [id \in Requirement!Generated |-> Requirement!MutationOf(id)])
      /\ Requirement!Covered # {} => /\ "positive" \in DOMAIN cs
                                     /\ cs["positive"].conforms
                                     /\ cs["positive"].covers = Requirement!Covered
  BY BuiltCasesStand
<1> HIDE DEF cs
<1>4. ASSUME NEW k \in Keys
      PROVE  \/ negative(k) = None
             \/ /\ negative(k) \in DOMAIN cs /\ ~cs[negative(k)].conforms
                /\ shapes[k].id \in cs[negative(k)].expected
                /\ Requirement!Cardinality(cs[negative(k)].atomic) = 1
  BY NegativeIs
<1>5. \A k \in Keys : positive(k) \in {"positive", None} /\ (positive(k) # None => shapes[k].id \in Requirement!Covered)
  OBVIOUS
<1>6. DOMAIN cs \subseteq EvidenceFiles
  BY <1>3 DEF CaseLists
<1> HIDE DEF positive, negative, fields, rows
<1>7. ASSUME NEW k \in Keys
      PROVE  /\ rows[k] \in EvidenceRows /\ rows[k].id = shapes[k].id /\ rows[k].fields = fields(k)
             /\ rows[k].clause = clauses[shapes[k].id]
             /\ rows[k].positive = positive(k) /\ rows[k].negative = negative(k)
  BY <1>1, <1>2, <1>4, <1>5, <1>6 DEF EvidenceRows
<1>8. RowsFit(rows)
  BY <1>1, <1>7 DEF RowsFit, Requirement!Buildable, fields
<1>9. Requirement!ClausesAgree(rows)
  <2>1. {rows[k].id : k \in Keys} = Ids
    BY <1>7 DEF Requirement!Buildable, Requirement!Approved
  <2>q. QED BY <1>1, <1>7, <2>1 DEF Requirement!ClausesAgree
<1>10. rows \in [Keys -> EvidenceRows]
  BY <1>2, <1>7
<1>11. /\ Requirement!BuiltRegister.rows = rows
       /\ Requirement!BuiltRegister.approved = (\A k \in Keys : None \notin {rows[k].positive, rows[k].negative})
       /\ Requirement!BuiltRegister.included = Requirement!Included
       /\ Requirement!BuiltRegister =
            [rows |-> Requirement!BuiltRegister.rows, included |-> Requirement!BuiltRegister.included,
             approved |-> Requirement!BuiltRegister.approved]
  BY DEF Requirement!BuiltRegister, rows
<1>12. Requirement!Included \in Versions
  BY DEF Requirement!Buildable, Requirement!Included
<1>13. Requirement!BuiltRegister \in RowDocuments
  BY <1>10, <1>11, <1>12 DEF RowDocuments
<1>14. ASSUME Requirement!BuiltRegister.approved, NEW k \in Keys
       PROVE  Requirement!RowLinked(rows[k], cs)
  <2>1. positive(k) # None /\ negative(k) # None
    BY <1>7, <1>11, <1>14
  <2>2. positive(k) = "positive" /\ shapes[k].id \in Requirement!Covered
    BY <1>5, <2>1
  <2>3. /\ negative(k) \in DOMAIN cs /\ ~cs[negative(k)].conforms
        /\ shapes[k].id \in cs[negative(k)].expected
        /\ Requirement!Cardinality(cs[negative(k)].atomic) = 1
    BY <1>4, <2>1
  <2>4. cs[negative(k)].expected \subseteq cs[negative(k)].covers
    BY <1>3, <2>3 DEF CasesStand, CaseStands
  <2>q. QED BY <1>3, <1>7, <2>2, <2>3, <2>4 DEF Requirement!RowLinked
<1>q. QED BY <1>8, <1>9, <1>13, <1>14 DEF rows, cs

-----------------------------------------------------------------------------
(* The steps.                                                              *)

\* Nothing that the verifiers read has changed.
LEMMA PassedRests ==
    ASSUME PassedStands, UNCHANGED <<shapes, clauses, files, registers, source, upstream>>,
           passed' = passed
    PROVE  PassedStands'
  BY TraceableRests DEF PassedStands, Requirement!Rebuilt, Requirement!SourceBuilds,
     Requirement!ScansAsPinned, Requirement!ShardsIsolate

LEMMA ReleaseRests ==
    ASSUME ReleaseTyped, UNCHANGED <<shapes, clauses, files, registers, source, upstream>>
    PROVE  ReleaseTyped'
  BY DEF ReleaseTyped

LEMMA NothingPassed == ASSUME passed' = {} PROVE PassedStands'
  BY DEF PassedStands

LEMMA DiskRests ==
    ASSUME UNCHANGED <<shapes, clauses, files, registers, upstream>>
    PROVE  /\ Requirement!ShapesStand(shapes)' = Requirement!ShapesStand(shapes)
           /\ Requirement!RowsAgree(shapes, registers["rows"].rows)'
                = Requirement!RowsAgree(shapes, registers["rows"].rows)
           /\ Requirement!Included' = Requirement!Included
           /\ Requirement!ClausesAgree(registers["rows"].rows)'
                = Requirement!ClausesAgree(registers["rows"].rows)
  BY DEF Requirement!ShapesStand, Requirement!RowsAgree, Requirement!Fields,
     Requirement!Included, Requirement!ClausesAgree

LEMMA CheckRests ==
    ASSUME ReadingInv, UNCHANGED <<shapes, clauses, files, registers, upstream>>, check' = check
    PROVE  ReadingInv'
<1>1. check' \in Checks \cup {None}
  BY DEF ReadingInv
<1>2. ReadingStands' = ReadingStands
  BY DEF ReadingStands, CaseStands, Requirement!RowLinked, Requirement!ApprovedIds
<1>3. ReadingIsOfDisk' = ReadingIsOfDisk
  BY DiskRests DEF ReadingIsOfDisk
<1>q. QED BY <1>1, <1>2, <1>3 DEF ReadingInv

\* A case stands as long as what was read does.
LEMMA ReplayRests ==
    ASSUME check'.shapes = check.shapes, check'.cases = check.cases,
           check'.register = check.register, NEW f
    PROVE  CaseStands(check.shapes, check.cases[f], Requirement!ApprovedIds(check.register.rows))'
             = CaseStands(check.shapes, check.cases[f], Requirement!ApprovedIds(check.register.rows))
  BY DEF CaseStands, Requirement!ApprovedIds, Requirement!ProfileEvidence,
     Requirement!UnitEvidence, Requirement!UnitKeys, Requirement!RuleOf, Requirement!WalkAll,
     Requirement!WalkNearest

\* Once something has changed, a verification goes on with what it has read.
LEMMA CheckTouched == ASSUME ReadingInv, Requirement!Touched PROVE ReadingInv'
<1>1. CASE check = None
  BY <1>1 DEF ReadingInv, Requirement!Touched
<1>2. CASE check # None
  <2>1. check \in Checks /\ ReadingStands
    BY <1>2 DEF ReadingInv
  <2>2. check' = [check EXCEPT !.clean = FALSE]
    BY <1>2 DEF Requirement!Touched
  <2>3. /\ check' \in Checks /\ ~check'.clean
        /\ check'.at = check.at /\ check'.shapes = check.shapes /\ check'.todo = check.todo
        /\ check'.register = check.register /\ check'.cases = check.cases
    BY <2>1, <2>2 DEF Checks
  <2>4. ReadingStands'
    BY <2>1, <2>3, ReplayRests DEF ReadingStands, Requirement!RowLinked
  <2>q. QED BY <2>3, <2>4 DEF ReadingInv
<1>q. QED BY <1>1, <1>2

\* Once something has changed, nothing is promised of a build.
LEMMA NothingSettled ==
    ASSUME settled' = FALSE PROVE BuildStands' /\ Requirement!BuiltVerifies'
  BY DEF BuildStands, Requirement!BuiltVerifies

LEMMA NothingBuilt == ASSUME build' = Requirement!Idle PROVE BuildStands'
  BY DEF BuildStands, Requirement!Idle

LEMMA BeginKeeps == ASSUME RequirementInv, Requirement!Begin PROVE RequirementInv'
<1> DEFINE out == [register |-> Requirement!BuiltRegister, cases |-> Requirement!BuiltCases,
                   mutations |-> [id \in Requirement!Generated |-> Requirement!MutationOf(id)]]
           todo == {id \in Ids : files[id] # None}
<1>1. /\ upbuild = None /\ Requirement!Buildable
      /\ build' = [phase |-> "unlink", todo |-> todo, out |-> out]
      /\ settled' = Requirement!BuiltRegister.approved
      /\ UNCHANGED <<shapes, clauses, files, registers, source, upstream>>
      /\ UNCHANGED <<upbuild, check, passed, rewrites>>
  BY DEF Requirement!Begin, Requirement!inputs
<1>2. out \in Outputs
  <2>1. out.mutations \in [Requirement!Generated -> Fixtures]
    BY <1>1, MutationsAre DEF RequirementInv
  <2>2. Requirement!Generated \in SUBSET Ids
    BY DEF Requirement!Generated, Requirement!Covered
  <2>3. /\ out.register \in RowDocuments /\ out.cases \in CaseLists
    BY <1>1, BuiltRowsStand, BuiltCasesStand DEF RequirementInv
  <2>q. QED BY <2>1, <2>2, <2>3 DEF Outputs
<1>3. Requirement!BuiltRegister.approved => OutputStands(out)
  <2>1. /\ out.register.rows = Requirement!BuiltRows
        /\ out.register.included = Requirement!Included
        /\ out.register.approved = Requirement!BuiltRegister.approved
        /\ out.cases = Requirement!BuiltCases
        /\ out.mutations = [id \in Requirement!Generated |-> Requirement!MutationOf(id)]
    BY DEF Requirement!BuiltRegister
  <2>2. Requirement!Included # None
    BY <1>1 DEF Requirement!Buildable
  <2> HIDE DEF out
  <2>q. QED BY <1>1, <2>1, <2>2, BuiltRowsStand, BuiltCasesStand DEF RequirementInv, OutputStands
<1>4. todo \subseteq Ids
  OBVIOUS
<1> HIDE DEF out, todo
<1>5. build'.phase = "unlink" /\ build'.todo = todo /\ build'.out = out
  BY <1>1
<1>6. BuilderTyped'
  BY <1>1, <1>2, <1>4, <1>5 DEF RequirementInv, BuilderTyped, Builds
<1>7. BuildStands'
  <2>1. SUFFICES ASSUME NEW o \in Outputs, settled', build'.out = o
                 PROVE  (OutputStands(o))'
    BY <1>5 DEF BuildStands
  <2>q. QED BY <1>1, <1>2, <1>3, <1>5, <2>1, OutputRests
<1>8. Requirement!BuiltVerifies'
  BY <1>5 DEF Requirement!BuiltVerifies, Requirement!Idle
<1>q. QED BY <1>1, <1>6, <1>7, <1>8, ReleaseRests, PassedRests, CheckRests DEF RequirementInv

\* A build that is under way keeps what it computed.
LEMMA BuildGoesOn ==
    ASSUME RequirementInv, build.phase # "idle", build'.phase # "idle",
           build'.out = build.out, settled' = settled,
           UNCHANGED <<shapes, clauses, upstream>>,
           files'["positive"] = files["positive"], files'["curated"] = files["curated"],
           \A out \in Outputs : OutputStands(out) /\ settled /\ build.out = out =>
             /\ build'.phase = "mutations" =>
                  \A id \in DOMAIN out.mutations \ build'.todo : files'[id] = out.mutations[id]
             /\ build'.phase = "registers" =>
                  /\ \A id \in DOMAIN out.mutations : files'[id] = out.mutations[id]
                  /\ \A d \in {"rows", "csv", "cases"} \ build'.todo :
                        registers'[d] = Requirement!Document(d, out)
    PROVE  BuildStands' /\ Requirement!BuiltVerifies'
<1>1. BuildStands'
  <2> SUFFICES ASSUME NEW out \in Outputs, settled', build'.out = out
               PROVE  /\ (OutputStands(out))'
                      /\ build'.phase = "mutations" =>
                           \A id \in DOMAIN out.mutations \ build'.todo : files'[id] = out.mutations[id]
                      /\ build'.phase = "registers" =>
                           /\ \A id \in DOMAIN out.mutations : files'[id] = out.mutations[id]
                           /\ \A d \in {"rows", "csv", "cases"} \ build'.todo :
                                 registers'[d] = Requirement!Document(d, out)
    BY DEF BuildStands, Requirement!Document
  <2>1. OutputStands(out)
    BY DEF RequirementInv, BuildStands
  <2>q. QED BY <2>1, OutputRests
<1>2. Requirement!BuiltVerifies'
  BY DEF Requirement!BuiltVerifies, Requirement!Idle
<1>q. QED BY <1>1, <1>2

LEMMA UnlinkKeeps ==
    ASSUME RequirementInv, NEW id \in Ids, Requirement!Unlink(id) PROVE RequirementInv'
<1>1. /\ build.phase = "unlink" /\ id \in build.todo
      /\ files' = [files EXCEPT ![id] = None]
      /\ build' = [build EXCEPT !.todo = @ \ {id}]
      /\ passed' = {} /\ Requirement!Touched
      /\ UNCHANGED <<shapes, clauses, registers, source, upstream>>
      /\ UNCHANGED <<upbuild, settled, rewrites>>
  BY DEF Requirement!Unlink, Requirement!inputs, Requirement!Touched
<1>2. /\ build \in Builds /\ id \in EvidenceFiles /\ id \notin {"positive", "curated"}
  BY RequirementAssumption DEF RequirementInv, BuilderTyped, EvidenceFiles
<1>3. /\ build'.phase = "unlink" /\ build'.out = build.out /\ build' \in Builds
  BY <1>1, <1>2 DEF Builds
<1>4. /\ files' \in [EvidenceFiles -> Fixtures \cup Missing]
      /\ files'["positive"] = files["positive"] /\ files'["curated"] = files["curated"]
  BY <1>1, <1>2 DEF RequirementInv, ReleaseTyped, Missing, EvidenceFiles
<1>5. ReleaseTyped'
  BY <1>1, <1>4 DEF RequirementInv, ReleaseTyped
<1>6. BuilderTyped'
  BY <1>1, <1>3 DEF RequirementInv, BuilderTyped
<1>7. BuildStands' /\ Requirement!BuiltVerifies'
  BY <1>1, <1>3, <1>4, BuildGoesOn
<1>q. QED BY <1>1, <1>5, <1>6, <1>7, NothingPassed, CheckTouched DEF RequirementInv

LEMMA WriteMutationKeeps ==
    ASSUME RequirementInv, NEW id \in Ids, Requirement!WriteMutation(id) PROVE RequirementInv'
<1>1. /\ build.phase = "mutations" /\ id \in build.todo
      /\ files' = [files EXCEPT ![id] = build.out.mutations[id]]
      /\ build' = [build EXCEPT !.todo = @ \ {id}]
      /\ passed' = {} /\ Requirement!Touched
      /\ UNCHANGED <<shapes, clauses, registers, source, upstream>>
      /\ UNCHANGED <<upbuild, settled, rewrites>>
  BY DEF Requirement!WriteMutation, Requirement!inputs, Requirement!Touched
<1>2. /\ build \in Builds /\ id \in EvidenceFiles /\ id \notin {"positive", "curated"}
      /\ build.out \in Outputs /\ id \in DOMAIN build.out.mutations
  BY <1>1, RequirementAssumption DEF RequirementInv, BuilderTyped, EvidenceFiles
<1>3. /\ build'.phase = "mutations" /\ build'.out = build.out /\ build' \in Builds
      /\ build'.todo = build.todo \ {id}
  BY <1>1, <1>2 DEF Builds
<1>4. build.out.mutations[id] \in Fixtures
  BY <1>2 DEF Outputs
<1>5. /\ files' \in [EvidenceFiles -> Fixtures \cup Missing]
      /\ files'["positive"] = files["positive"] /\ files'["curated"] = files["curated"]
      /\ files'[id] = build.out.mutations[id]
      /\ \A f \in EvidenceFiles : f # id => files'[f] = files[f]
  BY <1>1, <1>2, <1>4 DEF RequirementInv, ReleaseTyped, Missing, EvidenceFiles
<1>6. ReleaseTyped'
  BY <1>1, <1>5 DEF RequirementInv, ReleaseTyped
<1>7. BuilderTyped'
  BY <1>1, <1>3 DEF RequirementInv, BuilderTyped
<1>8. ASSUME NEW out \in Outputs, settled, build.out = out,
             NEW i \in DOMAIN out.mutations \ build'.todo
      PROVE  files'[i] = out.mutations[i]
  <2>1. i \in EvidenceFiles
    BY DEF Outputs, EvidenceFiles
  <2>2. CASE i = id
    BY <1>5, <1>8, <2>2
  <2>3. CASE i # id
    BY <1>1, <1>3, <1>5, <1>8, <2>1, <2>3 DEF RequirementInv, BuildStands
  <2>q. QED BY <2>2, <2>3
<1>9. BuildStands' /\ Requirement!BuiltVerifies'
  BY <1>1, <1>3, <1>5, <1>8, BuildGoesOn
<1>q. QED BY <1>1, <1>6, <1>7, <1>9, NothingPassed, CheckTouched DEF RequirementInv

LEMMA WriteRegisterKeeps ==
    ASSUME RequirementInv, NEW d \in {"rows", "csv", "cases"}, Requirement!WriteRegister(d)
    PROVE  RequirementInv'
<1>1. /\ build.phase = "registers" /\ d \in build.todo
      /\ registers' = [registers EXCEPT ![d] = Requirement!Document(d, build.out)]
      /\ build' = [build EXCEPT !.todo = @ \ {d}]
      /\ passed' = {} /\ Requirement!Touched
      /\ UNCHANGED <<shapes, clauses, files, source, upstream>>
      /\ UNCHANGED <<upbuild, settled, rewrites>>
  BY DEF Requirement!WriteRegister, Requirement!inputs, Requirement!Touched
<1>2. build \in Builds /\ build.out \in Outputs
  BY <1>1 DEF RequirementInv, BuilderTyped
<1>3. /\ build'.phase = "registers" /\ build'.out = build.out /\ build' \in Builds
      /\ build'.todo = build.todo \ {d}
  BY <1>1, <1>2 DEF Builds
<1>4. /\ d \in {"rows", "csv"} => Requirement!Document(d, build.out) \in RowDocuments
      /\ d = "cases" => /\ Requirement!Document(d, build.out) \in CaseDocuments
                        /\ Requirement!Document(d, build.out) \in [cases : CaseLists, approved : BOOLEAN]
  BY <1>2 DEF Requirement!Document, Outputs, RowDocuments, CaseDocuments, CaseLists
<1> DEFINE document_ == Requirement!Document(d, build.out)
<1>5. registers' = [registers EXCEPT ![d] = document_]
  BY <1>1
<1> HIDE DEF document_
<1>6. ReleaseTyped'
  <2>1. registers' \in [{"rows", "csv", "cases"} -> RowDocuments \cup CaseDocuments \cup Missing]
    BY <1>4, <1>5 DEF RequirementInv, ReleaseTyped, document_
  <2>2. /\ registers'["rows"] \in RowDocuments \cup Missing
        /\ registers'["cases"] \in [cases : CaseLists, approved : BOOLEAN] \cup Missing
    BY <1>4, <1>5 DEF RequirementInv, ReleaseTyped, document_
  <2>q. QED BY <1>1, <2>1, <2>2 DEF RequirementInv, ReleaseTyped
<1>7. BuilderTyped'
  BY <1>1, <1>3 DEF RequirementInv, BuilderTyped
<1>8. ASSUME NEW out \in Outputs, settled, build.out = out,
             NEW x \in {"rows", "csv", "cases"} \ build'.todo
      PROVE  registers'[x] = Requirement!Document(x, out)
  <2>1. CASE x = d
    BY <1>5, <1>8, <2>1 DEF RequirementInv, ReleaseTyped, document_
  <2>2. CASE x # d
    BY <1>1, <1>3, <1>5, <1>8, <2>2 DEF RequirementInv, ReleaseTyped, BuildStands
  <2>q. QED BY <2>1, <2>2
<1>9. ASSUME NEW out \in Outputs, settled, build.out = out, NEW id \in DOMAIN out.mutations
      PROVE  files'[id] = out.mutations[id]
  BY <1>1, <1>9 DEF RequirementInv, BuildStands
<1>10. BuildStands' /\ Requirement!BuiltVerifies'
  BY <1>1, <1>3, <1>8, <1>9, BuildGoesOn
<1>q. QED BY <1>1, <1>6, <1>7, <1>10, NothingPassed, CheckTouched DEF RequirementInv

\* What was built and written in full is what the verifier accepts.
LEMMA OutputIsTraceable ==
    ASSUME NEW out \in Outputs, OutputStands(out),
           \A id \in DOMAIN out.mutations : files[id] = out.mutations[id],
           \A d \in {"rows", "csv", "cases"} : registers[d] = Requirement!Document(d, out),
           \A k \in Keys : Flaws[shapes[k].rule] = {}
    PROVE  Requirement!Traceable
<1> DEFINE reg == out.register
           cs == out.cases
           both == [cases |-> cs, approved |-> reg.approved]
<1>1. registers["rows"] = reg /\ registers["csv"] = reg
  BY DEF Requirement!Document
<1>2. registers["cases"] = both
  BY DEF Requirement!Document
<1>3. reg \in RowDocuments /\ cs \in CaseLists /\ reg.approved \in BOOLEAN
  BY DEF Outputs, RowDocuments
<1>4. both \in CaseDocuments /\ both.cases = cs /\ both.approved = reg.approved
  BY <1>3 DEF CaseDocuments, CaseLists
<1>5. /\ Requirement!Included # None /\ reg.included = Requirement!Included /\ reg.approved
      /\ Requirement!ClausesAgree(reg.rows) /\ RowsFit(reg.rows)
      /\ CasesStand(cs, out.mutations)
      /\ \A k \in Keys : Requirement!RowLinked(reg.rows[k], cs)
  BY DEF OutputStands
<1>6. ASSUME NEW f \in DOMAIN cs PROVE Requirement!CaseHolds(shapes, files[f], cs[f], Ids)
  <2>1. CaseStands(shapes, cs[f], Ids) /\ files[f] = cs[f].content
    BY <1>5 DEF CasesStand
  <2>q. QED BY <2>1, CaseHoldsWhere
<1>7. {reg.rows[k].id : k \in Keys} = Ids
  BY <1>5 DEF Requirement!ClausesAgree
<1>8. Requirement!ShapesStand(shapes) /\ Requirement!RowsAgree(shapes, reg.rows)
  BY <1>5 DEF RowsFit, Requirement!ShapesStand, Requirement!RowsAgree, Requirement!Fields
<1>a. Requirement!ApprovedIds(reg.rows) = Ids
  BY <1>7 DEF Requirement!ApprovedIds
<1> HIDE DEF reg, cs, both
<1>9. ASSUME NEW d \in {"rows", "csv", "cases"} PROVE registers[d] \notin {None, Torn}
  BY <1>1, <1>2, <1>3, <1>4, RequirementAssumption
<1>q. QED
  BY <1>1, <1>2, <1>4, <1>5, <1>6, <1>8, <1>9, <1>a DEF Requirement!Traceable, Requirement!Registers

LEMMA NextPhaseKeeps == ASSUME RequirementInv, Requirement!NextPhase PROVE RequirementInv'
<1>1. /\ build.phase # "idle" /\ build.todo = {}
      /\ UNCHANGED <<shapes, clauses, files, registers, source, upstream>>
      /\ UNCHANGED <<upbuild, check, passed, settled, rewrites>>
  BY DEF Requirement!NextPhase, Requirement!inputs
<1>2. /\ build \in Builds /\ build.out \in Outputs /\ upbuild = None
      /\ build.phase \in {"unlink", "mutations", "registers"}
  BY <1>1 DEF RequirementInv, BuilderTyped, Builds
<1>3. ReleaseTyped' /\ PassedStands' /\ ReadingInv'
  BY <1>1, ReleaseRests, PassedRests, CheckRests DEF RequirementInv
<1>4. /\ files'["positive"] = files["positive"] /\ files'["curated"] = files["curated"]
      /\ settled' = settled /\ UNCHANGED <<shapes, clauses, upstream>>
  BY <1>1
<1>5. CASE build.phase = "unlink"
  <2> DEFINE todo == DOMAIN build.out.mutations
  <2>1. todo \subseteq Ids
    BY <1>2 DEF Outputs
  <2>2. build' = [build EXCEPT !.phase = "mutations", !.todo = todo]
    BY <1>5 DEF Requirement!NextPhase
  <2> HIDE DEF todo
  <2>3. /\ build' \in Builds /\ build'.phase = "mutations" /\ build'.todo = todo
        /\ build'.out = build.out
    BY <1>2, <2>1, <2>2 DEF Builds
  <2>4. BuilderTyped'
    BY <1>1, <1>2, <2>3 DEF RequirementInv, BuilderTyped, todo
  <2>5. BuildStands' /\ Requirement!BuiltVerifies'
    <3>1. \A out \in Outputs : build.out = out => DOMAIN out.mutations \ build'.todo = {}
      BY <2>3 DEF todo
    <3>q. QED BY <1>1, <1>4, <2>3, <3>1, BuildGoesOn
  <2>q. QED BY <1>3, <2>4, <2>5 DEF RequirementInv
<1>6. CASE build.phase = "mutations"
  <2>1. build' = [build EXCEPT !.phase = "registers", !.todo = {"rows", "csv", "cases"}]
    BY <1>6 DEF Requirement!NextPhase, Requirement!Registers
  <2>2. /\ build' \in Builds /\ build'.phase = "registers"
        /\ build'.todo = {"rows", "csv", "cases"} /\ build'.out = build.out
    BY <1>2, <2>1 DEF Builds
  <2>3. BuilderTyped'
    BY <1>1, <1>2, <2>2 DEF RequirementInv, BuilderTyped
  <2>4. ASSUME NEW out \in Outputs, settled, build.out = out, NEW id \in DOMAIN out.mutations
        PROVE  files'[id] = out.mutations[id]
    BY <1>1, <1>6, <2>4 DEF RequirementInv, BuildStands
  <2>5. BuildStands' /\ Requirement!BuiltVerifies'
    BY <1>1, <1>4, <2>2, <2>4, BuildGoesOn
  <2>q. QED BY <1>3, <2>3, <2>5 DEF RequirementInv
<1>7. CASE build.phase = "registers"
  <2>1. build' = Requirement!Idle
    BY <1>7 DEF Requirement!NextPhase
  <2>2. build' \in Builds /\ build'.phase = "idle"
    BY <2>1 DEF Requirement!Idle, Builds
  <2>3. BuilderTyped'
    BY <1>1, <2>1, <2>2 DEF RequirementInv, BuilderTyped, Requirement!Idle
  <2>4. ASSUME settled, \A k \in Keys : Flaws[shapes[k].rule] = {}
        PROVE  Requirement!Traceable
    <3>1. PICK out \in Outputs : build.out = out
      BY <1>2
    <3>2. /\ OutputStands(out)
          /\ \A id \in DOMAIN out.mutations : files[id] = out.mutations[id]
          /\ \A d \in {"rows", "csv", "cases"} : registers[d] = Requirement!Document(d, out)
      BY <1>1, <1>7, <2>4, <3>1 DEF RequirementInv, BuildStands
    <3>q. QED BY <2>4, <3>2, OutputIsTraceable
  <2>5. Requirement!BuiltVerifies'
    <3>1. Requirement!Traceable' = Requirement!Traceable
      BY <1>1, TraceableRests
    <3>q. QED BY <1>1, <2>4, <3>1 DEF Requirement!BuiltVerifies
  <2>q. QED BY <1>3, <2>1, <2>3, <2>5, NothingBuilt DEF RequirementInv
<1>q. QED BY <1>2, <1>5, <1>6, <1>7

LEMMA InterruptedKeeps == ASSUME RequirementInv, Requirement!Interrupted PROVE RequirementInv'
<1>1. /\ build.phase # "idle" /\ rewrites < RequirementEdits /\ rewrites' = rewrites + 1
      /\ build' = Requirement!Idle /\ passed' = {} /\ settled' = FALSE /\ Requirement!Touched
      /\ UNCHANGED <<shapes, clauses, source, upstream, upbuild>>
  BY DEF Requirement!Interrupted, Requirement!inputs, Requirement!Touched
<1>2. PICK cut \in SUBSET build.todo :
        /\ files' = [f \in EvidenceFiles |->
                       IF build.phase = "mutations" /\ f \in cut THEN Torn ELSE files[f]]
        /\ registers' = [d \in {"rows", "csv", "cases"} |->
                           IF build.phase = "registers" /\ d \in cut THEN Torn ELSE registers[d]]
  BY FilesAre DEF Requirement!Interrupted, Requirement!Registers
<1>3. /\ files' \in [EvidenceFiles -> Fixtures \cup Missing]
      /\ files'["positive"] = files["positive"] /\ files'["curated"] = files["curated"]
  <2>1. build.phase = "mutations" => cut \subseteq Ids
    BY DEF RequirementInv, BuilderTyped, Outputs
  <2>2. {"positive", "curated"} \subseteq EvidenceFiles /\ Ids \cap {"positive", "curated"} = {}
    BY RequirementAssumption DEF EvidenceFiles
  <2>q. QED BY <1>2, <2>1, <2>2 DEF RequirementInv, ReleaseTyped, Missing
<1>4. /\ registers' \in [{"rows", "csv", "cases"} -> RowDocuments \cup CaseDocuments \cup Missing]
      /\ registers'["rows"] \in RowDocuments \cup Missing
      /\ registers'["cases"] \in [cases : CaseLists, approved : BOOLEAN] \cup Missing
  BY <1>2 DEF RequirementInv, ReleaseTyped, Missing
<1>5. ReleaseTyped'
  BY <1>1, <1>3, <1>4 DEF RequirementInv, ReleaseTyped
<1>6. BuilderTyped'
  <2>1. rewrites' \in 0..RequirementEdits
    BY <1>1, RequirementAssumption DEF RequirementInv, BuilderTyped
  <2>2. build' \in Builds /\ build'.phase = "idle"
    BY <1>1 DEF Requirement!Idle, Builds
  <2>q. QED BY <1>1, <2>1, <2>2 DEF RequirementInv, BuilderTyped
<1>q. QED BY <1>1, <1>5, <1>6, NothingSettled, NothingPassed, CheckTouched DEF RequirementInv

\* A build that is not touched keeps what it has, whatever the verifiers do.
LEMMA RequirementRests ==
    ASSUME BuildStands, settled' = settled, UNCHANGED build,
           UNCHANGED <<shapes, clauses, files, registers, upstream>>
    PROVE  BuildStands'
<1> SUFFICES ASSUME NEW out \in Outputs, settled', build'.phase # "idle", build'.out = out
             PROVE  /\ (OutputStands(out))'
                    /\ build'.phase = "mutations" =>
                         \A id \in DOMAIN out.mutations \ build'.todo : files'[id] = out.mutations[id]
                    /\ build'.phase = "registers" =>
                         /\ \A id \in DOMAIN out.mutations : files'[id] = out.mutations[id]
                         /\ \A d \in {"rows", "csv", "cases"} \ build'.todo :
                               registers'[d] = Requirement!Document(d, out)
  BY DEF BuildStands, Requirement!Document
<1>1. OutputStands(out)
  BY DEF BuildStands
<1>q. QED BY <1>1, OutputRests DEF BuildStands

\* A step of a verifier changes nothing that is on disk.
LEMMA VerifierKeeps ==
    ASSUME RequirementInv, Requirement!Checking, ReadingInv',
           \/ passed' = passed
           \/ passed' = passed \cup {"local"} /\ Requirement!Traceable
           \/ passed' = passed \cup {"upstream"} /\ Requirement!Rebuilt
    PROVE  RequirementInv'
<1>1. /\ UNCHANGED <<shapes, clauses, files, registers, source, upstream>>
      /\ UNCHANGED <<build, upbuild, settled, rewrites>>
  BY DEF Requirement!Checking, Requirement!inputs
<1>2. BuilderTyped'
  BY <1>1 DEF RequirementInv, BuilderTyped
<1>3. Requirement!Traceable' = Requirement!Traceable
  BY <1>1, TraceableRests
<1>4. Requirement!Rebuilt' = Requirement!Rebuilt
  BY <1>1 DEF Requirement!Rebuilt, Requirement!SourceBuilds, Requirement!ScansAsPinned,
     Requirement!ShardsIsolate
<1>5. PassedStands'
  BY <1>1, <1>3, <1>4 DEF RequirementInv, PassedStands
<1>6. BuildStands' /\ Requirement!BuiltVerifies'
  BY <1>1, <1>3, RequirementRests DEF RequirementInv, Requirement!BuiltVerifies
<1>q. QED BY <1>1, <1>2, <1>5, <1>6, ReleaseRests DEF RequirementInv

LEMMA CheckingRests ==
    ASSUME Requirement!Checking
    PROVE  UNCHANGED <<shapes, clauses, files, registers, upstream>>
  BY DEF Requirement!Checking, Requirement!inputs

LEMMA VerifyUpstreamKeeps ==
    ASSUME RequirementInv, Requirement!VerifyUpstream PROVE RequirementInv'
<1>1. ReadingInv'
  BY CheckingRests, CheckRests DEF RequirementInv, Requirement!VerifyUpstream
<1>q. QED BY <1>1, VerifierKeeps DEF Requirement!VerifyUpstream

LEMMA ScanShapesKeeps == ASSUME RequirementInv, Requirement!ScanShapes PROVE RequirementInv'
<1>1. /\ Requirement!Checking /\ passed' = passed /\ Requirement!ShapesStand(shapes)
      /\ check' = [at |-> "register", shapes |-> shapes, register |-> None, cases |-> None,
                   todo |-> {}, clean |-> TRUE]
  BY DEF Requirement!ScanShapes
<1>2. check' \in Checks /\ check'.at = "register" /\ check'.shapes = shapes
  BY <1>1 DEF Checks, RequirementInv, ReleaseTyped
<1>3. ReadingStands'
  BY <1>2 DEF ReadingStands
<1>4. ReadingIsOfDisk'
  BY <1>1, <1>2, CheckingRests, DiskRests DEF ReadingIsOfDisk
<1>q. QED BY <1>1, <1>2, <1>3, <1>4, VerifierKeeps DEF ReadingInv

LEMMA ReadRegisterKeeps == ASSUME RequirementInv, Requirement!ReadRegister PROVE RequirementInv'
<1>1. /\ Requirement!Checking /\ passed' = passed /\ check # None /\ check.at = "register"
      /\ registers["rows"] \notin Missing /\ registers["rows"].approved
      /\ Requirement!RowsAgree(check.shapes, registers["rows"].rows)
      /\ check' = [check EXCEPT !.at = "included", !.shapes = None, !.register = registers["rows"]]
  BY DEF Requirement!ReadRegister, Missing
<1>2. check \in Checks /\ (check.clean => ReadingIsOfDisk) /\ registers["rows"] \in RowDocuments
  BY <1>1 DEF RequirementInv, ReadingInv, ReleaseTyped
<1>3. /\ check' \in Checks /\ check'.at = "included" /\ check'.register = registers["rows"]
      /\ check'.clean = check.clean
  BY <1>1, <1>2 DEF Checks
<1>4. ReadingStands'
  BY <1>2, <1>3 DEF ReadingStands
<1>5. check.clean => ReadingIsOfDisk'
  BY <1>1, <1>2, <1>3, CheckingRests, DiskRests DEF ReadingIsOfDisk
<1>q. QED BY <1>1, <1>3, <1>4, <1>5, VerifierKeeps DEF ReadingInv

\* A document that agrees with what was read before.
LEMMA ReadDocumentKeeps ==
    ASSUME RequirementInv,
           NEW at \in {"included", "clauses", "csv"}, NEW next \in {"clauses", "csv", "cases"},
           NEW agrees \in BOOLEAN, Requirement!ReadDocument(at, next, agrees),
           check.clean => ReadingIsOfDisk'
    PROVE  RequirementInv'
<1>1. /\ Requirement!Checking /\ passed' = passed /\ check # None /\ check.at = at
      /\ check' = [check EXCEPT !.at = next]
  BY DEF Requirement!ReadDocument
<1>2. check \in Checks /\ ReadingStands
  BY <1>1 DEF RequirementInv, ReadingInv
<1>3. /\ check' \in Checks /\ check'.at = next /\ check'.clean = check.clean
      /\ check'.register = check.register
  BY <1>1, <1>2 DEF Checks
<1>4. ReadingStands'
  BY <1>1, <1>2, <1>3 DEF ReadingStands
<1>q. QED BY <1>1, <1>3, <1>4, VerifierKeeps DEF ReadingInv

LEMMA ReadIncludedKeeps == ASSUME RequirementInv, Requirement!ReadIncluded PROVE RequirementInv'
<1> DEFINE agrees == Requirement!Included # None /\ check.register.included = Requirement!Included
<1>1. Requirement!ReadDocument("included", "clauses", agrees)
  BY DEF Requirement!ReadIncluded
<1>2. /\ Requirement!Checking /\ check # None /\ check.at = "included" /\ agrees
      /\ check' = [check EXCEPT !.at = "clauses"] /\ check \in Checks
      /\ check.clean => ReadingIsOfDisk
  BY <1>1 DEF Requirement!ReadDocument, RequirementInv, ReadingInv
<1>3. check'.at = "clauses" /\ check'.register = check.register
  BY <1>2 DEF Checks
<1>4. check.clean => ReadingIsOfDisk'
  BY <1>2, <1>3, CheckingRests, DiskRests DEF ReadingIsOfDisk
<1>5. agrees \in BOOLEAN
  OBVIOUS
<1> HIDE DEF agrees
<1>q. QED BY <1>1, <1>4, <1>5, ReadDocumentKeeps

LEMMA ReadClausesKeeps == ASSUME RequirementInv, Requirement!ReadClauses PROVE RequirementInv'
<1> DEFINE agrees == Requirement!ClausesAgree(check.register.rows)
<1>1. Requirement!ReadDocument("clauses", "csv", agrees)
  BY DEF Requirement!ReadClauses
<1>2. /\ Requirement!Checking /\ check # None /\ check.at = "clauses" /\ agrees
      /\ check' = [check EXCEPT !.at = "csv"] /\ check \in Checks
      /\ check.clean => ReadingIsOfDisk
  BY <1>1 DEF Requirement!ReadDocument, RequirementInv, ReadingInv
<1>3. check'.at = "csv" /\ check'.register = check.register
  BY <1>2 DEF Checks
<1>4. check.clean => ReadingIsOfDisk'
  BY <1>2, <1>3, CheckingRests, DiskRests DEF ReadingIsOfDisk
<1>5. agrees \in BOOLEAN
  BY DEF Requirement!ClausesAgree
<1> HIDE DEF agrees
<1>q. QED BY <1>1, <1>4, <1>5, ReadDocumentKeeps

LEMMA ReadProjectionKeeps == ASSUME RequirementInv, Requirement!ReadProjection PROVE RequirementInv'
<1> DEFINE agrees == registers["csv"] = check.register
<1>1. Requirement!ReadDocument("csv", "cases", agrees)
  BY DEF Requirement!ReadProjection
<1>2. /\ Requirement!Checking /\ check # None /\ check.at = "csv" /\ agrees
      /\ check' = [check EXCEPT !.at = "cases"] /\ check \in Checks
      /\ check.clean => ReadingIsOfDisk
  BY <1>1 DEF Requirement!ReadDocument, RequirementInv, ReadingInv
<1>3. check'.at = "cases" /\ check'.register = check.register
  BY <1>2 DEF Checks
<1>4. check.clean => ReadingIsOfDisk'
  BY <1>2, <1>3, CheckingRests, DiskRests DEF ReadingIsOfDisk
<1>5. agrees \in BOOLEAN
  OBVIOUS
<1> HIDE DEF agrees
<1>q. QED BY <1>1, <1>4, <1>5, ReadDocumentKeeps

LEMMA ReadCasesKeeps == ASSUME RequirementInv, Requirement!ReadCases PROVE RequirementInv'
<1>1. /\ Requirement!Checking /\ passed' = passed /\ check # None /\ check.at = "cases"
      /\ registers["cases"] \notin Missing /\ registers["cases"].approved
      /\ check' = [check EXCEPT !.at = "runtime", !.cases = registers["cases"].cases]
  BY DEF Requirement!ReadCases, Missing
<1>2. /\ check \in Checks /\ ReadingStands /\ (check.clean => ReadingIsOfDisk)
      /\ registers["cases"].cases \in CaseLists
  BY <1>1 DEF RequirementInv, ReadingInv, ReleaseTyped
<1>3. /\ check' \in Checks /\ check'.at = "runtime" /\ check'.register = check.register
      /\ check'.cases = registers["cases"].cases /\ check'.clean = check.clean
  BY <1>1, <1>2 DEF Checks
<1>4. ReadingStands'
  BY <1>1, <1>2, <1>3 DEF ReadingStands
<1>5. check.clean => ReadingIsOfDisk'
  BY <1>1, <1>2, <1>3, CheckingRests, DiskRests DEF ReadingIsOfDisk
<1>q. QED BY <1>1, <1>3, <1>4, <1>5, VerifierKeeps DEF ReadingInv

LEMMA LoadRuntimeKeeps == ASSUME RequirementInv, Requirement!LoadRuntime PROVE RequirementInv'
<1>1. /\ Requirement!Checking /\ passed' = passed /\ check # None /\ check.at = "runtime"
      /\ check' = [check EXCEPT !.at = "replay", !.shapes = shapes, !.todo = DOMAIN check.cases]
  BY DEF Requirement!LoadRuntime
<1>2. /\ check \in Checks /\ ReadingStands /\ (check.clean => ReadingIsOfDisk) /\ shapes \in Shapes
      /\ check.cases \in CaseLists
  BY <1>1 DEF RequirementInv, ReadingInv, ReadingStands, ReleaseTyped
<1>3. DOMAIN check.cases \in SUBSET EvidenceFiles
  BY <1>2 DEF CaseLists
<1>4. /\ check' \in Checks /\ check'.at = "replay" /\ check'.register = check.register
      /\ check'.cases = check.cases /\ check'.shapes = shapes /\ check'.todo = DOMAIN check.cases
      /\ check'.clean = check.clean
  BY <1>1, <1>2, <1>3 DEF Checks
<1>5. ReadingStands'
  BY <1>1, <1>2, <1>4, CheckingRests DEF ReadingStands
<1>6. check.clean => ReadingIsOfDisk'
  BY <1>1, <1>2, <1>4, CheckingRests, DiskRests DEF ReadingIsOfDisk
<1>q. QED BY <1>1, <1>4, <1>5, <1>6, VerifierKeeps DEF ReadingInv

LEMMA ReplayKeeps == ASSUME RequirementInv, Requirement!Replay PROVE RequirementInv'
<1>1. /\ Requirement!Checking /\ passed' = passed /\ check # None /\ check.at = "replay"
      /\ check.todo # {}
  BY DEF Requirement!Replay
<1>2. PICK x \in check.todo :
        /\ Requirement!CaseHolds(check.shapes, files[x], check.cases[x],
                                 Requirement!ApprovedIds(check.register.rows))
        /\ check' = [check EXCEPT !.todo = @ \ {x}]
  BY <1>1 DEF Requirement!Replay
<1>3. check \in Checks /\ ReadingStands /\ (check.clean => ReadingIsOfDisk)
  BY <1>1 DEF RequirementInv, ReadingInv
<1>4. /\ check' \in Checks /\ check'.at = "replay" /\ check'.register = check.register
      /\ check'.cases = check.cases /\ check'.shapes = check.shapes
      /\ check'.todo = check.todo \ {x} /\ check'.clean = check.clean
  BY <1>1, <1>2, <1>3 DEF Checks
<1>5. /\ files[x] = check.cases[x].content
      /\ CaseStands(check.shapes, check.cases[x], Requirement!ApprovedIds(check.register.rows))
  BY <1>2, CaseHoldsWhere
<1>6. ReadingStands'
  <2>1. \A f \in DOMAIN check.cases \ check'.todo :
          CaseStands(check.shapes, check.cases[f], Requirement!ApprovedIds(check.register.rows))
    BY <1>1, <1>3, <1>4, <1>5 DEF ReadingStands
  <2>2. \A f \in DOMAIN check'.cases \ check'.todo :
          CaseStands(check.shapes, check.cases[f], Requirement!ApprovedIds(check.register.rows))'
    BY <1>4, <2>1, ReplayRests
  <2>q. QED BY <1>1, <1>3, <1>4, <2>2 DEF ReadingStands
<1>7. check.clean => ReadingIsOfDisk'
  BY <1>1, <1>3, <1>4, <1>5, CheckingRests, DiskRests DEF ReadingIsOfDisk
<1>q. QED BY <1>1, <1>4, <1>6, <1>7, VerifierKeeps DEF ReadingInv

LEMMA PassKeeps == ASSUME RequirementInv, Requirement!Pass PROVE RequirementInv'
<1>1. /\ Requirement!Checking /\ check # None /\ check.at = "replay" /\ check.todo = {}
      /\ \A k \in Keys : Requirement!RowLinked(check.register.rows[k], check.cases)
      /\ check' = [check EXCEPT !.at = "passed"]
      /\ passed' = IF check.clean THEN passed \cup {"local"} ELSE passed
  BY DEF Requirement!Pass
<1>2. check \in Checks /\ ReadingStands /\ (check.clean => ReadingIsOfDisk)
  BY <1>1 DEF RequirementInv, ReadingInv
<1>3. /\ check' \in Checks /\ check'.at = "passed" /\ check'.register = check.register
      /\ check'.cases = check.cases /\ check'.shapes = check.shapes
      /\ check'.todo = check.todo /\ check'.clean = check.clean
  BY <1>1, <1>2 DEF Checks
<1>4. ReadingStands'
  <2>1. \A f \in DOMAIN check'.cases \ check'.todo :
          CaseStands(check.shapes, check.cases[f], Requirement!ApprovedIds(check.register.rows))'
    BY <1>1, <1>2, <1>3, ReplayRests DEF ReadingStands
  <2>2. \A k \in Keys : Requirement!RowLinked(check.register.rows[k], check.cases)'
    BY <1>1, <1>3 DEF Requirement!RowLinked
  <2>q. QED BY <1>1, <1>2, <1>3, <2>1, <2>2 DEF ReadingStands
<1>5. check.clean => ReadingIsOfDisk'
  BY <1>1, <1>2, <1>3, CheckingRests, DiskRests DEF ReadingIsOfDisk
<1>6. ASSUME check.clean PROVE Requirement!Traceable
  <2> DEFINE reg == registers["rows"]
             cs == registers["cases"].cases
  <2>1. /\ check.register = reg /\ reg.approved
        /\ Requirement!ShapesStand(shapes) /\ Requirement!RowsAgree(shapes, reg.rows)
        /\ Requirement!Included # None /\ reg.included = Requirement!Included
        /\ Requirement!ClausesAgree(reg.rows) /\ registers["csv"] = reg
        /\ registers["cases"] \notin Missing /\ registers["cases"].approved
        /\ check.cases = cs /\ check.shapes = shapes
        /\ \A f \in DOMAIN cs : files[f] = cs[f].content
    BY <1>1, <1>2, <1>6 DEF ReadingIsOfDisk
  <2>2. reg \in RowDocuments
    BY <1>1, <1>2, <2>1 DEF ReadingStands
  <2>3. \A d \in {"rows", "csv", "cases"} : registers[d] \notin {None, Torn}
    BY <2>1, <2>2, RequirementAssumption DEF Missing
  <2>4. \A f \in DOMAIN cs :
          Requirement!CaseHolds(shapes, files[f], cs[f], Requirement!ApprovedIds(reg.rows))
    BY <1>1, <1>2, <2>1, CaseHoldsWhere DEF ReadingStands
  <2>5. \A k \in Keys : Requirement!RowLinked(reg.rows[k], cs)
    BY <1>1, <2>1
  <2>q. QED BY <2>1, <2>3, <2>4, <2>5 DEF Requirement!Traceable, Requirement!Registers
<1>q. QED BY <1>1, <1>3, <1>4, <1>5, <1>6, VerifierKeeps DEF ReadingInv

LEMMA LeaveKeeps == ASSUME RequirementInv, Requirement!Leave PROVE RequirementInv'
<1>1. ReadingInv'
  BY DEF Requirement!Leave, ReadingInv
<1>q. QED BY <1>1, VerifierKeeps DEF Requirement!Leave

LEMMA BeginUpstreamKeeps ==
    ASSUME RequirementInv, Requirement!BeginUpstream PROVE RequirementInv'
<1>1. /\ UNCHANGED <<shapes, clauses, files, registers, source, upstream>>
      /\ UNCHANGED <<build, check, passed, settled, rewrites>>
      /\ build = Requirement!Idle /\ upbuild' = [next |-> 1, version |-> source]
  BY DEF Requirement!BeginUpstream, Requirement!inputs
<1>2. BuilderTyped'
  <2>1. upbuild' \in [next : Nat, version : Versions]
    BY <1>1 DEF RequirementInv, ReleaseTyped
  <2>2. build'.phase = "idle"
    BY <1>1 DEF Requirement!Idle
  <2>q. QED BY <1>1, <2>1, <2>2 DEF RequirementInv, BuilderTyped
<1>3. BuildStands' /\ Requirement!BuiltVerifies'
  BY <1>1, TraceableRests, RequirementRests DEF RequirementInv, Requirement!BuiltVerifies
<1>q. QED BY <1>1, <1>2, <1>3, ReleaseRests, PassedRests, CheckRests DEF RequirementInv

\* A write of the upstream builder, or what is left of one.
LEMMA UpstreamKeeps ==
    ASSUME RequirementInv, Requirement!WriteUpstream \/ Requirement!InterruptedUpstream
    PROVE  RequirementInv'
<1>1. /\ UNCHANGED <<shapes, clauses, files, registers, source, build>>
      /\ upbuild # None /\ passed' = {} /\ settled' = FALSE /\ Requirement!Touched
      /\ UNCHANGED rewrites \/ (rewrites < RequirementEdits /\ rewrites' = rewrites + 1)
  BY DEF Requirement!WriteUpstream, Requirement!InterruptedUpstream, Requirement!inputs,
     Requirement!Touched
<1>2. upbuild \in [next : Nat, version : Versions] /\ build = Requirement!Idle
  BY <1>1 DEF RequirementInv, BuilderTyped
<1>3. upstream' \in [{"shards", "csv", "inventory"} -> Versions \cup Missing]
  <2>1. \/ UNCHANGED upstream
        \/ \E v \in Versions \cup Missing : \E u :
             upstream' = [upstream EXCEPT ![u] = v]
    BY <1>2 DEF Requirement!WriteUpstream, Requirement!InterruptedUpstream, Missing
  <2>q. QED BY <2>1 DEF RequirementInv, ReleaseTyped
<1>4. upbuild' \in [next : Nat, version : Versions] \cup {None}
  <2>1. CASE upbuild' = None
    BY <2>1
  <2>2. CASE upbuild' = [upbuild EXCEPT !.next = @ + 1]
    BY <1>2, <2>2
  <2>q. QED BY <2>1, <2>2 DEF Requirement!WriteUpstream, Requirement!InterruptedUpstream
<1>5. ReleaseTyped'
  BY <1>1, <1>3 DEF RequirementInv, ReleaseTyped
<1>6. BuilderTyped'
  <2>1. rewrites' \in 0..RequirementEdits
    BY <1>1, RequirementAssumption DEF RequirementInv, BuilderTyped
  <2>2. build' = Requirement!Idle /\ build'.phase = "idle" /\ build' \in Builds
    BY <1>1, <1>2 DEF Requirement!Idle, Builds
  <2>q. QED BY <1>1, <1>4, <2>1, <2>2 DEF BuilderTyped
<1>q. QED BY <1>1, <1>5, <1>6, NothingSettled, NothingPassed, CheckTouched DEF RequirementInv

LEMMA EditedKeeps ==
    ASSUME RequirementInv, Requirement!Edited, ReleaseTyped' PROVE RequirementInv'
<1>1. /\ rewrites < RequirementEdits /\ rewrites' = rewrites + 1
      /\ passed' = {} /\ Requirement!Touched /\ settled' = FALSE /\ UNCHANGED <<build, upbuild>>
  BY DEF Requirement!Edited, Requirement!Touched
<1>2. BuilderTyped'
  BY <1>1, RequirementAssumption DEF RequirementInv, BuilderTyped
<1>q. QED BY <1>1, <1>2, NothingSettled, NothingPassed, CheckTouched DEF RequirementInv

LEMMA EditShapeKeeps ==
    ASSUME RequirementInv, NEW k \in Keys, NEW id \in Ids \cup {None}, NEW r \in Rules,
           Requirement!EditShape(k, [id |-> id, rule |-> r])
    PROVE  RequirementInv'
<1>1. /\ Requirement!Edited /\ UNCHANGED <<clauses, files, source, registers, upstream>>
      /\ shapes' = [shapes EXCEPT ![k] = [id |-> id, rule |-> r]]
  BY DEF Requirement!EditShape, Requirement!Edited
<1>2. shapes' \in Shapes
  BY <1>1 DEF RequirementInv, ReleaseTyped, Shapes
<1>3. ReleaseTyped'
  BY <1>1, <1>2 DEF RequirementInv, ReleaseTyped
<1>q. QED BY <1>1, <1>3, EditedKeeps

LEMMA EditClauseKeeps ==
    ASSUME RequirementInv, NEW id \in Ids, NEW r \in Rules,
           Requirement!EditClause(id, Shown[r])
    PROVE  RequirementInv'
<1>1. /\ Requirement!Edited /\ UNCHANGED <<shapes, files, source, registers, upstream>>
      /\ clauses' = [clauses EXCEPT ![id] = Shown[r]]
  BY DEF Requirement!EditClause, Requirement!Edited
<1>2. clauses' \in [Ids -> ShownFields]
  BY <1>1 DEF RequirementInv, ReleaseTyped, ShownFields
<1>3. ReleaseTyped'
  BY <1>1, <1>2 DEF RequirementInv, ReleaseTyped
<1>q. QED BY <1>1, <1>3, EditedKeeps

LEMMA EditFixtureKeeps ==
    ASSUME RequirementInv, NEW f \in {"positive", "curated"}, NEW x \in Fixtures,
           Requirement!EditFixture(f, x)
    PROVE  RequirementInv'
<1>1. /\ Requirement!Edited /\ UNCHANGED <<shapes, clauses, source, registers, upstream>>
      /\ files' = [files EXCEPT ![f] = x]
  BY DEF Requirement!EditFixture, Requirement!Edited
<1>2. /\ files' \in [EvidenceFiles -> Fixtures \cup Missing]
      /\ files'["positive"] \in Fixtures /\ files'["curated"] \in Fixtures
  BY <1>1 DEF RequirementInv, ReleaseTyped, EvidenceFiles
<1>3. ReleaseTyped'
  BY <1>1, <1>2 DEF RequirementInv, ReleaseTyped
<1>q. QED BY <1>1, <1>3, EditedKeeps

LEMMA EditSourceKeeps ==
    ASSUME RequirementInv, NEW v \in Versions, Requirement!EditSource(v) PROVE RequirementInv'
<1>1. /\ Requirement!Edited /\ UNCHANGED <<shapes, clauses, files, registers, upstream>>
      /\ source' = v
  BY DEF Requirement!EditSource, Requirement!Edited
<1>2. ReleaseTyped'
  BY <1>1 DEF RequirementInv, ReleaseTyped
<1>q. QED BY <1>1, <1>2, EditedKeeps

LEMMA RequirementStays ==
    RequirementInv /\ [Requirement!Next]_requirement_vars => RequirementInv'
<1> SUFFICES ASSUME RequirementInv, [Requirement!Next]_requirement_vars PROVE RequirementInv'
  OBVIOUS
<1>1. CASE Requirement!Begin
  BY <1>1, BeginKeeps
<1>2. CASE Requirement!NextPhase
  BY <1>2, NextPhaseKeeps
<1>3. CASE Requirement!Interrupted
  BY <1>3, InterruptedKeeps
<1>4. CASE \/ Requirement!VerifyUpstream \/ Requirement!ScanShapes \/ Requirement!ReadRegister
         \/ Requirement!ReadIncluded \/ Requirement!ReadClauses \/ Requirement!ReadProjection
         \/ Requirement!ReadCases \/ Requirement!LoadRuntime \/ Requirement!Replay
         \/ Requirement!Pass \/ Requirement!Leave
  BY <1>4, VerifyUpstreamKeeps, ScanShapesKeeps, ReadRegisterKeeps, ReadIncludedKeeps,
     ReadClausesKeeps, ReadProjectionKeeps, ReadCasesKeeps, LoadRuntimeKeeps, ReplayKeeps,
     PassKeeps, LeaveKeeps
<1>5. CASE \E id \in Ids : Requirement!Unlink(id) \/ Requirement!WriteMutation(id)
  BY <1>5, UnlinkKeeps, WriteMutationKeeps
<1>6. CASE \E d \in {"rows", "csv", "cases"} : Requirement!WriteRegister(d)
  BY <1>6, WriteRegisterKeeps
<1>7. CASE Requirement!BeginUpstream
  BY <1>7, BeginUpstreamKeeps
<1>8. CASE Requirement!WriteUpstream \/ Requirement!InterruptedUpstream
  BY <1>8, UpstreamKeeps
<1>9. CASE \E k \in Keys, id \in Ids \cup {None}, r \in Rules :
               Requirement!EditShape(k, [id |-> id, rule |-> r])
  BY <1>9, EditShapeKeeps
<1>10. CASE \E id \in Ids, r \in Rules :
               Requirement!EditClause(id, Shown[r])
  BY <1>10, EditClauseKeeps
<1>11. CASE \E f \in {"positive", "curated"}, x \in Fixtures : Requirement!EditFixture(f, x)
  BY <1>11, EditFixtureKeeps
<1>12. CASE \E v \in Versions : Requirement!EditSource(v)
  BY <1>12, EditSourceKeeps
<1>13. CASE UNCHANGED requirement_vars
  <2>1. /\ UNCHANGED <<shapes, clauses, files, registers, source, upstream>>
        /\ UNCHANGED <<build, upbuild, check, passed, settled, rewrites>>
    BY <1>13 DEF requirement_vars
  <2>2. BuilderTyped'
    BY <2>1 DEF RequirementInv, BuilderTyped
  <2>3. BuildStands' /\ Requirement!BuiltVerifies'
    BY <2>1, TraceableRests, RequirementRests DEF RequirementInv, Requirement!BuiltVerifies
  <2>q. QED BY <2>1, <2>2, <2>3, ReleaseRests, PassedRests, CheckRests DEF RequirementInv
<1>q. QED
  BY <1>1, <1>2, <1>3, <1>4, <1>5, <1>6, <1>7, <1>8, <1>9, <1>10, <1>11, <1>12, <1>13
  DEF Requirement!Next, Requirement!Registers, Requirement!Reviewed

-----------------------------------------------------------------------------
(* The network references.  Only neighbours are compared; that the whole   *)
(* is a history follows because every step forward is a step in time, and  *)
(* there are finitely many editions.                                       *)

\* A set of numbers that is not empty has a least one.
LEMMA LeastExists ==
    ASSUME NEW T \in SUBSET Nat, T # {}
    PROVE  \E x \in T : \A y \in T : x <= y
<1>1. PICK x \in T : \A y \in T : <<y, x>> \notin OpToRel(<, Nat)
  BY NatLessThanWellFounded, WFMin
<1>2. \A y \in T : ~(y < x)
  BY <1>1, Zenon DEF OpToRel
<1>q. QED BY <1>2

Editions == Network!ToSet(Subjects)

NetworkTyped ==
    /\ DOMAIN graph = Editions
    /\ \A s \in Editions : /\ DOMAIN graph[s] = EditionFields
                           /\ \A f \in EditionFields : graph[s][f] \in Domain[f]
    /\ revisions \in 0..NetworkEdits

NetworkInv == NetworkTyped /\ Network!AcceptedIsAHistory

\* An edition that the check has nothing against, and its successor.
Stands(s) ==
    LET r == graph[s]
    IN  /\ r.until # None => r.from <= r.until
        /\ r.status \in {"candidate", "current", "superseded", "withdrawn"}
        /\ r.status \in {"superseded", "withdrawn"} => r.until # None
        /\ r.status = "superseded" <=> r.replacement # None
        /\ r.replacement \in Editions \cup {None}
        /\ r.replacement # None =>
             /\ graph[r.replacement].authority = r.authority
             /\ graph[r.replacement].identifier = r.identifier
             /\ graph[r.replacement].version # r.version
             /\ graph[r.replacement].status \in {"current", "superseded", "withdrawn"}
             /\ r.until < graph[r.replacement].from

LEMMA EditionsAre ==
    /\ \A k \in DOMAIN Subjects : Subjects[k] \in Editions
    /\ \A s \in Editions : \E k \in DOMAIN Subjects : s = Subjects[k]
  BY DEF Editions, Network!ToSet

LEMMA FieldsAre ==
    ASSUME NetworkTyped, NEW s \in Editions
    PROVE  /\ graph[s].from \in Nat /\ graph[s].until \in Nat \cup {None}
           /\ graph[s].replacement \in Editions \cup {None, Outside}
  BY NetworkAssumption DEF NetworkTyped, EditionFields, Editions

LEMMA FirstIs ==
    ASSUME NEW faults, NEW n \in Nat, DOMAIN faults = 1..n
    PROVE  \/ Network!FirstOf(faults) = None /\ \A k \in 1..n : faults[k] = None
           \/ \E k \in 1..n : Network!FirstOf(faults) = faults[k] /\ faults[k] # None
<1> DEFINE found == {k \in DOMAIN faults : faults[k] # None}
<1>1. CASE found = {}
  BY <1>1 DEF Network!FirstOf
<1>2. CASE found # {}
  <2>1. found \in SUBSET Nat
    OBVIOUS
  <2>2. \E k \in found : \A j \in found : k <= j
    BY <1>2, <2>1, LeastExists
  <2> DEFINE first == CHOOSE k \in found : \A j \in found : k <= j
  <2>3. first \in found
    BY <2>2
  <2>4. Network!FirstOf(faults) = faults[first]
    BY <1>2 DEF Network!FirstOf
  <2> HIDE DEF first
  <2>q. QED BY <2>3, <2>4
<1>q. QED BY <1>1, <1>2

LEMMA RecordStands ==
    ASSUME NetworkTyped, NEW k \in DOMAIN Subjects, Network!RecordFault(k) = None
    PROVE  LET r == graph[Subjects[k]]
           IN  /\ r.until # None => r.from <= r.until
               /\ r.status \in {"candidate", "current", "superseded", "withdrawn"}
               /\ r.status \in {"superseded", "withdrawn"} => r.until # None
               /\ r.status = "superseded" <=> r.replacement # None
               /\ Network!Prior(k) = {}
<1> DEFINE s == Subjects[k]
<1>1. graph[s].from \in Nat /\ graph[s].until \in Nat \cup {None}
  BY EditionsAre, FieldsAre
<1>2. None \notin NetworkFaults
  BY NetworkAssumption
<1>q. QED BY <1>1, <1>2 DEF Network!RecordFault, Network!Statuses, Network!Terminal, NetworkFaults

\* What a record is refused for, it breaks.
LEMMA RecordIsAtFault ==
    ASSUME NEW k \in DOMAIN Subjects, Network!RecordFault(k) # None
    PROVE  LET r == graph[Subjects[k]]
               fault == Network!RecordFault(k)
           IN  \/ fault \in {"NETWORK_LIFECYCLE_STATUS_INVALID", "NETWORK_VALIDITY_INTERVAL_INVALID"}
               \/ /\ fault = "NETWORK_TERMINAL_VALIDITY_INVALID"
                  /\ r.status \in {"superseded", "withdrawn"} /\ r.until = None
               \/ /\ fault = "NETWORK_TERMINAL_REPLACEMENT_INVALID"
                  /\ r.status = "superseded" /\ r.replacement = None
               \/ /\ fault = "NETWORK_ACTIVE_REPLACEMENT_INVALID"
                  /\ r.status # "superseded" /\ r.replacement # None
               \/ /\ fault \in {"NETWORK_IDENTITY_CHECKSUM_CONFLICT", "NETWORK_IDENTITY_DUPLICATE"}
                  /\ Network!Prior(k) # {}
  BY DEF Network!RecordFault, Network!Terminal

LEMMA SuccessorIsAtFault ==
    ASSUME NEW k \in DOMAIN Subjects, Network!SuccessorFault(k) # None
    PROVE  LET r == graph[Subjects[k]]
               fault == Network!SuccessorFault(k)
               successor == graph[r.replacement]
           IN  /\ r.replacement # None
               /\ \/ /\ fault = "NETWORK_REPLACEMENT_IDENTITY_INVALID"
                     /\ \/ successor.authority # r.authority
                        \/ successor.identifier # r.identifier
                        \/ successor.version = r.version
                  \/ fault = "NETWORK_LIFECYCLE_TRANSITION_INVALID" /\ successor.status \notin Targets
                  \/ /\ fault = "NETWORK_REPLACEMENT_VALIDITY_OVERLAP"
                     /\ ~(r.until # None /\ r.until < successor.from)
  BY DEF Network!SuccessorFault, Network!MayReplace, Network!Apart

LEMMA SuccessorStands ==
    ASSUME NEW k \in DOMAIN Subjects, Network!SuccessorFault(k) = None,
           graph[Subjects[k]].replacement # None
    PROVE  LET r == graph[Subjects[k]]
               successor == graph[r.replacement]
           IN  /\ successor.authority = r.authority /\ successor.identifier = r.identifier
               /\ successor.version # r.version /\ successor.status \in Targets
               /\ r.until < successor.from
<1>1. None \notin NetworkFaults
  BY NetworkAssumption
<1>q. QED BY <1>1 DEF Network!SuccessorFault, Network!MayReplace, Network!Apart, NetworkFaults

\* What the check says nothing against stands, record by record.
LEMMA FaultlessStands ==
    ASSUME NetworkTyped, Network!Fault = None
    PROVE  /\ \A s \in Editions : Stands(s)
           /\ \A s, t \in Editions : Network!Key(graph[s]) = Network!Key(graph[t]) => s = t
<1> DEFINE records == [k \in DOMAIN Subjects |-> Network!RecordFault(k)]
           successors == [k \in DOMAIN Subjects |-> Network!SuccessorFault(k)]
           n == Len(Subjects)
<1>1. n \in Nat /\ DOMAIN Subjects = 1..n
  BY NetworkAssumption
<1>2. /\ Network!ProjectionFault = None
      /\ Network!FirstOf(records) = None /\ Network!FirstOf(successors) = None
  BY DEF Network!Fault
<1>3. DOMAIN records = 1..n /\ DOMAIN successors = 1..n
  BY <1>1
<1> HIDE DEF n
<1>4. /\ \A k \in 1..n : records[k] = None
      /\ \A k \in 1..n : successors[k] = None
  <2> HIDE DEF records, successors
  <2>q. QED BY <1>1, <1>2, <1>3, FirstIs
<1>5. \A k \in DOMAIN Subjects : Network!RecordFault(k) = None /\ Network!SuccessorFault(k) = None
  BY <1>1, <1>4
<1>6. \A s \in Editions : graph[s].replacement # Outside
  BY <1>2, NetworkAssumption DEF Network!ProjectionFault, Editions, NetworkFaults
<1>7. ASSUME NEW s \in Editions PROVE Stands(s)
  <2>1. PICK k \in DOMAIN Subjects : s = Subjects[k]
    BY EditionsAre
  <2>2. Targets = {"current", "superseded", "withdrawn"}
    BY NetworkAssumption
  <2>3. graph[s].replacement \in Editions \cup {None}
    BY <1>6, FieldsAre
  <2>4. /\ graph[s].until # None => graph[s].from <= graph[s].until
        /\ graph[s].status \in {"candidate", "current", "superseded", "withdrawn"}
        /\ graph[s].status \in {"superseded", "withdrawn"} => graph[s].until # None
        /\ graph[s].status = "superseded" <=> graph[s].replacement # None
    BY <1>5, <2>1, RecordStands
  <2>5. ASSUME graph[s].replacement # None
        PROVE  LET successor == graph[graph[s].replacement]
               IN  /\ successor.authority = graph[s].authority
                   /\ successor.identifier = graph[s].identifier
                   /\ successor.version # graph[s].version
                   /\ successor.status \in {"current", "superseded", "withdrawn"}
                   /\ graph[s].until < successor.from
    BY <1>5, <2>1, <2>2, <2>5, SuccessorStands
  <2>q. QED BY <2>3, <2>4, <2>5 DEF Stands
<1>8. ASSUME NEW s \in Editions, NEW t \in Editions, Network!Key(graph[s]) = Network!Key(graph[t])
      PROVE  s = t
  <2>1. PICK i \in DOMAIN Subjects, j \in DOMAIN Subjects : s = Subjects[i] /\ t = Subjects[j]
    BY EditionsAre
  <2>2. Network!Prior(i) = {} /\ Network!Prior(j) = {}
    BY <1>5, RecordStands
  <2>3. i \in 1..n /\ j \in 1..n
    BY <1>1
  <2>4. ~(i < j) /\ ~(j < i)
    BY <1>1, <1>8, <2>1, <2>2, <2>3 DEF Network!Prior
  <2>q. QED BY <1>1, <2>1, <2>3, <2>4
<1>q. QED BY <1>7, <1>8

LEMMA EditionsAreFinite == IsFiniteSet(Editions)
<1> DEFINE n == Len(Subjects)
           name == [k \in 1..n |-> Subjects[k]]
<1>1. n \in Nat /\ DOMAIN Subjects = 1..n
  BY NetworkAssumption
<1> HIDE DEF n
<1>2. IsFiniteSet(1..n)
  BY <1>1, FS_Interval
<1>3. name \in Surjection(1..n, Editions)
  BY <1>1, EditionsAre DEF Surjection
<1>q. QED BY <1>2, <1>3, FS_Surjection

\* Whoever follows is in every set that the replacements do not lead out of.
LEMMA LaterIs ==
    ASSUME NEW s \in Editions
    PROVE  /\ Network!Later(s) \subseteq Editions
           /\ \A t \in Network!Later(s), C \in SUBSET Editions :
                 /\ \A u \in C : graph[u].replacement \in Editions => graph[u].replacement \in C
                 /\ graph[s].replacement \in Editions => graph[s].replacement \in C
                 => t \in C
           /\ \A t \in Editions :
                 (\A C \in SUBSET Editions :
                    /\ \A u \in C : graph[u].replacement \in Editions => graph[u].replacement \in C
                    /\ graph[s].replacement \in Editions => graph[s].replacement \in C
                    => t \in C)
                 => t \in Network!Later(s)
  BY Zenon DEF Network!Later, Network!Closed, Network!Resolved, Network!IsSubject, Editions

\* What holds of the next edition and of the next of every follower, holds of all followers.
LEMMA FollowersAreIn ==
    ASSUME NEW s \in Editions, NEW C \in SUBSET Editions,
           graph[s].replacement \in Editions => graph[s].replacement \in C,
           \A u \in C : graph[u].replacement \in Editions => graph[u].replacement \in C
    PROVE  Network!Later(s) \subseteq C
  BY LaterIs

\* The next edition follows, and so does whoever follows a follower.
LEMMA FollowersFollow ==
    ASSUME NEW s \in Editions
    PROVE  /\ Network!Later(s) \subseteq Editions
           /\ graph[s].replacement \in Editions => graph[s].replacement \in Network!Later(s)
           /\ graph[s].replacement \notin Editions => Network!Later(s) = {}
           /\ \A t \in Network!Later(s) : Network!Later(t) \subseteq Network!Later(s)
           /\ \A t \in Network!Later(s) :
                 graph[t].replacement \in Editions => graph[t].replacement \in Network!Later(s)
<1>1. Network!Later(s) \subseteq Editions
  BY LaterIs
<1>2. graph[s].replacement \in Editions => graph[s].replacement \in Network!Later(s)
  BY LaterIs
<1>3. graph[s].replacement \notin Editions => Network!Later(s) = {}
  <2>1. {} \in SUBSET Editions
    OBVIOUS
  <2>q. QED BY <2>1, FollowersAreIn
<1>4. ASSUME NEW t \in Network!Later(s), graph[t].replacement \in Editions
      PROVE  graph[t].replacement \in Network!Later(s)
  <2>1. ASSUME NEW C \in SUBSET Editions,
               \A u \in C : graph[u].replacement \in Editions => graph[u].replacement \in C,
               graph[s].replacement \in Editions => graph[s].replacement \in C
        PROVE  graph[t].replacement \in C
    <3>1. t \in C
      BY <2>1, LaterIs
    <3>q. QED BY <1>4, <2>1, <3>1
  <2>q. QED BY <1>4, <2>1, LaterIs
<1>5. ASSUME NEW t \in Network!Later(s) PROVE Network!Later(t) \subseteq Network!Later(s)
  <2>1. t \in Editions /\ Network!Later(s) \in SUBSET Editions
    BY <1>1
  <2>2. \A u \in Network!Later(s) :
            graph[u].replacement \in Editions => graph[u].replacement \in Network!Later(s)
    BY <1>4
  <2>q. QED BY <2>1, <2>2, FollowersAreIn
<1>q. QED BY <1>1, <1>2, <1>3, <1>4, <1>5

\* Who follows comes later.
LEMMA FollowersAreLater ==
    ASSUME NetworkTyped, \A s \in Editions : Stands(s),
           NEW s \in Editions, NEW t \in Network!Later(s)
    PROVE  graph[s].until < graph[t].from
<1> DEFINE C == {u \in Editions : graph[s].until < graph[u].from}
<1>0. None \notin Editions /\ None \notin Nat
  BY NetworkAssumption DEF Editions
<1>1. graph[s].replacement \in Editions
  BY FollowersFollow
<1>2. graph[s].until \in Nat /\ graph[s].replacement \in C
  BY <1>0, <1>1, FieldsAre DEF Stands
<1>3. ASSUME NEW u \in C, graph[u].replacement \in Editions PROVE graph[u].replacement \in C
  <2>1. /\ graph[u].replacement # None /\ graph[u].until # None /\ graph[u].from <= graph[u].until
        /\ graph[u].until < graph[graph[u].replacement].from
    BY <1>0, <1>3 DEF Stands
  <2>2. /\ graph[u].from \in Nat /\ graph[u].until \in Nat
        /\ graph[graph[u].replacement].from \in Nat
    BY <1>3, <2>1, FieldsAre
  <2>3. graph[s].until < graph[u].from
    BY <1>3
  <2>q. QED BY <1>2, <1>3, <2>1, <2>2, <2>3
<1>4. C \in SUBSET Editions
  OBVIOUS
<1>5. Network!Later(s) \subseteq C
  <2> HIDE DEF C
  <2>q. QED BY <1>2, <1>3, <1>4, FollowersAreIn
<1>q. QED BY <1>5

\* A history does not come back to an edition.
LEMMA NobodyFollowsItself ==
    ASSUME NetworkTyped, \A s \in Editions : Stands(s), NEW s \in Editions
    PROVE  s \notin Network!Later(s)
<1> SUFFICES ASSUME s \in Network!Later(s) PROVE FALSE
  OBVIOUS
<1>1. graph[s].replacement \in Editions
  BY FollowersFollow
<1>2. graph[s].until # None
  BY <1>1, NetworkAssumption DEF Stands, Editions
<1>3. graph[s].until < graph[s].from
  BY FollowersAreLater
<1>q. QED BY <1>2, <1>3, FieldsAre DEF Stands

\* A history ends, at an edition that is or was in force.
LEMMA HistoriesEnd ==
    ASSUME NetworkTyped, \A s \in Editions : Stands(s),
           NEW s \in Editions, graph[s].status = "superseded"
    PROVE  \E t \in Network!Later(s) : graph[t].status \in {"current", "withdrawn"}
<1> DEFINE Ahead(t) == Cardinality(Network!Later(t))
           T == {Ahead(t) : t \in Network!Later(s)}
<1>0. /\ None \notin Editions
      /\ \A u \in Editions : graph[u].status = "superseded" => graph[u].replacement \in Editions
  BY NetworkAssumption DEF Editions, Stands
<1>1. ASSUME NEW u \in Editions
      PROVE  IsFiniteSet(Network!Later(u)) /\ Ahead(u) \in Nat
  <2>1. Network!Later(u) \subseteq Editions
    BY FollowersFollow
  <2>2. IsFiniteSet(Network!Later(u))
    BY <2>1, EditionsAreFinite, FS_Subset
  <2>q. QED BY <2>2, FS_CardinalityType
<1>2. Network!Later(s) \subseteq Editions /\ graph[s].replacement \in Network!Later(s)
  BY <1>0, FollowersFollow
<1>3. PICK t \in Network!Later(s) : \A u \in Network!Later(s) : Ahead(t) <= Ahead(u)
  <2>1. T \in SUBSET Nat /\ T # {}
    BY <1>1, <1>2
  <2>2. PICK x \in T : \A y \in T : x <= y
    <3> HIDE DEF T
    <3>q. QED BY <2>1, LeastExists
  <2>q. QED BY <2>2
<1>4. graph[t].status \in {"current", "superseded", "withdrawn"}
  <2> DEFINE C == {u \in Editions : graph[u].status \in {"current", "superseded", "withdrawn"}}
  <2>1. \A u \in Editions : graph[u].replacement \in Editions => graph[u].replacement \in C
    BY <1>0 DEF Stands
  <2>2. Network!Later(s) \subseteq C
    <3>1. C \in SUBSET Editions
      OBVIOUS
    <3> HIDE DEF C
    <3>q. QED BY <2>1, <3>1, FollowersAreIn
  <2>q. QED BY <2>2
<1>5. graph[t].status # "superseded"
  <2> SUFFICES ASSUME graph[t].status = "superseded" PROVE FALSE
    OBVIOUS
  <2> DEFINE u == graph[t].replacement
  <2>1. t \in Editions /\ u \in Editions
    BY <1>0, <1>2
  <2>2. /\ u \in Network!Later(t) /\ u \in Network!Later(s)
        /\ Network!Later(u) \subseteq Network!Later(t)
    BY <1>2, <2>1, FollowersFollow
  <2>3. u \notin Network!Later(u)
    BY <2>1, NobodyFollowsItself
  <2>4. IsFiniteSet(Network!Later(t)) /\ Ahead(t) \in Nat /\ Ahead(u) \in Nat
    BY <1>1, <2>1
  <2> HIDE DEF u
  <2>5. Network!Later(u) # Network!Later(t)
    BY <2>2, <2>3
  <2>6. Ahead(u) < Ahead(t)
    BY <2>2, <2>4, <2>5, FS_Subset
  <2>7. Ahead(t) <= Ahead(u)
    BY <1>3, <2>2
  <2> HIDE DEF Ahead
  <2>q. QED BY <2>4, <2>6, <2>7
<1>q. QED BY <1>4, <1>5

\* What the statements of the controls say, one by one.
LEMMA MeetsIs ==
    /\ Network!Meets("identity") <=>
         \A s, t \in Editions : Network!Key(graph[s]) = Network!Key(graph[t]) => s = t
    /\ Network!Meets("lifecycle") <=>
         \A s \in Editions :
            IF graph[s].status = "superseded"
            THEN /\ graph[s].replacement \in Editions
                 /\ graph[graph[s].replacement].authority = graph[s].authority
                 /\ graph[graph[s].replacement].identifier = graph[s].identifier
                 /\ graph[graph[s].replacement].version # graph[s].version
                 /\ graph[graph[s].replacement].status \in {"current", "superseded", "withdrawn"}
            ELSE graph[s].replacement = None
    /\ Network!Meets("terminal-validity") <=>
         \A s \in Editions : graph[s].status \in {"superseded", "withdrawn"} => graph[s].until # None
    /\ Network!Meets("validity") <=>
         \A s \in Editions :
            graph[s].status = "superseded" /\ graph[s].replacement \in Editions =>
                graph[s].until # None /\ graph[s].until < graph[graph[s].replacement].from
    /\ ~Network!Meets("reference")
<1>1. /\ "lifecycle" # "identity"
      /\ "terminal-validity" # "identity" /\ "terminal-validity" # "lifecycle"
      /\ "validity" # "identity" /\ "validity" # "lifecycle" /\ "validity" # "terminal-validity"
      /\ "reference" # "identity" /\ "reference" # "lifecycle"
      /\ "reference" # "terminal-validity" /\ "reference" # "validity"
  OBVIOUS
<1>2. Network!Meets("identity") <=>
         \A s, t \in Editions : Network!Key(graph[s]) = Network!Key(graph[t]) => s = t
  BY <1>1, Zenon DEF Network!Meets, Editions
<1>3. Network!Meets("lifecycle") <=>
         \A s \in Editions :
            IF graph[s].status = "superseded"
            THEN /\ graph[s].replacement \in Editions
                 /\ graph[graph[s].replacement].authority = graph[s].authority
                 /\ graph[graph[s].replacement].identifier = graph[s].identifier
                 /\ graph[graph[s].replacement].version # graph[s].version
                 /\ graph[graph[s].replacement].status \in {"current", "superseded", "withdrawn"}
            ELSE graph[s].replacement = None
  BY <1>1, ZenonT(30) DEF Network!Meets, Editions, Network!Superseded, Network!Resolved,
                          Network!Successor, Network!IsSubject
<1>4. Network!Meets("terminal-validity") <=>
         \A s \in Editions : graph[s].status \in {"superseded", "withdrawn"} => graph[s].until # None
  BY <1>1, Zenon DEF Network!Meets, Editions, Network!Terminal
<1>5. Network!Meets("validity") <=>
         \A s \in Editions :
            graph[s].status = "superseded" /\ graph[s].replacement \in Editions =>
                graph[s].until # None /\ graph[s].until < graph[graph[s].replacement].from
  BY <1>1, ZenonT(30) DEF Network!Meets, Editions, Network!Superseded, Network!Resolved,
                          Network!Successor, Network!IsSubject
<1>6. ~Network!Meets("reference")
  BY <1>1, Zenon DEF Network!Meets
<1>q. QED BY <1>2, <1>3, <1>4, <1>5, <1>6

LEMMA ControlsAre ==
    /\ \A code \in {"NETWORK_IDENTITY_CHECKSUM_CONFLICT", "NETWORK_IDENTITY_DUPLICATE"} :
         Network!ControlOf(code) = "identity"
    /\ \A code \in {"NETWORK_TERMINAL_REPLACEMENT_INVALID", "NETWORK_ACTIVE_REPLACEMENT_INVALID",
                    "NETWORK_REPLACEMENT_NOT_FOUND", "NETWORK_REPLACEMENT_IDENTITY_INVALID",
                    "NETWORK_LIFECYCLE_TRANSITION_INVALID"} :
         Network!ControlOf(code) = "lifecycle"
    /\ Network!ControlOf("NETWORK_TERMINAL_VALIDITY_INVALID") = "terminal-validity"
    /\ Network!ControlOf("NETWORK_REPLACEMENT_VALIDITY_OVERLAP") = "validity"
    /\ \A code \in {"NETWORK_RDF_PROJECTION_INVALID", "NETWORK_LIFECYCLE_STATUS_INVALID",
                    "NETWORK_VALIDITY_INTERVAL_INVALID"} :
         Network!ControlOf(code) = "reference"
  BY ZenonT(60) DEF Network!ControlOf

LEMMA AcceptedMeets ==
    ASSUME NetworkTyped, Network!Fault = None
    PROVE  \A c \in {"identity", "lifecycle", "terminal-validity", "validity"} : Network!Meets(c)
<1>0. None \notin Editions
  BY NetworkAssumption DEF Editions
<1>1. /\ \A s \in Editions : Stands(s)
      /\ \A s, t \in Editions : Network!Key(graph[s]) = Network!Key(graph[t]) => s = t
  BY FaultlessStands
<1>2. Network!Meets("identity")
  BY <1>1, MeetsIs
<1>3. Network!Meets("lifecycle")
  <2>1. ASSUME NEW s \in Editions
        PROVE  IF graph[s].status = "superseded"
               THEN /\ graph[s].replacement \in Editions
                    /\ graph[graph[s].replacement].authority = graph[s].authority
                    /\ graph[graph[s].replacement].identifier = graph[s].identifier
                    /\ graph[graph[s].replacement].version # graph[s].version
                    /\ graph[graph[s].replacement].status \in {"current", "superseded", "withdrawn"}
               ELSE graph[s].replacement = None
    BY <1>1 DEF Stands
  <2>q. QED BY <2>1, MeetsIs
<1>4. Network!Meets("terminal-validity")
  <2>1. \A s \in Editions : graph[s].status \in {"superseded", "withdrawn"} => graph[s].until # None
    BY <1>1 DEF Stands
  <2>q. QED BY <2>1, MeetsIs
<1>5. Network!Meets("validity")
  <2>1. ASSUME NEW s \in Editions, graph[s].status = "superseded",
               graph[s].replacement \in Editions
        PROVE  graph[s].until # None /\ graph[s].until < graph[graph[s].replacement].from
    BY <1>0, <1>1, <2>1 DEF Stands
  <2>q. QED BY <2>1, MeetsIs
<1>q. QED BY <1>2, <1>3, <1>4, <1>5

\* A refusal names a control that the graph does break.
LEMMA RefusedBreaks ==
    ASSUME NetworkTyped, Network!Fault # None
    PROVE  Network!Fault \in NetworkFaults /\ ~Network!Meets(Network!ControlOf(Network!Fault))
<1> DEFINE fault == Network!Fault
           records == [k \in DOMAIN Subjects |-> Network!RecordFault(k)]
           successors == [k \in DOMAIN Subjects |-> Network!SuccessorFault(k)]
           n == Len(Subjects)
<1>1. n \in Nat /\ DOMAIN Subjects = 1..n
  BY NetworkAssumption
<1>2. None \notin Editions /\ Outside \notin Editions /\ None # Outside /\ None \notin NetworkFaults
  BY NetworkAssumption DEF Editions
<1>3. DOMAIN records = 1..n /\ DOMAIN successors = 1..n
  BY <1>1
<1>4. CASE Network!ProjectionFault # None
  <2>1. fault = Network!ProjectionFault
    BY <1>4 DEF Network!Fault
  <2>2. CASE fault = "NETWORK_RDF_PROJECTION_INVALID"
    BY <2>2, MeetsIs, ControlsAre DEF NetworkFaults
  <2>3. CASE fault = "NETWORK_REPLACEMENT_NOT_FOUND" /\ fault # "NETWORK_RDF_PROJECTION_INVALID"
    <3>1. PICK s \in Editions : graph[s].replacement = Outside
      BY <2>1, <2>3, <1>2 DEF Network!ProjectionFault, Editions, NetworkFaults
    <3>2. ~Network!Meets("lifecycle")
      BY <1>2, <3>1, MeetsIs
    <3>q. QED BY <2>3, <3>2, ControlsAre DEF NetworkFaults
  <2>q. QED BY <1>4, <2>1, <2>2, <2>3 DEF Network!ProjectionFault
<1>5. CASE Network!ProjectionFault = None /\ Network!FirstOf(records) # None
  <2>1. fault = Network!FirstOf(records)
    BY <1>5 DEF Network!Fault
  <2>2. PICK k \in DOMAIN Subjects : fault = Network!RecordFault(k) /\ Network!RecordFault(k) # None
    <3> HIDE DEF records, n
    <3>1. PICK k \in 1..n : fault = records[k] /\ records[k] # None
      <4> HIDE DEF fault
      <4>q. QED BY <1>1, <1>3, <1>5, <2>1, FirstIs
    <3>q. QED BY <1>1, <3>1 DEF records
  <2> DEFINE s == Subjects[k]
  <2>3. s \in Editions
    BY EditionsAre
  <2>4. CASE fault \in {"NETWORK_LIFECYCLE_STATUS_INVALID", "NETWORK_VALIDITY_INTERVAL_INVALID"}
    BY <2>4, MeetsIs, ControlsAre DEF NetworkFaults
  <2>5. CASE /\ fault = "NETWORK_TERMINAL_VALIDITY_INVALID"
             /\ graph[s].status \in {"superseded", "withdrawn"} /\ graph[s].until = None
    <3>1. ~Network!Meets("terminal-validity")
      BY <2>3, <2>5, MeetsIs
    <3>q. QED BY <2>5, <3>1, ControlsAre DEF NetworkFaults
  <2>6. CASE /\ fault = "NETWORK_TERMINAL_REPLACEMENT_INVALID"
             /\ graph[s].status = "superseded" /\ graph[s].replacement = None
    <3>1. ~Network!Meets("lifecycle")
      BY <1>2, <2>3, <2>6, MeetsIs
    <3>q. QED BY <2>6, <3>1, ControlsAre DEF NetworkFaults
  <2>7. CASE /\ fault = "NETWORK_ACTIVE_REPLACEMENT_INVALID"
             /\ graph[s].status # "superseded" /\ graph[s].replacement # None
    <3>1. ~Network!Meets("lifecycle")
      BY <2>3, <2>7, MeetsIs
    <3>q. QED BY <2>7, <3>1, ControlsAre DEF NetworkFaults
  <2>8. CASE /\ fault \in {"NETWORK_IDENTITY_CHECKSUM_CONFLICT", "NETWORK_IDENTITY_DUPLICATE"}
             /\ Network!Prior(k) # {}
    <3>1. PICK i \in 1..(k - 1) : Network!Key(graph[Subjects[i]]) = Network!Key(graph[s])
      BY <2>8 DEF Network!Prior
    <3>2. i \in DOMAIN Subjects /\ i # k
      BY <1>1
    <3>3. Subjects[i] \in Editions /\ Subjects[i] # s
      BY <3>2, EditionsAre, NetworkAssumption
    <3>4. ~Network!Meets("identity")
      BY <2>3, <3>1, <3>3, MeetsIs
    <3>q. QED BY <2>8, <3>4, ControlsAre DEF NetworkFaults
  <2> HIDE DEF fault
  <2>q. QED BY <2>2, <2>4, <2>5, <2>6, <2>7, <2>8, RecordIsAtFault
<1>6. CASE Network!ProjectionFault = None /\ Network!FirstOf(records) = None
  <2>1. fault = Network!FirstOf(successors)
    BY <1>6 DEF Network!Fault
  <2>2. PICK k \in DOMAIN Subjects : fault = Network!SuccessorFault(k) /\ Network!SuccessorFault(k) # None
    <3> HIDE DEF successors, n
    <3>1. PICK k \in 1..n : fault = successors[k] /\ successors[k] # None
      <4>1. fault # None
        OBVIOUS
      <4> HIDE DEF fault
      <4>q. QED BY <1>1, <1>3, <2>1, <4>1, FirstIs
    <3>q. QED BY <1>1, <3>1 DEF successors
  <2> DEFINE s == Subjects[k]
             successor == graph[graph[s].replacement]
  <2>3. s \in Editions
    BY EditionsAre
  <2>4. Network!RecordFault(k) = None
    <3>1. \A j \in 1..n : records[j] = None
      <4> HIDE DEF records, n
      <4>q. QED BY <1>1, <1>3, <1>6, FirstIs
    <3>q. QED BY <1>1, <3>1
  <2>5. graph[s].status = "superseded" <=> graph[s].replacement # None
    BY <2>4, RecordStands
  <2>6. graph[s].replacement # Outside
    BY <1>2, <1>6, <2>3 DEF Network!ProjectionFault, Editions, NetworkFaults
  <2>7. graph[s].replacement # None
    BY <2>2, SuccessorIsAtFault
  <2>8. graph[s].status = "superseded" /\ graph[s].replacement \in Editions
    BY <2>3, <2>5, <2>6, <2>7, FieldsAre
  <2>9. CASE /\ fault = "NETWORK_REPLACEMENT_IDENTITY_INVALID"
             /\ \/ successor.authority # graph[s].authority
                \/ successor.identifier # graph[s].identifier
                \/ successor.version = graph[s].version
    <3>1. ~Network!Meets("lifecycle")
      BY <2>3, <2>8, <2>9, MeetsIs
    <3>q. QED BY <2>9, <3>1, ControlsAre DEF NetworkFaults
  <2>10. CASE fault = "NETWORK_LIFECYCLE_TRANSITION_INVALID" /\ successor.status \notin Targets
    <3>1. successor.status \notin {"current", "superseded", "withdrawn"}
      BY <2>10, NetworkAssumption
    <3>2. ~Network!Meets("lifecycle")
      BY <2>3, <2>8, <3>1, MeetsIs
    <3>q. QED BY <2>10, <3>2, ControlsAre DEF NetworkFaults
  <2>11. CASE /\ fault = "NETWORK_REPLACEMENT_VALIDITY_OVERLAP"
              /\ ~(graph[s].until # None /\ graph[s].until < successor.from)
    <3>1. ~Network!Meets("validity")
      BY <2>3, <2>8, <2>11, MeetsIs
    <3>q. QED BY <2>11, <3>1, ControlsAre DEF NetworkFaults
  <2> HIDE DEF fault
  <2>q. QED BY <2>2, <2>9, <2>10, <2>11, SuccessorIsAtFault
<1>q. QED BY <1>4, <1>5, <1>6

\* The history that AcceptedIsAHistory speaks of, and the graph that a code refuses.
IsAHistory ==
    /\ \A s \in Editions : \A t \in Network!Later(s) : graph[s].until < graph[t].from
    /\ \A s \in Network!Superseded : \E t \in Network!Later(s) :
          graph[t].status \in {"current", "withdrawn"}
    /\ \A c \in {"identity", "lifecycle", "terminal-validity", "validity"} : Network!Meets(c)
IsRefused(code) == ~Network!Meets(Network!ControlOf(code))

LEMMA VerdictsAreRight ==
    ASSUME NetworkTyped
    PROVE  /\ Network!Fault = None => IsAHistory
           /\ Network!Fault # None => Network!Fault \in NetworkFaults /\ IsRefused(Network!Fault)
<1>1. ASSUME Network!Fault = None PROVE IsAHistory
  <2>1. \A s \in Editions : Stands(s)
    BY <1>1, FaultlessStands
  <2>2. \A s \in Editions : \A t \in Network!Later(s) : graph[s].until < graph[t].from
    BY <2>1, FollowersAreLater
  <2>3. \A s \in Network!Superseded : \E t \in Network!Later(s) :
            graph[t].status \in {"current", "withdrawn"}
    BY <2>1, HistoriesEnd DEF Network!Superseded, Editions
  <2>q. QED BY <1>1, <2>2, <2>3, AcceptedMeets DEF IsAHistory
<1>q. QED BY <1>1, RefusedBreaks DEF IsRefused

LEMMA NetworkStarts == Network!Init => NetworkInv
  BY NetworkAssumption DEF Network!Init, NetworkInv, NetworkTyped, Editions, Network!AcceptedIsAHistory

\* An edit puts a value of the field in its place.
LEMMA EditIsTyped ==
    ASSUME NetworkTyped, Network!Edit
    PROVE  NetworkTyped'
<1>1. PICK s \in Editions, field \in DOMAIN Domain :
        \E value \in Domain[field] \ {graph[s][field]} : graph' = [graph EXCEPT ![s][field] = value]
  BY DEF Network!Edit, Editions
<1>2. PICK value \in Domain[field] : graph' = [graph EXCEPT ![s][field] = value]
  BY <1>1
<1>3. field \in EditionFields
  BY NetworkAssumption
<1>4. DOMAIN graph' = Editions
  BY <1>2 DEF NetworkTyped
<1>5. ASSUME NEW t \in Editions
      PROVE  /\ DOMAIN graph'[t] = EditionFields
             /\ \A f \in EditionFields : graph'[t][f] \in Domain[f]
  <2>1. CASE t # s
    BY <1>2, <2>1 DEF NetworkTyped
  <2>2. CASE t = s
    <3>1. graph'[s] = [graph[s] EXCEPT ![field] = value]
      BY <1>2 DEF NetworkTyped
    <3>q. QED BY <1>2, <1>3, <2>2, <3>1 DEF NetworkTyped
  <2>q. QED BY <2>1, <2>2
<1>6. revisions' \in 0..NetworkEdits
  BY NetworkAssumption DEF Network!Edit, NetworkTyped
<1>7. Editions' = Editions
  BY DEF Editions
<1>q. QED BY <1>4, <1>5, <1>6, <1>7 DEF NetworkTyped

LEMMA NetworkStays == NetworkInv /\ [Network!Next]_network_vars => NetworkInv'
<1> SUFFICES ASSUME NetworkInv, [Network!Next]_network_vars PROVE NetworkInv'
  OBVIOUS
<1>1. CASE Network!Validate
  <2>1. /\ graph' = graph /\ revisions' = revisions
        /\ judged' = IF Network!Fault = None THEN "accepted" ELSE Network!Fault
    BY <1>1 DEF Network!Validate
  <2>2. NetworkTyped'
    BY <2>1 DEF NetworkInv, NetworkTyped, Editions
  <2>3. IsAHistory' <=> IsAHistory
    BY <2>1, Zenon
       DEF IsAHistory, Editions, Network!Later, Network!Closed, Network!Resolved, Network!IsSubject,
           Network!Superseded, Network!Meets, Network!Key, Network!Successor, Network!Terminal
  <2>4. IsRefused(judged)' <=> ~Network!Meets(Network!ControlOf(judged'))
    BY <2>1, Zenon
       DEF IsRefused, Network!Meets, Network!ControlOf, Network!Superseded, Network!Key,
           Network!Resolved, Network!IsSubject, Network!Successor, Network!Terminal
  <2>5. /\ Network!Fault = None => IsAHistory
        /\ Network!Fault # None => Network!Fault \in NetworkFaults /\ IsRefused(Network!Fault)
    BY VerdictsAreRight DEF NetworkInv
  <2>6. judged' = "accepted" => IsAHistory
    BY <2>1, <2>5 DEF NetworkFaults
  <2>7. judged' \notin {"none", "accepted"} => ~Network!Meets(Network!ControlOf(judged'))
    BY <2>1, <2>5 DEF IsRefused
  <2>8. Network!AcceptedIsAHistory'
    BY <2>3, <2>4, <2>6, <2>7, Zenon
       DEF Network!AcceptedIsAHistory, IsAHistory, IsRefused, Editions
  <2>q. QED BY <2>2, <2>8 DEF NetworkInv
<1>2. CASE Network!Edit
  <2>1. judged' = "none"
    BY <1>2 DEF Network!Edit
  <2>2. Network!AcceptedIsAHistory'
    BY <2>1, Zenon DEF Network!AcceptedIsAHistory
  <2>q. QED BY <1>2, <2>2, EditIsTyped DEF NetworkInv
<1>3. CASE UNCHANGED network_vars
  <2>1. graph' = graph /\ judged' = judged /\ revisions' = revisions
    BY <1>3 DEF network_vars
  <2>2. NetworkTyped'
    BY <2>1 DEF NetworkInv, NetworkTyped, Editions
  <2>3. Network!AcceptedIsAHistory'
    BY <2>1, Zenon
       DEF NetworkInv, Network!AcceptedIsAHistory, Network!Later, Network!Closed,
           Network!Resolved, Network!IsSubject, Network!Superseded, Network!Meets,
           Network!ControlOf, Network!Key, Network!Successor, Network!Terminal
  <2>q. QED BY <2>2, <2>3 DEF NetworkInv
<1>q. QED BY <1>1, <1>2, <1>3 DEF Network!Next

LEMMA NetworkImplies == NetworkInv => Network!TypeOK /\ Network!AcceptedIsAHistory
  BY NetworkAssumption DEF NetworkInv, NetworkTyped, Network!TypeOK, Editions

-----------------------------------------------------------------------------
(* A step of Profiles is a step of one part.                               *)

LEMMA OnePartMoves ==
    ASSUME [Next]_profiles_vars
    PROVE  /\ part' = part
           /\ part = "network"     => [Network!Next]_network_vars
           /\ part = "validation"  => [Validation!Next]_validation_vars
           /\ part = "requirement" => [Requirement!Next]_requirement_vars
           /\ part = "release"     => [Gate!Next]_release_vars
           /\ part = "authority"   => [Authority!Next]_authority_vars
  BY DEF Next, Only, profiles_vars

\* Whatever statements a publisher edits between two checks: an accepted graph is
\* a history, whose replacements only lead to later intervals and end at an edition
\* that is or was in force, and a refusal names a control that the graph does break
\* (validateNetworkReferenceSet, networkIntegrityFinding).
THEOREM AcceptedStaysAHistory == Spec => []AcceptedIsAHistory
<1> DEFINE Inv == part = "network" => NetworkInv
<1>1. Init => Inv
  BY NetworkStarts DEF Init
<1>2. Inv /\ [Next]_profiles_vars => Inv'
  BY OnePartMoves, NetworkStays
<1>3. Inv => AcceptedIsAHistory
  BY NetworkImplies DEF AcceptedIsAHistory
<1>q. QED BY <1>1, <1>2, <1>3, PTL DEF Spec

\* Whatever the limit on results, whoever edits the release or the document: a
\* pass that was printed is of one document, by the whole of one locked release
\* (profile/cli.mjs, validator.mjs, validation-isolation.mjs).
THEOREM PassStaysOneJudgement == Spec => []PassIsOneJudgement
<1> DEFINE Inv == part = "validation" => ValidationInv
<1>1. Init => Inv
  BY ValidationStarts DEF Init
<1>2. Inv /\ [Next]_profiles_vars => Inv'
  BY OnePartMoves, ValidationStays
<1>3. Inv => PassIsOneJudgement
  BY ValidationImplies DEF PassIsOneJudgement
<1>q. QED BY <1>1, <1>2, <1>3, PTL DEF Spec

\* Whatever is edited, interrupted or half written, between two reads of the
\* verifier too: what it passed while nothing changed is evidenced by the files on
\* disk, every other pass by cases it has replayed itself, and a build that was not
\* disturbed passes unless a constraint has a flaw only the verifier refuses
\* (verify-requirement-traceability.mjs, build-requirement-evidence.mjs).
THEOREM EvidenceStaysReal == Spec => []EvidenceIsReal
<1> DEFINE Inv == part = "requirement" => RequirementInv
<1>1. Init => Inv
  BY RequirementStarts DEF Init
<1>2. Inv /\ [Next]_profiles_vars => Inv'
  BY OnePartMoves, RequirementStays
<1>3. Inv => EvidenceIsReal
  BY RequirementImplies DEF EvidenceIsReal
<1>q. QED BY <1>1, <1>2, <1>3, PTL DEF Spec

\* Matrix evidence, the gate's finding that the release is a candidate, and a
\* signature that verifies each are of the bytes of one lock, whoever edits,
\* relocks, commits or checks out meanwhile (run-rc-shacl-matrix.mjs,
\* release-gate-v2.mjs, detached-signature.mjs).
THEOREM ReleaseStaysOneLock == Spec => []ReleaseIsOneLock
<1> DEFINE Inv == part = "release" => ReleaseInv
<1>1. Init => Inv
  BY ReleaseStarts DEF Init
<1>2. Inv /\ [Next]_profiles_vars => Inv'
  BY OnePartMoves, ReleaseStays
<1>3. Inv => ReleaseIsOneLock
  BY ReleaseImplies DEF ReleaseIsOneLock
<1>q. QED BY <1>1, <1>2, <1>3, PTL DEF Spec

\* A request is allowed on an authority that covers it, that had been approved by
\* the instant of the request, for an interval that holds the instant, and had not
\* been revoked longer before than evidence may be old, and on a receipt that the
\* verifier itself signed for that very request (provider-authority.mjs).
THEOREM AllowedStaysInForce == Spec => []AllowedWasInForce
<1> DEFINE Inv == part = "authority" => AuthorityInv
<1>1. Init => Inv
  BY AuthorityStarts DEF Init
<1>2. Inv /\ [Next]_profiles_vars => Inv'
  BY OnePartMoves, AuthorityStays
<1>3. Inv => AllowedWasInForce
  BY AuthorityImplies DEF AllowedWasInForce
<1>q. QED BY <1>1, <1>2, <1>3, PTL DEF Spec

=============================================================================

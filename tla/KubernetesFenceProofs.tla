------------------------ MODULE KubernetesFenceProofs ------------------------
(***************************************************************************)
(* Proofs about KubernetesFence, for any number of calls, intents, tokens  *)
(* and late requests.                                                      *)
(*                                                                         *)
(* The argument.  A token has one call, and a command that did not begin   *)
(* to roll back one request at most (TokenInv, RequestInv).  A claim makes *)
(* every older request useless on what the new command has written: it was *)
(* computed from an earlier revision (CellInv), and once the namespace is  *)
(* written a late creation cannot bring it back (NamespaceInv).  So the    *)
(* current command owns what is behind the step it is at (ProgressInv),    *)
(* its receipt stands for all of it, and nothing of it is left on the wire *)
(* when the receipt is there (AppliedInv); a plan with a schema passes its *)
(* steps in order (SchemaInv).                                             *)
(*                                                                         *)
(* Most steps of the adapter write no object and ask for nothing.  Kinds   *)
(* sorts the actions of Next into the few kinds that matter, and the later *)
(* lemmas look at a kind at a time.                                        *)
(***************************************************************************)
EXTENDS KubernetesFence, SequenceTheorems, TLAPS

-----------------------------------------------------------------------------
(* The inductive invariant                                                 *)

Active  == {"check", "wait", "confirm"}
Engaged == Working \cup Undoing
Lasting == Intents \ Deletes
Kept    == fence.token \notin undone

\* The call of the current command, and how many steps of its plan took effect.
Holds(c) == call[c].token = fence.token /\ call[c].pc \in Active
Stage(c) == IF call[c].pc = "confirm" THEN call[c].at ELSE call[c].at - 1

\* A call is where its program counter says.
CallOK(c) ==
    /\ call[c].at >= 1
    /\ call[c].pc \in {"idle", "scanned"} => call[c].token = 0
    /\ call[c].pc \in {"idle", "scanned", "claim"} => call[c].at = 1 /\ ~call[c].held
    /\ call[c].pc \notin {"idle", "scanned"} => call[c].token > 0 /\ call[c].order \in Orders
    /\ call[c].pc \in {"wait", "confirm"} =>
          ~Finished(c) /\ Step(c).do \in {"put", "quiesce", "sync", "erase"}
    /\ call[c].pc = "unwait" => call[c].undo # <<>>
CallInv == \A c \in Calls : CallOK(c)

\* Tokens are issued once, and the fence never has more than was issued.
TokenInv ==
    /\ fence.token <= issued
    /\ fence.token = 0 => fence.op = NoIntent
    /\ \A t \in undone : t <= fence.token
    /\ \A c \in Calls :
         /\ call[c].token <= issued
         /\ call[c].pc \in Engaged => call[c].token <= fence.token
         /\ call[c].pc \in Engaged /\ call[c].token = fence.token => call[c].order = fence.op
         /\ call[c].token > 0 => (call[c].token \in undone <=> call[c].pc \in Undoing)
         /\ Holds(c) => fence.phase = "CLAIMED"
    /\ \A c, d \in Calls : call[c].token = call[d].token /\ call[c].token > 0 => c = d

\* What a waiting call asked for.
Asked(r, c) ==
    /\ Step(c).do \in {"put", "quiesce"} =>
          /\ r.name = Step(c).name /\ r.verb # "DELETE"
          /\ r.new.spec = call[c].order
          /\ r.name = Run /\ r.new.up => Step(c).do = "put"
          /\ r.name = Ready => r.new.ev = call[c].proof
    /\ Step(c).do = "sync"  => r.verb = "PUT" /\ r.name = Ns

\* A call has one request, and only when it waits; a command that never failed
\* left one at most.
RequestInv ==
    /\ \A r \in wire :
         /\ 0 < r.from /\ r.from <= fence.token
         /\ r.verb # "DELETE" => r.new.here /\ r.new.token = r.from
         /\ r.by \in Calls => /\ call[r.by].pc \in {"wait", "unwait"}
                              /\ r.from = call[r.by].token
                              /\ call[r.by].pc = "wait" => Asked(r, r.by)
         /\ r.by = Nobody => \A c \in Calls : call[c].token = r.from => r.from \in undone
    /\ \A r, s \in wire : r.by = s.by /\ r.by \in Calls => r = s
    /\ \A r, s \in wire : r.from = s.from /\ r.from \notin undone => r = s

\* An object of the current command was written after every older request
\* computed its write.
CellInv ==
    /\ \A n \in Names : /\ cell[n].token <= fence.token
                        /\ cell[n].here \/ cell[n] = Absent
                        /\ cell[n].here => cell[Ns].here
    /\ \A r \in wire : r.from < fence.token /\ cell[r.name].token = fence.token => ~r.fresh

DeletionInv ==
    /\ \A r \in wire : r.verb = "DELETE" /\ r.name = Ns /\ r.fresh =>
          cell[Ns].token <= r.from /\ (r.admitted => cell[Ns].token = r.from)
    /\ \A c \in Calls : call[c].pc \in Working /\ call[c].held => cell[Ns].token <= call[c].token

Begun == \/ fence.phase = "APPLIED"
         \/ \E c \in Calls : Holds(c) /\ Stage(c) >= 1
         \/ \E r \in wire : r.from = fence.token /\ r.name # Ns
Creates(r) == r.verb = "POST" /\ r.name = Ns
NamespaceInv ==
    Kept /\ fence.op \in Lasting /\ Begun =>
        \A r \in wire : Creates(r) => r.from # fence.token /\ (~cell[Ns].here => ~r.admitted)

Owned(n) == cell[n].here /\ cell[n].token = fence.token /\ cell[n].spec = fence.op
ProgressInv ==
    \A c \in Calls : Holds(c) /\ fence.op \in Lasting /\ cell[Ns].here =>
       \A k \in 1..Len(Plan(fence.op)) :
          k <= Stage(c) /\ Plan(fence.op)[k].do = "put" => Owned(Plan(fence.op)[k].name)

AppliedInv ==
    fence.phase = "APPLIED" /\ Kept => \A r \in wire : r.from # fence.token

Migration == cell[Ns].here => Owned(Job(fence.op)) /\ ~cell[Job(fence.op)].up
Evidence  == cell[Ns].here => Owned(Ready) /\ cell[Ready].ev > 0
ReachedSchema(c) ==
    /\ Stage(c) >= 4 => call[c].proof > 0
    /\ Stage(c) >= 6 => Migration
    /\ Stage(c) >= 8 => Evidence
RolledOut == Kept /\ cell[Run].token = fence.token /\ cell[Run].up
SchemaInv ==
    fence.op \in Migrating =>
    /\ \A c \in Calls : Holds(c) => ReachedSchema(c)
    /\ Kept => \A r \in wire : r.from = fence.token /\ r.name = Run /\ r.new.up => Migration /\ Evidence
    /\ RolledOut => /\ Migration /\ Evidence
                    /\ \A r \in wire : r.from # fence.token
                    /\ \A c \in Calls : Holds(c) => Stage(c) >= 9

IInv == /\ TypeOK /\ CallInv /\ TokenInv /\ RequestInv /\ CellInv /\ DeletionInv
        /\ NamespaceInv /\ ProgressInv /\ AppliedInv /\ SchemaInv /\ AppliedIsExclusive

-----------------------------------------------------------------------------
(* Objects and plans                                                       *)

\* The objects have different names, and only a Job is of kind "job".
LEMMA NamesDiffer ==
    /\ Ns \in Names /\ Run \in Names /\ Ready \in Names
    /\ Ns # Run /\ Ns # Ready /\ Run # Ready
    /\ \A i \in Migrating : /\ Job(i) \in Names
                            /\ Job(i) # Ns /\ Job(i) # Run /\ Job(i) # Ready
    /\ \A n \in Names : n[1] = "job" => n # Ns /\ n # Run /\ n # Ready
  BY DEF Ns, Run, Ready, Job, Names

\* What a plan that deletes, a plan without and a plan with a schema consist of.
LEMMA ShortPlan ==
  ASSUME NEW i \in Orders, i \notin Migrating
  PROVE  /\ Len(Plan(i)) = 2
         /\ i \in Deletes =>
              /\ Plan(i)[1].do = "sync"  /\ Plan(i)[1].name = Ns
              /\ Plan(i)[2].do = "erase" /\ Plan(i)[2].name = Ns
         /\ i \in Lasting =>
              /\ Plan(i)[1].do = "put" /\ Plan(i)[1].name = Ns
              /\ Plan(i)[2].do = "put" /\ Plan(i)[2].name = Run
<1>1. CASE i \in Deletes
  <2>1. Plan(i) = <<[do |-> "sync", name |-> Ns], [do |-> "erase", name |-> Ns]>>
    BY <1>1 DEF Plan
  <2> QED
    BY <1>1, <2>1 DEF Lasting
<1>2. CASE i \notin Deletes
  <2>1. Plan(i) = <<[do |-> "put", name |-> Ns], [do |-> "put", name |-> Run]>>
    BY <1>2 DEF Plan, Put
  <2> QED
    BY <1>2, <2>1
<1> QED
  BY <1>1, <1>2

LEMMA LongPlan ==
  ASSUME NEW i \in Migrating
  PROVE  /\ Len(Plan(i)) = 9 /\ i \in Lasting /\ i \in Orders
         /\ Plan(i)[1].do = "put"     /\ Plan(i)[1].name = Ns
         /\ Plan(i)[2].do = "quiesce" /\ Plan(i)[2].name = Run
         /\ Plan(i)[3].do = "drain"   /\ Plan(i)[3].name = Ns
         /\ Plan(i)[4].do = "secret"  /\ Plan(i)[4].name = Ns
         /\ Plan(i)[5].do = "put"     /\ Plan(i)[5].name = Job(i)
         /\ Plan(i)[6].do = "migrate" /\ Plan(i)[6].name = Ns
         /\ Plan(i)[7].do = "verify"  /\ Plan(i)[7].name = Ns
         /\ Plan(i)[8].do = "put"     /\ Plan(i)[8].name = Ready
         /\ Plan(i)[9].do = "put"     /\ Plan(i)[9].name = Run
<1>1. i \notin Deletes /\ i \in Lasting /\ i \in Orders
  BY IntentsAssumption DEF Deletes, Lasting, Orders
<1>2. Plan(i) = <<[do |-> "put", name |-> Ns], [do |-> "quiesce", name |-> Run],
                  [do |-> "drain", name |-> Ns], [do |-> "secret", name |-> Ns],
                  [do |-> "put", name |-> Job(i)], [do |-> "migrate", name |-> Ns],
                  [do |-> "verify", name |-> Ns], [do |-> "put", name |-> Ready],
                  [do |-> "put", name |-> Run]>>
  BY <1>1 DEF Plan, Put, Wait
<1> QED
  BY <1>1, <1>2

\* A step of a plan is on an object; an order either lasts or deletes.
LEMMA PlanSteps ==
  ASSUME NEW i \in Orders
  PROVE  /\ Len(Plan(i)) \in Nat \ {0}
         /\ \A k \in 1..Len(Plan(i)) : Plan(i)[k].name \in Names
         /\ i \in Lasting <=> i \notin Deletes
<1>1. i \in Lasting <=> i \notin Deletes
  BY IntentsAssumption DEF Orders, Lasting, Deletes
<1>2. CASE i \in Migrating
  <2>1. \A k \in 1..9 : \/ k = 1 \/ k = 2 \/ k = 3 \/ k = 4 \/ k = 5
                        \/ k = 6 \/ k = 7 \/ k = 8 \/ k = 9
    OBVIOUS
  <2>2. \A k \in 1..9 : Plan(i)[k].name \in Names
    BY <1>2, <2>1, LongPlan, NamesDiffer
  <2> QED
    BY <1>1, <1>2, <2>2, LongPlan
<1>3. CASE i \notin Migrating
  <2>1. \A k \in 1..2 : Plan(i)[k].name \in Names
    BY <1>1, <1>3, ShortPlan, NamesDiffer
  <2> QED
    BY <1>1, <1>3, <2>1, ShortPlan
<1> QED
  BY <1>2, <1>3

-----------------------------------------------------------------------------
(* Types                                                                   *)

\* A call keeps its type when one of its fields takes a legal value.
LEMMA CallTyped ==
  ASSUME NEW c \in Calls, NEW k, call \in [Calls -> Calling], k \in Calling,
         call' = [call EXCEPT ![c] = k]
  PROVE  call' \in [Calls -> Calling]
  OBVIOUS

\* The step a call is at is on an object of the tenant.
LEMMA StepName ==
  ASSUME TypeOK, CallInv, NEW c \in Calls, call[c].order \in Orders, ~Finished(c)
  PROVE  /\ Step(c).name \in Names
         /\ call[c].at \in 1..Len(Plan(call[c].order))
<1>1. call[c].at \in Nat /\ call[c].at >= 1
  BY DEF TypeOK, Calling, CallInv, CallOK
<1>2. call[c].at \in 1..Len(Plan(call[c].order))
  BY <1>1, PlanSteps DEF Finished
<1> QED
  BY <1>2, PlanSteps DEF Step

LEMMA Literals ==
  /\ Absent \in Cells /\ Idle \in Calling
  /\ \A l \in Working \cup Undoing \cup {"idle", "scanned", "claim"} :
       \A k \in Calling : [k EXCEPT !.pc = l] \in Calling
<1> USE BoundsAssumption
<1>1. Absent \in Cells
  BY DEF Absent, Cells, Tokens
<1>2. Idle \in Calling
  BY <1>1 DEF Idle, Calling, Tokens, Snapshots
<1>3. ASSUME NEW l \in Working \cup Undoing \cup {"idle", "scanned", "claim"}, NEW k \in Calling
      PROVE  [k EXCEPT !.pc = l] \in Calling
  BY <1>3 DEF Calling
<1> QED
  BY <1>1, <1>2, <1>3

\* A request the adapter makes is one.
LEMMA RequestTyped ==
  ASSUME TypeOK, NEW c \in Calls, NEW v \in {"POST", "PUT", "DELETE"},
         NEW n \in Names, NEW new \in Cells
  PROVE  Request(c, v, n, new) \in Requests
  BY DEF Request, Requests, TypeOK, Calling

LEMMA BodyTyped ==
  ASSUME TypeOK, CallInv, NEW c \in Calls, call[c].order \in Orders, ~Finished(c)
  PROVE  Body(c, cell[Step(c).name]) \in Cells
<1>1. cell[Step(c).name] \in Cells
  BY StepName DEF TypeOK
<1>2. call[c].token \in Tokens /\ call[c].proof \in 0..MaxSecret
  BY DEF TypeOK, Calling
<1>3. /\ (Step(c).name[1] = "job" \/ Step(c).name[1] # "job")
      /\ cell[Step(c).name].up \in BOOLEAN /\ cell[Step(c).name].ev \in 0..MaxSecret
  BY <1>1 DEF Cells
<1> DEFINE b == Body(c, cell[Step(c).name])
<1>4. /\ b.here = TRUE /\ b.token = call[c].token
      /\ b.op = call[c].order /\ b.spec = call[c].order
  BY DEF Body
<1>5. b.up \in BOOLEAN
  BY <1>3 DEF Body
<1>6. b.ev \in 0..MaxSecret
  BY <1>2, <1>3, BoundsAssumption DEF Body
<1>7. b = [here |-> b.here, token |-> b.token, op |-> b.op, spec |-> b.spec,
           up |-> b.up, ev |-> b.ev]
  BY DEF Body
<1> QED
  BY <1>2, <1>4, <1>5, <1>6, <1>7 DEF Cells

\* What is left of an abandoned request is a request.
LEMMA AbandonTyped ==
  ASSUME TypeOK, NEW c \in Calls, Abandon(c)
  PROVE  wire' \subseteq Requests
  BY DEF Abandon, Requests, TypeOK

LEMMA FallenTyped ==
  ASSUME TypeOK, NEW c \in Calls, call' = Fallen(c)
  PROVE  call' \in [Calls -> Calling]
<1>1. call[c] \in Calling
  BY DEF TypeOK
<1>2. [call[c] EXCEPT !.pc = "undo", !.before = Absent] \in Calling
  BY <1>1, Literals DEF Calling, Undoing
<1> QED
  BY <1>2, Literals DEF Fallen, TypeOK

LEMMA SnapshotsShrink ==
  ASSUME NEW u \in Snapshots
  PROVE  SubSeq(u, 1, Len(u) - 1) \in Snapshots
<1> DEFINE S == [name : Names, before : Cells]
<1>1. u \in Seq(S)
  BY DEF Snapshots
<1> HIDE DEF S
<1>2. 1 \in Int /\ Len(u) - 1 \in Int /\ \A i \in 1..(Len(u) - 1) : u[i] \in S
  BY <1>1
<1>3. SubSeq(u, 1, Len(u) - 1) \in Seq(S)
  BY <1>2, SubSeqProperties
<1> QED
  BY <1>3 DEF Snapshots, S

LEMMA SnapshotsGrow ==
  ASSUME NEW u \in Snapshots, NEW n \in Names, NEW b \in Cells
  PROVE  Append(u, [name |-> n, before |-> b]) \in Snapshots
<1> DEFINE S == [name : Names, before : Cells]
<1>1. u \in Seq(S) /\ [name |-> n, before |-> b] \in S
  BY DEF Snapshots
<1> DEFINE s == [name |-> n, before |-> b]
<1> HIDE DEF S, s
<1>2. Append(u, s) \in Seq(S)
  BY <1>1 DEF s
<1> QED
  BY <1>2 DEF Snapshots, S, s

LEMMA SnapshotsHold ==
  ASSUME NEW u \in Snapshots, u # <<>>
  PROVE  u[Len(u)].name \in Names /\ u[Len(u)].before \in Cells
<1> DEFINE S == [name : Names, before : Cells]
<1>1. u \in Seq(S) /\ u # <<>>
  BY DEF Snapshots
<1> HIDE DEF S
<1>2. u[Len(u)] \in S
  BY <1>1
<1> QED
  BY <1>2 DEF S

LEMMA PoppedTyped ==
  ASSUME TypeOK, NEW c \in Calls
  PROVE  Popped(c) \in [Calls -> Calling]
<1> DEFINE u == SubSeq(call[c].undo, 1, Len(call[c].undo) - 1)
<1>1. call[c] \in Calling
  BY DEF TypeOK
<1>2. u \in Snapshots
  BY <1>1, SnapshotsShrink DEF Calling
<1> HIDE DEF u
<1>3. [call[c] EXCEPT !.pc = "undo", !.undo = u] \in Calling
  BY <1>1, <1>2 DEF Calling, Undoing
<1>4. Popped(c) = [call EXCEPT ![c] = [call[c] EXCEPT !.pc = "undo", !.undo = u]]
  BY DEF Popped, u
<1> QED
  BY <1>3, <1>4 DEF TypeOK

LEMMA AdvancedTyped ==
  ASSUME TypeOK, NEW c \in Calls
  PROVE  Advanced(c) \in [Calls -> Calling]
<1>1. call[c] \in Calling /\ call[c].at + 1 \in Nat
  BY DEF TypeOK, Calling
<1>2. [call[c] EXCEPT !.pc = "check", !.at = @ + 1, !.before = Absent] \in Calling
  BY <1>1, Literals DEF Calling, Working
<1>3. Advanced(c) = [call EXCEPT ![c] = [call[c] EXCEPT !.pc = "check", !.at = @ + 1, !.before = Absent]]
  BY DEF Advanced
<1> QED
  BY <1>2, <1>3 DEF TypeOK

LEMMA MovedTyped ==
  ASSUME TypeOK, NEW c \in Calls,
         NEW l \in Working \cup Undoing \cup {"idle", "scanned", "claim"}
  PROVE  Moved(c, l) \in [Calls -> Calling]
<1>1. call[c] \in Calling /\ [call[c] EXCEPT !.pc = l] \in Calling
  BY Literals DEF TypeOK
<1> QED
  BY <1>1 DEF Moved, TypeOK

LEMMA IssueTyped ==
  ASSUME TypeOK, NEW c \in Calls, NEW i \in Orders, Issue(c, i)
  PROVE  call' \in [Calls -> Calling] /\ issued' \in Tokens
<1>1. issued + 1 \in Tokens
  BY BoundsAssumption DEF Issue, TypeOK, Tokens
<1>2. [Idle EXCEPT !.pc = "claim", !.order = i, !.token = issued + 1] \in Calling
  BY <1>1, Literals DEF Calling
<1> QED
  BY <1>1, <1>2 DEF Issue, TypeOK

\* A request whose object was written meanwhile is still one.
LEMMA StaleTyped ==
  ASSUME NEW W, W \subseteq Requests, NEW n
  PROVE  Stale(W, n) \subseteq Requests /\ {[q EXCEPT !.fresh = FALSE] : q \in W} \subseteq Requests
<1>1. \A q \in W : q \in Requests /\ [q EXCEPT !.fresh = FALSE] \in Requests
  BY DEF Requests
<1> QED
  BY <1>1 DEF Stale

\* Every value stays in its type: an answered call moves on, a Job ends, a claim
\* has its caller's token.
LEMMA TypeStep == TypeOK /\ CallInv /\ RequestInv /\ [Next]_vars => TypeOK'
<1> SUFFICES ASSUME TypeOK, CallInv, RequestInv, [Next]_vars PROVE TypeOK'
  OBVIOUS
<1> USE BoundsAssumption
<1> DEFINE Ls == Working \cup Undoing \cup {"idle", "scanned", "claim"}
<1>0. \A c \in Calls : \A l \in Ls : Moved(c, l) \in [Calls -> Calling]
  BY MovedTyped
<1> HIDE DEF Ls
<1>a. \A c \in Calls : [call EXCEPT ![c] = Idle] \in [Calls -> Calling]
  BY Literals DEF TypeOK
<1>b. ASSUME UNCHANGED quiet, wire' \subseteq Requests, call' \in [Calls -> Calling],
             undone' \subseteq Tokens
      PROVE  TypeOK'
  BY <1>b DEF TypeOK, quiet
<1>1. ASSUME NEW c \in Calls, NEW i \in Intents, Command(c, i) PROVE TypeOK'
  BY <1>1, IssueTyped DEF Command, cluster, TypeOK, Orders
<1>2. ASSUME NEW c \in Calls, Scan(c) PROVE TypeOK'
  BY <1>2, <1>0 DEF Scan, cluster, TypeOK, Ls
<1>3. ASSUME NEW c \in Calls, Recover(c) PROVE TypeOK'
  <2>1. call' \in [Calls -> Calling] /\ issued' \in Tokens
    BY <1>3, <1>a, IssueTyped DEF Recover, TypeOK, Orders, Tokens
  <2> QED
    BY <1>3, <2>1 DEF Recover, cluster, TypeOK
<1>4. ASSUME NEW c \in Calls, Claim(c) PROVE TypeOK'
  <2>1. call' \in [Calls -> Calling]
    BY <1>4, <1>0, <1>a DEF Claim, Ls, Working
  <2>2. fence' \in [token : Tokens, op : Orders \cup {NoIntent}, phase : Phases]
    BY <1>4 DEF Claim, TypeOK, Calling, Phases
  <2> QED
    BY <1>4, <2>1, <2>2 DEF Claim, TypeOK
<1>5. ASSUME NEW c \in Calls, Apply(c) PROVE TypeOK'
  <2>1. call[c].order \in Orders /\ ~Finished(c) /\ Step(c).name \in Names
    BY <1>5, StepName DEF Apply, Writing, At, CallInv, CallOK
  <2>2. cell[Step(c).name] \in Cells /\ Body(c, cell[Step(c).name]) \in Cells
    BY <2>1, BodyTyped DEF TypeOK
  <2>3. wire' \subseteq Requests
    BY <1>5, <2>1, <2>2, RequestTyped DEF Apply, Ask, TypeOK
  <2>4. [call[c] EXCEPT !.pc = "wait", !.before = cell[Step(c).name]] \in Calling
    BY <2>2 DEF TypeOK, Calling, Working
  <2>5. call' \in [Calls -> Calling]
    BY <1>5, <2>4 DEF Apply, TypeOK
  <2> QED
    BY <1>5, <1>b, <2>3, <2>5 DEF Apply, TypeOK
<1>6. ASSUME NEW c \in Calls, Synchronize(c) PROVE TypeOK'
  <2>1. CASE cell[Ns].here
    <3>1. Ns \in Names /\ call[c].order \in Orders /\ call[c].token \in Tokens
      BY <1>6, NamesDiffer DEF Synchronize, Writing, At, CallInv, CallOK, TypeOK, Calling
    <3>2. [cell[Ns] EXCEPT !.token = call[c].token, !.op = call[c].order] \in Cells
      BY <3>1 DEF TypeOK, Cells
    <3>3. wire' \subseteq Requests
      BY <1>6, <2>1, <3>1, <3>2, RequestTyped DEF Synchronize, Ask, TypeOK
    <3> QED
      BY <1>6, <1>0, <1>b, <2>1, <3>3 DEF Synchronize, Ls, Working, TypeOK
  <2>2. CASE ~cell[Ns].here
    <3>1. [Advanced(c) EXCEPT ![c].at = 3] \in [Calls -> Calling]
      <4>1. Advanced(c)[c] \in Calling
        BY AdvancedTyped
      <4>2. [Advanced(c)[c] EXCEPT !.at = 3] \in Calling
        BY <4>1 DEF Calling
      <4> QED
        BY <4>2, AdvancedTyped
    <3> QED
      BY <1>6, <1>b, <2>2, <3>1 DEF Synchronize, TypeOK
  <2> QED
    BY <2>1, <2>2
<1>7. ASSUME NEW c \in Calls, Erase(c) PROVE TypeOK'
  <2>1. Request(c, "DELETE", Ns, Absent) \in Requests
    BY NamesDiffer, Literals, RequestTyped
  <2>2. [Request(c, "DELETE", Ns, Absent) EXCEPT !.fresh = call[c].held] \in Requests
    BY <2>1 DEF Requests, TypeOK, Calling
  <2>3. wire' \subseteq Requests
    BY <1>7, <2>2 DEF Erase, TypeOK
  <2> QED
    BY <1>7, <1>0, <1>b, <2>3 DEF Erase, Ls, Working, TypeOK
<1>8. ASSUME NEW c \in Calls, Confirm(c) PROVE TypeOK'
  <2>1. Step(c).name \in Names /\ call[c].before \in Cells
    BY <1>8, StepName DEF Confirm, CallInv, CallOK, TypeOK, Calling
  <2>2. Append(call[c].undo, Snapshot(c)) \in Snapshots
    BY <2>1, SnapshotsGrow DEF Snapshot, TypeOK, Calling
  <2>3. Advanced(c)[c] \in Calling /\ Advanced(c)[c].undo = call[c].undo
    <3>1. Advanced(c)[c] \in Calling
      BY AdvancedTyped
    <3>2. Advanced(c)[c].undo = call[c].undo
      BY DEF Advanced, TypeOK, Calling
    <3> QED
      BY <3>1, <3>2
  <2> DEFINE u == IF Step(c).do \in {"put", "quiesce"} THEN Append(Advanced(c)[c].undo, Snapshot(c))
                  ELSE Advanced(c)[c].undo
  <2>4. u \in Snapshots
    BY <2>2, <2>3 DEF TypeOK, Calling
  <2>5. call' = [Advanced(c) EXCEPT ![c].undo = u]
    BY <1>8 DEF Confirm
  <2> HIDE DEF u
  <2>6. [Advanced(c)[c] EXCEPT !.undo = u] \in Calling
    BY <2>3, <2>4 DEF Calling
  <2>7. call' \in [Calls -> Calling]
    BY <2>5, <2>6, AdvancedTyped
  <2> QED
    BY <1>8, <1>b, <2>7 DEF Confirm, TypeOK
<1>9. ASSUME NEW c \in Calls, Quiesce(c) PROVE TypeOK'
  BY <1>9, <1>b, AdvancedTyped DEF Quiesce, TypeOK
<1>10. ASSUME NEW c \in Calls, AwaitSecret(c) PROVE TypeOK'
  <2>1. Advanced(c)[c] \in Calling /\ secret \in 0..MaxSecret
    BY AdvancedTyped DEF TypeOK
  <2>2. [Advanced(c)[c] EXCEPT !.proof = secret] \in Calling
    BY <2>1 DEF Calling
  <2>3. call' \in [Calls -> Calling]
    BY <1>10, <2>2, AdvancedTyped DEF AwaitSecret
  <2> QED
    BY <1>10, <1>b, <2>3 DEF AwaitSecret, TypeOK
<1>11. ASSUME NEW c \in Calls, AwaitMigration(c) PROVE TypeOK'
  BY <1>11, <1>b, AdvancedTyped DEF AwaitMigration, TypeOK
<1>12. ASSUME NEW c \in Calls, Verify(c) PROVE TypeOK'
  BY <1>12, <1>b, AdvancedTyped DEF Verify, TypeOK
<1>13. ASSUME NEW c \in Calls, Receipt(c) PROVE TypeOK'
  <2>1. call' \in [Calls -> Calling]
    BY <1>13, <1>0, <1>a DEF Receipt, Ls, Working
  <2>2. fence' \in [token : Tokens, op : Orders \cup {NoIntent}, phase : Phases]
    BY <1>13 DEF Receipt, TypeOK, Phases
  <2> QED
    BY <1>13, <2>1, <2>2 DEF Receipt, TypeOK
<1>14. ASSUME NEW c \in Calls, Observe(c) PROVE TypeOK'
  BY <1>14, <1>a, <1>b DEF Observe, TypeOK
<1>15. ASSUME NEW c \in Calls, Fail(c) PROVE TypeOK'
  <2>1. wire' \subseteq Requests
    BY <1>15, AbandonTyped DEF Fail, TypeOK
  <2>2. undone' \subseteq Tokens
    BY <1>15 DEF Fail, TypeOK, Calling
  <2> QED
    BY <1>15, <1>b, <2>1, <2>2, FallenTyped DEF Fail
<1>16. ASSUME NEW c \in Calls, Abort(c) PROVE TypeOK'
  BY <1>16, <1>a, <1>b, AbandonTyped DEF Abort, TypeOK
<1>17. ASSUME NEW c \in Calls, Restore(c) PROVE TypeOK'
  <2>1. call[c].undo \in Snapshots /\ call[c].undo # <<>>
    BY <1>17 DEF Restore, TypeOK, Calling
  <2>2. Top(c).name \in Names /\ Top(c).before \in Cells
    BY <2>1, SnapshotsHold DEF Top
  <2>3. [Former(Top(c).name, Top(c).before) EXCEPT !.token = call[c].token] \in Cells
    <3>1. cell[Top(c).name] \in Cells /\ call[c].token \in Tokens
      BY <2>2 DEF TypeOK, Calling
    <3> DEFINE b == Top(c).before
    <3> DEFINE m == cell[Top(c).name]
    <3> DEFINE j == Top(c).name[1] = "job"
    <3> HIDE DEF b, m, j
    <3>2. [[b EXCEPT !.op = m.op, !.up = IF j THEN m.up ELSE @, !.ev = IF j THEN m.ev ELSE @]
            EXCEPT !.token = call[c].token] \in Cells
      BY <2>2, <3>1 DEF Cells, b, m
    <3> QED
      BY <3>2 DEF Former, b, m, j
  <2>4. Moved(c, "unwait") \in [Calls -> Calling] /\ Popped(c) \in [Calls -> Calling]
    BY <1>0, PoppedTyped DEF Ls, Undoing
  <2>5. /\ Request(c, "DELETE", Top(c).name, Absent) \in Requests
        /\ Request(c, "PUT", Top(c).name,
                   [Former(Top(c).name, Top(c).before) EXCEPT !.token = call[c].token]) \in Requests
    BY <2>2, <2>3, Literals, RequestTyped
  <2>6. wire' \subseteq Requests /\ call' \in [Calls -> Calling]
    BY <1>17, <2>4, <2>5 DEF Restore, Ask, TypeOK
  <2> QED
    BY <1>17, <1>b, <2>6 DEF Restore, TypeOK
<1>18. ASSUME NEW c \in Calls, Stop(c) PROVE TypeOK'
  BY <1>18, <1>0, <1>b DEF Stop, Ls, Undoing, TypeOK
<1>19. ASSUME NEW c \in Calls, GiveUp(c) PROVE TypeOK'
  BY <1>19, <1>0, <1>b, AbandonTyped DEF GiveUp, Ls, Undoing, TypeOK
<1>20. ASSUME NEW c \in Calls, RecordFailure(c) PROVE TypeOK'
  BY <1>20, <1>a DEF RecordFailure, TypeOK, Phases
<1>21. ASSUME NEW r \in wire, Admit(r) PROVE TypeOK'
  <2>1. [r EXCEPT !.admitted = TRUE] \in Requests
    BY DEF TypeOK, Requests
  <2> QED
    BY <1>21, <1>b, <2>1 DEF Admit, TypeOK
<1>22. ASSUME NEW r \in wire, Persist(r) PROVE TypeOK'
  <2>1. r \in Requests /\ wire' \subseteq Requests
    BY <1>22, StaleTyped DEF Persist, TypeOK
  <2>2. cell' \in [Names -> Cells] /\ dying' \in BOOLEAN
    <3>1. r.name \in Names /\ r.new \in Cells /\ Absent \in Cells
      BY <2>1, Literals DEF Requests
    <3>2. \/ cell' = cell \/ cell' = [cell EXCEPT ![r.name] = r.new]
          \/ cell' = [cell EXCEPT ![r.name] = Absent]
      BY <1>22 DEF Persist
    <3>3. dying' \in BOOLEAN
      BY <1>22 DEF Persist, TypeOK
    <3> QED
      BY <3>1, <3>2, <3>3 DEF TypeOK
  <2>3. \A c \in Calls : Unheld(call, r.name)[c] \in Calling
    BY DEF Unheld, TypeOK, Calling
  <2>4. Unheld(call, r.name) \in [Calls -> Calling]
    BY <2>3 DEF Unheld, TypeOK
  <2>5. ASSUME r.by \in Calls PROVE Answered(r)[r.by] \in Calling
    <3>1. /\ Moved(r.by, "confirm") \in [Calls -> Calling]
          /\ Popped(r.by) \in [Calls -> Calling]
      BY <1>0, <2>5, PoppedTyped DEF Ls, Working
    <3>2. Moved(r.by, "confirm")[r.by] \in Calling /\ (Step(r.by).do = "sync") \in BOOLEAN
      BY <3>1, <2>5
    <3>3. \A h \in BOOLEAN : [Moved(r.by, "confirm")[r.by] EXCEPT !.held = h] \in Calling
      BY <3>2 DEF Calling
    <3>4. [Moved(r.by, "confirm") EXCEPT ![r.by].held = Step(r.by).do = "sync"][r.by] \in Calling
      BY <2>5, <3>1, <3>2, <3>3
    <3> QED
      BY <2>5, <3>1, <3>4 DEF Answered
  <2>6. call' \in [Calls -> Calling]
    BY <1>22, <2>4, <2>5 DEF Persist
  <2> QED
    BY <1>22, <2>1, <2>2, <2>6 DEF Persist, TypeOK
<1>23. ASSUME NEW r \in wire, Refuse(r) PROVE TypeOK'
  <2>1. CASE r.by \notin Calls
    BY <1>23, <1>b, <2>1 DEF Refuse, TypeOK
  <2>2. CASE r.by \in Calls
    <3>1. \/ call' = Moved(r.by, "record") \/ call' = Moved(r.by, "check") \/ call' = Fallen(r.by)
      BY <1>23, <2>2 DEF Refuse
    <3>2. call' \in [Calls -> Calling]
      BY <1>0, <2>2, <3>1, FallenTyped DEF Ls, Working, Undoing
    <3>3. undone' \subseteq Tokens /\ wire' \subseteq Requests
      BY <1>23, <2>2 DEF Refuse, TypeOK, Calling
    <3> QED
      BY <1>23, <1>b, <3>2, <3>3 DEF Refuse
  <2> QED
    BY <2>1, <2>2
<1>24. ASSUME NEW n \in Names, JobRuns(n) PROVE TypeOK'
  <2>1. cell[n] \in Cells /\ secret \in 0..MaxSecret
    BY DEF TypeOK
  <2>2. [cell[n] EXCEPT !.ev = secret] \in Cells /\ [cell[n] EXCEPT !.up = FALSE] \in Cells
    BY <2>1 DEF Cells
  <2>3. cell' \in [Names -> Cells]
    BY <1>24, <2>2 DEF JobRuns, TypeOK
  <2>4. wire' \subseteq Requests
    BY <1>24, StaleTyped DEF JobRuns, TypeOK
  <2> QED
    BY <1>24, <2>3, <2>4 DEF JobRuns, rest, TypeOK
<1>25. CASE Register
  BY <1>25 DEF Register, cluster, TypeOK, Tokens
<1>26. CASE PodsFollow
  BY <1>26, NamesDiffer DEF PodsFollow, rest, TypeOK, Cells
<1>27. CASE SecretMade
  BY <1>27 DEF SecretMade, rest, TypeOK
<1>28. CASE NamespaceGone
  <2>1. cell' \in [Names -> Cells] /\ wire' \subseteq Requests
    BY <1>28, Literals, StaleTyped DEF NamespaceGone, TypeOK
  <2>2. \A c \in Calls : Unheld(call, Ns)[c] \in Calling
    BY DEF Unheld, TypeOK, Calling
  <2>3. call' \in [Calls -> Calling]
    BY <1>28, <2>2 DEF NamespaceGone, Unheld, TypeOK
  <2> QED
    BY <1>28, <2>1, <2>3 DEF NamespaceGone, rest, TypeOK
<1>29. CASE UNCHANGED vars
  BY <1>29 DEF vars, cluster, TypeOK
<1> QED
  BY <1>1, <1>2, <1>3, <1>4, <1>5, <1>6, <1>7, <1>8, <1>9, <1>10, <1>11, <1>12,
     <1>13, <1>14, <1>15, <1>16, <1>17, <1>18, <1>19, <1>20, <1>21, <1>22,
     <1>23, <1>24, <1>25, <1>26, <1>27, <1>28, <1>29 DEF Next

-----------------------------------------------------------------------------
(* How a step changes the calls                                            *)

Others(c) == \A d \in Calls : d # c => call'[d] = call[d]
SameOrder(c) == call'[c].order = call[c].order /\ call'[c].token = call[c].token

LEMMA MovedFields ==
  ASSUME TypeOK, NEW c \in Calls, NEW l, call' = Moved(c, l)
  PROVE  /\ Others(c) /\ SameOrder(c)
         /\ call'[c].pc = l /\ call'[c].at = call[c].at /\ call'[c].held = call[c].held
         /\ call'[c].undo = call[c].undo /\ call'[c].proof = call[c].proof
<1>1. call[c] \in Calling
  BY DEF TypeOK
<1>2. call'[c] = [call[c] EXCEPT !.pc = l] /\ Others(c)
  BY DEF TypeOK, Moved, Others
<1> QED
  BY <1>1, <1>2 DEF Calling, SameOrder

LEMMA AdvancedFields ==
  ASSUME TypeOK, NEW c \in Calls
  PROVE  /\ \A d \in Calls : d # c => Advanced(c)[d] = call[d]
         /\ Advanced(c)[c].pc = "check" /\ Advanced(c)[c].at = call[c].at + 1
         /\ Advanced(c)[c].order = call[c].order /\ Advanced(c)[c].token = call[c].token
         /\ Advanced(c)[c].held = call[c].held /\ Advanced(c)[c].undo = call[c].undo
         /\ Advanced(c)[c].proof = call[c].proof
<1>1. call[c] \in Calling
  BY DEF TypeOK
<1>2. /\ Advanced(c)[c] = [call[c] EXCEPT !.pc = "check", !.at = @ + 1, !.before = Absent]
      /\ \A d \in Calls : d # c => Advanced(c)[d] = call[d]
  BY DEF TypeOK, Advanced
<1> QED
  BY <1>1, <1>2 DEF Calling

\* A call that goes idle keeps nothing.
LEMMA IdleFields ==
  ASSUME TypeOK, NEW c \in Calls, call' = [call EXCEPT ![c] = Idle]
  PROVE  /\ Others(c)
         /\ call'[c].pc = "idle" /\ call'[c].token = 0 /\ call'[c].at = 1
         /\ call'[c].held = FALSE
  BY DEF TypeOK, Idle, Others

LEMMA FallenFields ==
  ASSUME TypeOK, NEW c \in Calls, call' = Fallen(c)
  PROVE  /\ Others(c)
         /\ \/ /\ call[c].order = Reclaim /\ call'[c] = Idle
            \/ /\ call[c].order # Reclaim /\ SameOrder(c)
               /\ call'[c].pc = "undo" /\ call'[c].at = call[c].at
               /\ call'[c].held = call[c].held
<1>1. call[c] \in Calling
  BY DEF TypeOK
<1>2. Others(c)
  BY DEF Fallen, TypeOK, Others
<1>3. CASE call[c].order = Reclaim
  BY <1>2, <1>3 DEF Fallen, TypeOK
<1>4. CASE call[c].order # Reclaim
  <2>1. call'[c] = [call[c] EXCEPT !.pc = "undo", !.before = Absent]
    BY <1>4 DEF Fallen, TypeOK
  <2> QED
    BY <1>1, <1>2, <1>4, <2>1 DEF Calling, SameOrder
<1> QED
  BY <1>3, <1>4

LEMMA PoppedFields ==
  ASSUME TypeOK, NEW c \in Calls
  PROVE  /\ \A d \in Calls : d # c => Popped(c)[d] = call[d]
         /\ Popped(c)[c].pc = "undo" /\ Popped(c)[c].at = call[c].at
         /\ Popped(c)[c].order = call[c].order /\ Popped(c)[c].token = call[c].token
         /\ Popped(c)[c].held = call[c].held
<1> DEFINE u == SubSeq(call[c].undo, 1, Len(call[c].undo) - 1)
<1>1. call[c] \in Calling
  BY DEF TypeOK
<1>2. /\ \A d \in Calls : d # c => Popped(c)[d] = call[d]
      /\ Popped(c)[c] = [call[c] EXCEPT !.pc = "undo", !.undo = u]
  BY DEF TypeOK, Popped
<1> HIDE DEF u
<1> QED
  BY <1>1, <1>2 DEF Calling

LEMMA IssueFields ==
  ASSUME TypeOK, NEW c \in Calls, NEW i \in Orders, Issue(c, i)
  PROVE  /\ Others(c)
         /\ call'[c].pc = "claim" /\ call'[c].token = issued + 1
         /\ call'[c].at = 1 /\ call'[c].order = i /\ call'[c].held = FALSE
         /\ issued' = issued + 1
  BY DEF Issue, TypeOK, Idle, Others

\* What the others keep when the namespace is written: all but their hold on it.
Unchanged(d) ==
    /\ call'[d].pc = call[d].pc /\ call'[d].at = call[d].at
    /\ call'[d].order = call[d].order /\ call'[d].token = call[d].token
    /\ call'[d].undo = call[d].undo /\ call'[d].proof = call[d].proof
    /\ call'[d].held => call[d].held

LEMMA UnheldFields ==
  ASSUME TypeOK, NEW d \in Calls, NEW n
  PROVE  /\ Unheld(call, n)[d].pc = call[d].pc /\ Unheld(call, n)[d].at = call[d].at
         /\ Unheld(call, n)[d].order = call[d].order /\ Unheld(call, n)[d].token = call[d].token
         /\ Unheld(call, n)[d].undo = call[d].undo /\ Unheld(call, n)[d].proof = call[d].proof
         /\ Unheld(call, n)[d].held => call[d].held /\ n # Ns
  BY DEF Unheld, TypeOK, Calling

\* The caller of a request that is persisted confirms it, or undoes the next write.
LEMMA PersistFields ==
  ASSUME TypeOK, NEW r \in wire, Persist(r)
  PROVE  /\ \A d \in Calls : d # r.by => /\ Unchanged(d)
                                         /\ r.name = Ns => ~call'[d].held
         /\ r.by \in Calls =>
              /\ SameOrder(r.by) /\ call'[r.by].at = call[r.by].at
              /\ IF call[r.by].pc = "unwait" THEN call'[r.by].pc = "undo"
                 ELSE /\ call'[r.by].pc = "confirm" /\ call'[r.by].proof = call[r.by].proof
                      /\ call'[r.by].held <=> Step(r.by).do = "sync"
<1> DEFINE k == Unheld(call, r.name)
<1>1. call' = IF r.by \in Calls THEN [k EXCEPT ![r.by] = Answered(r)[r.by]] ELSE k
  BY DEF Persist
<1>2. DOMAIN k = Calls
  BY DEF Unheld, TypeOK
<1>3. ASSUME NEW d \in Calls, d # r.by
      PROVE  Unchanged(d) /\ (r.name = Ns => ~call'[d].held)
  <2>1. call'[d] = k[d]
    BY <1>1, <1>2, <1>3
  <2> QED
    BY <1>3, <2>1, UnheldFields DEF Unchanged
<1>4. ASSUME r.by \in Calls
      PROVE  /\ SameOrder(r.by) /\ call'[r.by].at = call[r.by].at
             /\ IF call[r.by].pc = "unwait" THEN call'[r.by].pc = "undo"
                ELSE /\ call'[r.by].pc = "confirm" /\ call'[r.by].proof = call[r.by].proof
                     /\ call'[r.by].held <=> Step(r.by).do = "sync"
  <2>1. call'[r.by] = Answered(r)[r.by]
    BY <1>1, <1>2, <1>4
  <2>2. CASE call[r.by].pc = "unwait"
    <3>1. Answered(r) = Popped(r.by)
      BY <1>4, <2>2 DEF Answered
    <3> QED
      BY <1>4, <2>1, <2>2, <3>1, PoppedFields DEF SameOrder
  <2>3. CASE call[r.by].pc # "unwait"
    <3>1. call[r.by] \in Calling
      BY <1>4 DEF TypeOK
    <3>2. Answered(r)[r.by] = [[call[r.by] EXCEPT !.pc = "confirm"] EXCEPT !.held = (Step(r.by).do = "sync")]
      BY <1>4, <2>3 DEF Answered, Moved, TypeOK
    <3> HIDE DEF k
    <3>3. \A h \in BOOLEAN : LET a == [[call[r.by] EXCEPT !.pc = "confirm"] EXCEPT !.held = h]
                             IN  /\ a.order = call[r.by].order /\ a.token = call[r.by].token
                                 /\ a.at = call[r.by].at /\ a.pc = "confirm"
                                 /\ a.proof = call[r.by].proof /\ a.held = h
      BY <3>1 DEF Calling
    <3>4. (Step(r.by).do = "sync") \in BOOLEAN
      OBVIOUS
    <3> QED
      BY <2>1, <2>3, <3>2, <3>3, <3>4 DEF SameOrder
  <2> QED
    BY <2>2, <2>3
<1> QED
  BY <1>3, <1>4

-----------------------------------------------------------------------------
(* Calls                                                                   *)

LEMMA CallOKKept ==
  ASSUME NEW d \in Calls, CallOK(d),
         call'[d].pc = call[d].pc, call'[d].at = call[d].at, call'[d].undo = call[d].undo,
         call'[d].order = call[d].order, call'[d].token = call[d].token,
         call'[d].held => call[d].held
  PROVE  CallOK(d)'
  BY DEF CallOK, Finished, Step

\* A step changes its own call only, and leaves that one in a place that fits.
LEMMA CallOKOthers ==
  ASSUME CallInv, NEW c \in Calls, Others(c), CallOK(c)'
  PROVE  CallInv'
  BY CallOKKept DEF CallInv, Others

LEMMA CallOKAway ==
  ASSUME TypeOK, NEW c \in Calls, CallOK(c), SameOrder(c), call[c].pc \notin {"idle", "scanned"},
         call'[c].pc \in {"check", "observe", "undo", "record"}, call'[c].at >= 1
  PROVE  CallOK(c)'
  BY DEF CallOK, SameOrder

LEMMA CallOKIdle ==
  ASSUME TypeOK, NEW c \in Calls, call'[c].pc = "idle", call'[c].token = 0, call'[c].at = 1,
         call'[c].held = FALSE
  PROVE  CallOK(c)'
  BY DEF CallOK

\* Every step leaves a call where its program counter says.
LEMMA CallStep == TypeOK /\ CallInv /\ RequestInv /\ [Next]_vars => CallInv'
<1> SUFFICES ASSUME TypeOK, CallInv, RequestInv, [Next]_vars PROVE CallInv'
  OBVIOUS
<1>a. \A c \in Calls : CallOK(c) /\ call[c].at \in Nat
  BY DEF CallInv, TypeOK, Calling
<1>b. ASSUME NEW c \in Calls, call' = Advanced(c), call[c].pc = "check" PROVE CallInv'
  BY <1>a, <1>b, AdvancedFields, CallOKAway, CallOKOthers DEF Others, SameOrder, CallOK
<1>c. ASSUME NEW c \in Calls, NEW l \in {"check", "observe", "undo", "record"}, call' = Moved(c, l),
             call[c].pc \notin {"idle", "scanned"} PROVE CallInv'
  BY <1>a, <1>c, MovedFields, CallOKAway, CallOKOthers DEF CallOK
<1>d. ASSUME NEW c \in Calls, call' = [call EXCEPT ![c] = Idle] PROVE CallInv'
  BY <1>d, IdleFields, CallOKIdle, CallOKOthers
<1>e. ASSUME NEW c \in Calls, call' = Fallen(c), call[c].pc \notin {"idle", "scanned"} PROVE CallInv'
  <2>1. CASE call'[c] = Idle
    <3>1. /\ call'[c].pc = "idle" /\ call'[c].token = 0 /\ call'[c].at = 1
          /\ call'[c].held = FALSE
      BY <2>1 DEF Idle
    <3> QED
      BY <1>e, <3>1, FallenFields, CallOKIdle, CallOKOthers
  <2>2. CASE call'[c].pc = "undo" /\ SameOrder(c) /\ call'[c].at = call[c].at
    BY <1>a, <1>e, <2>2, FallenFields, CallOKAway, CallOKOthers DEF CallOK
  <2> QED
    BY <1>e, <2>1, <2>2, FallenFields
<1>f. ASSUME NEW c \in Calls, NEW i \in Orders, Issue(c, i) PROVE CallInv'
  <2>1. issued + 1 > 0
    BY BoundsAssumption DEF TypeOK, Tokens
  <2>2. /\ Others(c) /\ call'[c].pc = "claim" /\ call'[c].token = issued + 1
        /\ call'[c].at = 1 /\ call'[c].order = i /\ call'[c].held = FALSE
    BY <1>f, IssueFields
  <2>3. CallOK(c)'
    BY <2>1, <2>2 DEF CallOK
  <2> QED
    BY <2>2, <2>3, CallOKOthers
<1>g. ASSUME UNCHANGED call PROVE CallInv'
  BY <1>a, <1>g, CallOKKept DEF CallInv
<1>h. \A c \in Calls : \A do : At(c, do) => call[c].pc = "check"
  BY DEF At
<1>1. ASSUME NEW c \in Calls, NEW i \in Intents, Command(c, i) PROVE CallInv'
  BY <1>1, <1>f DEF Command, Orders
<1>2. ASSUME NEW c \in Calls, Scan(c) PROVE CallInv'
  <2>1. CallOK(c)'
    BY <1>2, <1>a, MovedFields DEF Scan, CallOK, SameOrder
  <2> QED
    BY <1>2, <2>1, MovedFields, CallOKOthers DEF Scan
<1>3. ASSUME NEW c \in Calls, Recover(c) PROVE CallInv'
  BY <1>3, <1>d, <1>f DEF Recover, Orders
<1>4. ASSUME NEW c \in Calls, Claim(c) PROVE CallInv'
  BY <1>4, <1>c, <1>d DEF Claim
<1>5. ASSUME NEW c \in Calls, Apply(c) PROVE CallInv'
  <2>1. /\ Others(c) /\ SameOrder(c) /\ call'[c].pc = "wait" /\ call'[c].at = call[c].at
    BY <1>5 DEF Apply, TypeOK, Calling, Others, SameOrder
  <2>2. call[c].pc = "check" /\ ~Finished(c) /\ Step(c).do \in {"put", "quiesce"}
    BY <1>5 DEF Apply, Writing, At
  <2>3. CallOK(c)'
    BY <1>a, <2>1, <2>2 DEF CallOK, SameOrder, Finished, Step
  <2> QED
    BY <2>1, <2>3, CallOKOthers
<1>6. ASSUME NEW c \in Calls, Synchronize(c) PROVE CallInv'
  <2>1. call[c].pc = "check" /\ ~Finished(c) /\ Step(c).do = "sync"
    BY <1>6 DEF Synchronize, Writing, At
  <2>2. CASE call' = Moved(c, "wait")
    <3>1. CallOK(c)'
      BY <1>a, <2>1, <2>2, MovedFields DEF CallOK, SameOrder, Finished, Step
    <3> QED
      BY <2>2, <3>1, MovedFields, CallOKOthers
  <2>3. CASE call' = [Advanced(c) EXCEPT ![c].at = 3]
    <3>1. Others(c) /\ SameOrder(c) /\ call'[c].pc = "check" /\ call'[c].at = 3
      <4>1. Advanced(c) \in [Calls -> Calling]
        BY AdvancedTyped
      <4> QED
        BY <2>3, <4>1, AdvancedFields DEF Others, SameOrder, Calling
    <3> QED
      BY <1>a, <2>1, <3>1, CallOKAway, CallOKOthers
  <2> QED
    BY <1>6, <2>2, <2>3 DEF Synchronize
<1>7. ASSUME NEW c \in Calls, Erase(c) PROVE CallInv'
  <2>1. call[c].pc = "check" /\ ~Finished(c) /\ Step(c).do = "erase" /\ call' = Moved(c, "wait")
    BY <1>7 DEF Erase, Writing, At
  <2>2. CallOK(c)'
    BY <1>a, <2>1, MovedFields DEF CallOK, SameOrder, Finished, Step
  <2> QED
    BY <2>1, <2>2, MovedFields, CallOKOthers
<1>8. ASSUME NEW c \in Calls, Confirm(c) PROVE CallInv'
  <2>1. Advanced(c) \in [Calls -> Calling]
    BY AdvancedTyped
  <2>2. /\ Others(c) /\ SameOrder(c) /\ call'[c].pc = "check" /\ call'[c].at = call[c].at + 1
    BY <1>8, <2>1, AdvancedFields DEF Confirm, Others, SameOrder, Calling
  <2> QED
    BY <1>8, <1>a, <2>2, CallOKAway, CallOKOthers DEF Confirm, CallOK
<1>9. ASSUME NEW c \in Calls, Quiesce(c) PROVE CallInv'
  BY <1>9, <1>b, <1>h DEF Quiesce
<1>10. ASSUME NEW c \in Calls, AwaitSecret(c) PROVE CallInv'
  <2>1. Advanced(c) \in [Calls -> Calling]
    BY AdvancedTyped
  <2>2. /\ Others(c) /\ SameOrder(c) /\ call'[c].pc = "check" /\ call'[c].at = call[c].at + 1
    BY <1>10, <2>1, AdvancedFields DEF AwaitSecret, Others, SameOrder, Calling
  <2> QED
    BY <1>10, <1>a, <1>h, <2>2, CallOKAway, CallOKOthers DEF AwaitSecret, CallOK
<1>11. ASSUME NEW c \in Calls, AwaitMigration(c) PROVE CallInv'
  BY <1>11, <1>b, <1>h DEF AwaitMigration
<1>12. ASSUME NEW c \in Calls, Verify(c) PROVE CallInv'
  BY <1>12, <1>b, <1>h DEF Verify
<1>13. ASSUME NEW c \in Calls, Receipt(c) PROVE CallInv'
  BY <1>13, <1>c, <1>d DEF Receipt
<1>14. ASSUME NEW c \in Calls, Observe(c) PROVE CallInv'
  BY <1>14, <1>d DEF Observe
<1>15. ASSUME NEW c \in Calls, Fail(c) PROVE CallInv'
  BY <1>15, <1>e DEF Fail, Working
<1>16. ASSUME NEW c \in Calls, Abort(c) PROVE CallInv'
  BY <1>16, <1>d DEF Abort
<1>17. ASSUME NEW c \in Calls, Restore(c) PROVE CallInv'
  <2>1. call[c].pc = "undo" /\ call[c].undo # <<>>
    BY <1>17 DEF Restore
  <2>2. CASE call' = Moved(c, "unwait")
    <3>1. CallOK(c)'
      BY <1>a, <2>1, <2>2, MovedFields DEF CallOK, SameOrder
    <3> QED
      BY <2>2, <3>1, MovedFields, CallOKOthers
  <2>3. CASE call' = Popped(c)
    BY <1>a, <2>1, <2>3, PoppedFields, CallOKAway, CallOKOthers DEF Others, SameOrder, CallOK
  <2> QED
    BY <1>17, <2>2, <2>3 DEF Restore
<1>18. ASSUME NEW c \in Calls, Stop(c) PROVE CallInv'
  BY <1>18, <1>c DEF Stop
<1>19. ASSUME NEW c \in Calls, GiveUp(c) PROVE CallInv'
  BY <1>19, <1>c DEF GiveUp
<1>20. ASSUME NEW c \in Calls, RecordFailure(c) PROVE CallInv'
  BY <1>20, <1>d DEF RecordFailure
<1>21. ASSUME NEW r \in wire, Admit(r) PROVE CallInv'
  BY <1>21, <1>g DEF Admit
<1>22. ASSUME NEW r \in wire, Persist(r) PROVE CallInv'
  <2>1. ASSUME NEW d \in Calls, d # r.by PROVE CallOK(d)'
    BY <1>22, <1>a, <2>1, PersistFields, CallOKKept DEF Unchanged
  <2>2. ASSUME r.by \in Calls PROVE CallOK(r.by)'
    <3>1. call[r.by].pc \in {"wait", "unwait"}
      BY <2>2 DEF RequestInv
    <3>2. CASE call[r.by].pc = "unwait"
      BY <1>22, <1>a, <2>2, <3>2, PersistFields, CallOKAway DEF CallOK
    <3>3. CASE call[r.by].pc = "wait"
      <4>1. SameOrder(r.by) /\ call'[r.by].at = call[r.by].at /\ call'[r.by].pc = "confirm"
        BY <1>22, <2>2, <3>3, PersistFields
      <4> QED
        BY <1>a, <2>2, <3>3, <4>1 DEF CallOK, SameOrder, Finished, Step
    <3> QED
      BY <3>1, <3>2, <3>3
  <2> QED
    BY <2>1, <2>2 DEF CallInv
<1>23. ASSUME NEW r \in wire, Refuse(r) PROVE CallInv'
  <2>1. CASE r.by \notin Calls
    BY <1>23, <1>g, <2>1 DEF Refuse
  <2>2. CASE r.by \in Calls
    <3>1. call[r.by].pc \in {"wait", "unwait"}
      BY <2>2 DEF RequestInv
    <3>2. \/ call' = Moved(r.by, "record") \/ call' = Moved(r.by, "check") \/ call' = Fallen(r.by)
      BY <1>23, <2>2 DEF Refuse
    <3> QED
      BY <1>c, <1>e, <2>2, <3>1, <3>2
  <2> QED
    BY <2>1, <2>2
<1>24. ASSUME NEW n \in Names, JobRuns(n) PROVE CallInv'
  BY <1>24, <1>g DEF JobRuns
<1>25. CASE Register \/ PodsFollow \/ SecretMade \/ UNCHANGED vars
  BY <1>25, <1>g DEF Register, PodsFollow, SecretMade, vars
<1>26. CASE NamespaceGone
  <2>1. \A d \in Calls : Unchanged(d)
    BY <1>26, UnheldFields DEF NamespaceGone, Unchanged
  <2> QED
    BY <1>a, <2>1, CallOKKept DEF CallInv, Unchanged
<1> QED
  BY <1>1, <1>2, <1>3, <1>4, <1>5, <1>6, <1>7, <1>8, <1>9, <1>10, <1>11, <1>12,
     <1>13, <1>14, <1>15, <1>16, <1>17, <1>18, <1>19, <1>20, <1>21, <1>22,
     <1>23, <1>24, <1>25, <1>26 DEF Next

-----------------------------------------------------------------------------
(* Tokens                                                                  *)

LEMMA Numbers ==
  ASSUME TypeOK
  PROVE  /\ issued \in Nat /\ fence.token \in Nat
         /\ \A c \in Calls : call[c].token \in Nat /\ call[c].at \in Nat
         /\ \A r \in wire : r.from \in Nat
         /\ \A n \in Names : cell[n].token \in Nat
         /\ \A t \in undone : t \in Nat
  BY BoundsAssumption DEF TypeOK, Tokens, Calling, Requests, Cells

\* A call that goes on with its command keeps what is said of its token.
LEMMA TokenKept ==
  ASSUME TypeOK, TokenInv, UNCHANGED <<fence, issued, undone>>,
         \A c \in Calls : /\ SameOrder(c)
                          /\ call'[c].pc = call[c].pc \/ (call[c].pc \in Engaged /\ call'[c].pc \in Engaged)
                          /\ call'[c].pc \in Undoing <=> call[c].pc \in Undoing
                          /\ call'[c].pc \in Active => call[c].pc \in Active
  PROVE  TokenInv'
<1>1. \A c \in Calls : Holds(c)' => Holds(c)
  BY DEF Holds, SameOrder
<1> QED
  BY <1>1 DEF TokenInv, SameOrder

LEMMA TokenMove ==
  ASSUME TypeOK, TokenInv, UNCHANGED <<fence, issued, undone>>,
         NEW c \in Calls, Others(c), SameOrder(c),
         \/ call[c].pc \in Active /\ call'[c].pc \in Working
         \/ call[c].pc \in Undoing /\ call'[c].pc \in Undoing
  PROVE  TokenInv'
<1>1. \A d \in Calls : d = c \/ call'[d] = call[d]
  BY DEF Others
<1>2. \A d \in Calls : /\ SameOrder(d)
                       /\ call'[d].pc = call[d].pc \/ (call[d].pc \in Engaged /\ call'[d].pc \in Engaged)
                       /\ call'[d].pc \in Undoing <=> call[d].pc \in Undoing
                       /\ call'[d].pc \in Active => call[d].pc \in Active
  BY <1>1 DEF SameOrder, Engaged, Active, Working, Undoing
<1> QED
  BY <1>2, TokenKept

\* A call that ends leaves nothing behind.
LEMMA TokenIdle ==
  ASSUME TypeOK, TokenInv, UNCHANGED <<issued, undone>>, NEW c \in Calls, Others(c),
         call'[c].pc \in {"idle", "scanned"}, call'[c].token = 0,
         \/ fence' = fence
         \/ /\ call[c].token = fence.token /\ call[c].token > 0
            /\ fence'.token = fence.token /\ fence'.op = fence.op
  PROVE  TokenInv'
<1>1. fence'.token = fence.token /\ fence'.op = fence.op
  OBVIOUS
<1>2. \A d \in Calls : d = c \/ call'[d] = call[d]
  BY DEF Others
<1>3. ~(call'[c].pc \in Engaged) /\ ~(call'[c].pc \in Active)
  BY DEF Engaged, Working, Undoing, Active
<1>4. \A d \in Calls : Holds(d)' => fence'.phase = "CLAIMED"
  <2>1. ASSUME NEW d \in Calls, Holds(d)' PROVE fence'.phase = "CLAIMED"
    <3>1. d # c /\ Holds(d)
      BY <1>1, <1>2, <1>3, <2>1 DEF Holds
    <3>2. fence' = fence
      BY <3>1 DEF TokenInv, Holds
    <3> QED
      BY <3>1, <3>2 DEF TokenInv
  <2> QED
    BY <2>1
<1>5. issued \in Nat
  BY Numbers
<1> QED
  BY <1>1, <1>2, <1>3, <1>4, <1>5 DEF TokenInv

LEMMA TokenIssued ==
  ASSUME TypeOK, TokenInv, UNCHANGED <<fence, undone>>, NEW c \in Calls, Others(c),
         issued' = issued + 1, call'[c].token = issued + 1, call'[c].pc = "claim"
  PROVE  TokenInv'
<1>1. \A d \in Calls : d = c \/ call'[d] = call[d]
  BY DEF Others
<1>2. \A d \in Calls : Holds(d)' => Holds(d)
  BY <1>1 DEF Holds, Active
<1>3. ~(call'[c].pc \in Engaged) /\ ~(call'[c].pc \in Undoing)
  BY DEF Engaged, Working, Undoing
<1> QED
  BY <1>1, <1>2, <1>3, Numbers DEF TokenInv

\* A failed command is undone, and its token with it.
LEMMA TokenFallen ==
  ASSUME TypeOK, CallInv, TokenInv, UNCHANGED <<fence, issued>>, NEW c \in Calls,
         call[c].pc \in Working, call' = Fallen(c),
         undone' = IF call[c].order = Reclaim THEN undone ELSE undone \cup {call[c].token}
  PROVE  TokenInv'
<1>1. CASE call[c].order = Reclaim
  BY <1>1, FallenFields, TokenIdle DEF Idle
<1>2. CASE call[c].order # Reclaim
  <2>1. Others(c) /\ SameOrder(c) /\ call'[c].pc = "undo"
    BY <1>2, FallenFields
  <2>2. \A d \in Calls : d = c \/ call'[d] = call[d]
    BY <2>1 DEF Others
  <2>3. \A d \in Calls : Holds(d)' => Holds(d)
    BY <2>1, <2>2 DEF Holds, Active
  <2>4. call[c].token > 0 /\ call[c].token <= fence.token
    BY DEF CallInv, CallOK, TokenInv, Engaged, Working
  <2>5. call'[c].pc \in Undoing /\ call'[c].pc \in Engaged /\ call[c].pc \in Engaged
    BY <2>1 DEF Undoing, Engaged
  <2>6. undone' = undone \cup {call[c].token}
    BY <1>2
  <2>7. \A d \in Calls : call'[d].token > 0 => (call'[d].token \in undone' <=> call'[d].pc \in Undoing)
    BY <2>1, <2>2, <2>5, <2>6 DEF SameOrder, TokenInv
  <2>8. \A d, e \in Calls : call'[d].token = call'[e].token /\ call'[d].token > 0 => d = e
    BY <2>1, <2>2 DEF SameOrder, TokenInv
  <2>9. \A d \in Calls : /\ call'[d].token <= issued
                         /\ call'[d].pc \in Engaged => call'[d].token <= fence.token
                         /\ call'[d].pc \in Engaged /\ call'[d].token = fence.token => call'[d].order = fence.op
    BY <2>1, <2>2, <2>5 DEF SameOrder, TokenInv
  <2> QED
    BY <2>3, <2>4, <2>6, <2>7, <2>8, <2>9 DEF TokenInv
<1> QED
  BY <1>1, <1>2

\* Tokens stay unique, and the fence's is the newest that claimed.
LEMMA TokenStep == TypeOK /\ CallInv /\ TokenInv /\ RequestInv /\ [Next]_vars => TokenInv'
<1> SUFFICES ASSUME TypeOK, CallInv, TokenInv, RequestInv, [Next]_vars PROVE TokenInv'
  OBVIOUS
<1>a. \A c \in Calls : CallOK(c)
  BY DEF CallInv
<1>b. ASSUME NEW c \in Calls, call' = Advanced(c), call[c].pc = "check",
             UNCHANGED <<fence, issued, undone>> PROVE TokenInv'
  BY <1>b, AdvancedFields, TokenMove DEF Others, SameOrder, Active, Working
<1>c. ASSUME NEW c \in Calls, NEW l, call' = Moved(c, l), UNCHANGED <<fence, issued, undone>>,
             \/ call[c].pc \in Active /\ l \in Working
             \/ call[c].pc \in Undoing /\ l \in Undoing PROVE TokenInv'
  BY <1>c, MovedFields, TokenMove
<1>d. ASSUME NEW c \in Calls, call' = [call EXCEPT ![c] = Idle],
             UNCHANGED <<fence, issued, undone>> PROVE TokenInv'
  BY <1>d, IdleFields, TokenIdle
<1>e. ASSUME NEW c \in Calls, NEW i \in Orders, Issue(c, i), UNCHANGED <<fence, undone>>
      PROVE TokenInv'
  <2>1. /\ Others(c) /\ call'[c].pc = "claim" /\ call'[c].token = issued + 1 /\ issued' = issued + 1
    BY <1>e, IssueFields
  <2> QED
    BY <1>e, <2>1, TokenIssued
<1>f. ASSUME UNCHANGED <<fence, undone>>, \A d \in Calls : Unchanged(d) \/ call'[d] = call[d],
             issued' = issued \/ issued' = issued + 1
      PROVE  TokenInv'
  <2>1. \A d \in Calls : call'[d].token = call[d].token /\ call'[d].pc = call[d].pc
                         /\ call'[d].order = call[d].order
    BY <1>f DEF Unchanged
  <2>2. \A d \in Calls : Holds(d)' => Holds(d)
    BY <1>f, <2>1 DEF Holds
  <2> QED
    BY <1>f, <2>1, <2>2, Numbers DEF TokenInv
<1>g. \A c \in Calls : \A do : At(c, do) => call[c].pc = "check"
  BY DEF At
<1>1. ASSUME NEW c \in Calls, NEW i \in Intents, Command(c, i) PROVE TokenInv'
  BY <1>1, <1>e DEF Command, Orders, cluster
<1>2. ASSUME NEW c \in Calls, Scan(c) PROVE TokenInv'
  BY <1>2, <1>a, MovedFields, TokenIdle DEF Scan, cluster, CallOK, SameOrder
<1>3. ASSUME NEW c \in Calls, Recover(c) PROVE TokenInv'
  <2>1. CASE Issue(c, Reclaim)
    BY <1>3, <1>e, <2>1 DEF Recover, Orders, cluster
  <2>2. CASE issued' = issued + 1 /\ call' = [call EXCEPT ![c] = Idle]
    <3>1. Others(c) /\ call'[c].pc = "idle" /\ call'[c].token = 0
      BY <2>2, IdleFields
    <3>2. \A d \in Calls : d = c \/ call'[d] = call[d]
      BY <3>1 DEF Others
    <3>3. UNCHANGED <<fence, undone>>
      BY <1>3 DEF Recover, cluster
    <3>4. \A d \in Calls : Holds(d)' => Holds(d)
      BY <3>1, <3>2, <3>3 DEF Holds, Active
    <3>5. ~(call'[c].pc \in Engaged)
      BY <3>1 DEF Engaged, Working, Undoing
    <3> QED
      BY <2>2, <3>1, <3>2, <3>3, <3>4, <3>5, Numbers DEF TokenInv
  <2> QED
    BY <1>3, <2>1, <2>2 DEF Recover
<1>4. ASSUME NEW c \in Calls, Claim(c) PROVE TokenInv'
  <2>1. CASE ~Newer(c)
    BY <1>4, <1>d, <2>1 DEF Claim
  <2>2. CASE Newer(c)
    <3>1. /\ fence'.token = call[c].token /\ fence'.op = call[c].order /\ fence'.phase = "CLAIMED"
          /\ fence.token < call[c].token /\ UNCHANGED <<issued, undone>>
          /\ call[c].pc = "claim" /\ call' = Moved(c, "check")
      BY <1>4, <2>2 DEF Claim, Newer
    <3>2. Others(c) /\ SameOrder(c) /\ call'[c].pc = "check"
      BY <3>1, MovedFields
    <3>3. \A d \in Calls : d = c \/ call'[d] = call[d]
      BY <3>2 DEF Others
    <3>4. \A d \in Calls : call'[d].token = call[d].token /\ call'[d].order = call[d].order
      BY <3>2, <3>3 DEF SameOrder
    <3>5. "claim" \notin Engaged /\ "check" \in Engaged /\ "check" \notin Undoing /\ "claim" \notin Undoing
      BY DEF Engaged, Working, Undoing
    <3>6. \A d \in Calls : call'[d].token > 0 => (call'[d].token \in undone' <=> call'[d].pc \in Undoing)
      BY <3>1, <3>2, <3>3, <3>4, <3>5 DEF TokenInv
    <3>7. \A d \in Calls : call'[d].pc \in Engaged =>
             /\ call'[d].token <= fence'.token
             /\ call'[d].token = fence'.token => call'[d].order = fence'.op
      <4>1. ASSUME NEW d \in Calls, d # c, call[d].pc \in Engaged
            PROVE  call[d].token < fence'.token
        BY <3>1, <4>1, Numbers DEF TokenInv
      <4> QED
        BY <3>1, <3>3, <3>4, <4>1, Numbers
    <3>8. call[c].token <= issued
      BY DEF TokenInv
    <3> QED
      BY <3>1, <3>4, <3>6, <3>7, <3>8, Numbers DEF TokenInv
  <2> QED
    BY <2>1, <2>2
<1>5. ASSUME NEW c \in Calls, Apply(c) PROVE TokenInv'
  <2>1. Others(c) /\ SameOrder(c) /\ call'[c].pc = "wait" /\ call[c].pc = "check"
    BY <1>5 DEF Apply, Writing, At, TypeOK, Calling, Others, SameOrder
  <2> QED
    BY <1>5, <2>1, TokenMove DEF Apply, quiet, Active, Working
<1>6. ASSUME NEW c \in Calls, Synchronize(c) PROVE TokenInv'
  <2>1. CASE call' = Moved(c, "wait")
    BY <1>6, <1>c, <2>1 DEF Synchronize, Writing, At, quiet, Active, Working
  <2>2. CASE call' = [Advanced(c) EXCEPT ![c].at = 3]
    <3>1. Advanced(c) \in [Calls -> Calling]
      BY AdvancedTyped
    <3>2. Others(c) /\ SameOrder(c) /\ call'[c].pc = "check"
      BY <2>2, <3>1, AdvancedFields DEF Others, SameOrder, Calling
    <3> QED
      BY <1>6, <3>2, TokenMove DEF Synchronize, Writing, At, quiet, Active, Working
  <2> QED
    BY <1>6, <2>1, <2>2 DEF Synchronize
<1>7. ASSUME NEW c \in Calls, Erase(c) PROVE TokenInv'
  BY <1>7, <1>c DEF Erase, Writing, At, quiet, Active, Working
<1>8. ASSUME NEW c \in Calls, Confirm(c) PROVE TokenInv'
  <2>1. Advanced(c) \in [Calls -> Calling]
    BY AdvancedTyped
  <2>2. Others(c) /\ SameOrder(c) /\ call'[c].pc = "check"
    BY <1>8, <2>1, AdvancedFields DEF Confirm, Others, SameOrder, Calling
  <2> QED
    BY <1>8, <2>2, TokenMove DEF Confirm, quiet, Active, Working
<1>9. ASSUME NEW c \in Calls, Quiesce(c) PROVE TokenInv'
  BY <1>9, <1>b, <1>g DEF Quiesce, quiet
<1>10. ASSUME NEW c \in Calls, AwaitSecret(c) PROVE TokenInv'
  <2>1. Advanced(c) \in [Calls -> Calling]
    BY AdvancedTyped
  <2>2. Others(c) /\ SameOrder(c) /\ call'[c].pc = "check"
    BY <1>10, <2>1, AdvancedFields DEF AwaitSecret, Others, SameOrder, Calling
  <2> QED
    BY <1>10, <1>g, <2>2, TokenMove DEF AwaitSecret, quiet, Active, Working
<1>11. ASSUME NEW c \in Calls, AwaitMigration(c) PROVE TokenInv'
  BY <1>11, <1>b, <1>g DEF AwaitMigration, quiet
<1>12. ASSUME NEW c \in Calls, Verify(c) PROVE TokenInv'
  BY <1>12, <1>b, <1>g DEF Verify, quiet
<1>13. ASSUME NEW c \in Calls, Receipt(c) PROVE TokenInv'
  <2>1. /\ call[c].pc = "check" /\ call[c].token = fence.token /\ call[c].token > 0
        /\ fence'.token = fence.token /\ fence'.op = fence.op /\ UNCHANGED <<issued, undone>>
    BY <1>13, <1>a DEF Receipt, Mine, CallOK, TypeOK
  <2>2. CASE call' = [call EXCEPT ![c] = Idle]
    BY <2>1, <2>2, IdleFields, TokenIdle
  <2>3. CASE call' = Moved(c, "observe")
    <3>1. Others(c) /\ SameOrder(c) /\ call'[c].pc = "observe"
      BY <2>3, MovedFields
    <3>2. \A d \in Calls : d = c \/ call'[d] = call[d]
      BY <3>1 DEF Others
    <3>3. \A d \in Calls : call'[d].token = call[d].token /\ call'[d].order = call[d].order
      BY <3>1, <3>2 DEF SameOrder
    <3>4. \A d \in Calls : /\ call'[d].pc \in Engaged <=> call[d].pc \in Engaged
                           /\ call'[d].pc \in Undoing <=> call[d].pc \in Undoing
      BY <2>1, <3>1, <3>2 DEF Engaged, Working, Undoing
    <3>5. \A d \in Calls : ~Holds(d)'
      <4>1. ASSUME NEW d \in Calls, Holds(d)' PROVE FALSE
        <5>1. call[d].token = call[c].token
          BY <2>1, <3>3, <4>1 DEF Holds
        <5>2. d = c
          BY <2>1, <5>1 DEF TokenInv
        <5> QED
          BY <3>1, <4>1, <5>2 DEF Holds, Active
      <4> QED
        BY <4>1
    <3> QED
      BY <2>1, <3>3, <3>4, <3>5 DEF TokenInv
  <2> QED
    BY <1>13, <2>2, <2>3 DEF Receipt
<1>14. ASSUME NEW c \in Calls, Observe(c) PROVE TokenInv'
  BY <1>14, <1>d DEF Observe, quiet
<1>15. ASSUME NEW c \in Calls, Fail(c) PROVE TokenInv'
  BY <1>15, TokenFallen DEF Fail, quiet
<1>16. ASSUME NEW c \in Calls, Abort(c) PROVE TokenInv'
  BY <1>16, <1>d DEF Abort, quiet
<1>17. ASSUME NEW c \in Calls, Restore(c) PROVE TokenInv'
  <2>1. CASE call' = Moved(c, "unwait")
    BY <1>17, <1>c, <2>1 DEF Restore, quiet, Undoing
  <2>2. CASE call' = Popped(c)
    BY <1>17, <2>2, PoppedFields, TokenMove DEF Restore, quiet, Undoing, Others, SameOrder
  <2> QED
    BY <1>17, <2>1, <2>2 DEF Restore
<1>18. ASSUME NEW c \in Calls, Stop(c) PROVE TokenInv'
  BY <1>18, <1>c DEF Stop, quiet, Undoing
<1>19. ASSUME NEW c \in Calls, GiveUp(c) PROVE TokenInv'
  BY <1>19, <1>c DEF GiveUp, quiet, Undoing
<1>20. ASSUME NEW c \in Calls, RecordFailure(c) PROVE TokenInv'
  <2>1. Others(c) /\ call'[c].pc = "idle" /\ call'[c].token = 0
    BY <1>20, IdleFields DEF RecordFailure
  <2>2. call[c].token > 0
    BY <1>20, <1>a DEF RecordFailure, CallOK
  <2>3. \/ fence' = fence
        \/ call[c].token = fence.token /\ fence'.token = fence.token /\ fence'.op = fence.op
    BY <1>20 DEF RecordFailure, Mine, TypeOK
  <2> QED
    BY <1>20, <2>1, <2>2, <2>3, TokenIdle DEF RecordFailure
<1>21. ASSUME NEW r \in wire, Admit(r) PROVE TokenInv'
  BY <1>21, <1>f DEF Admit, quiet
<1>22. ASSUME NEW r \in wire, Persist(r) PROVE TokenInv'
  <2>1. UNCHANGED <<fence, issued, undone>>
    BY <1>22 DEF Persist
  <2>2. \A d \in Calls : d # r.by => SameOrder(d) /\ call'[d].pc = call[d].pc
    BY <1>22, PersistFields DEF Unchanged, SameOrder
  <2>3. r.by \in Calls => /\ SameOrder(r.by)
                          /\ \/ call[r.by].pc = "unwait" /\ call'[r.by].pc = "undo"
                             \/ call[r.by].pc = "wait" /\ call'[r.by].pc = "confirm"
    BY <1>22, PersistFields DEF RequestInv
  <2>4. \A d \in Calls : /\ SameOrder(d)
                         /\ call'[d].pc = call[d].pc \/ (call[d].pc \in Engaged /\ call'[d].pc \in Engaged)
                         /\ call'[d].pc \in Undoing <=> call[d].pc \in Undoing
                         /\ call'[d].pc \in Active => call[d].pc \in Active
    BY <2>2, <2>3 DEF Engaged, Active, Working, Undoing
  <2> QED
    BY <2>1, <2>4, TokenKept
<1>23. ASSUME NEW r \in wire, Refuse(r) PROVE TokenInv'
  <2>1. CASE r.by \notin Calls
    BY <1>23, <1>f, <2>1 DEF Refuse, quiet
  <2>2. CASE r.by \in Calls
    <3>1. call[r.by].pc \in {"wait", "unwait"} /\ UNCHANGED <<fence, issued>>
      BY <1>23, <2>2 DEF RequestInv, Refuse, quiet
    <3>2. CASE call[r.by].pc = "unwait"
      BY <1>23, <1>c, <2>2, <3>1, <3>2 DEF Refuse, Undoing
    <3>3. CASE call[r.by].pc = "wait" /\ call' = Moved(r.by, "check") /\ undone' = undone
      BY <1>c, <2>2, <3>1, <3>3 DEF Active, Working
    <3>4. CASE call[r.by].pc = "wait" /\ call' = Fallen(r.by)
               /\ undone' = (IF call[r.by].order = Reclaim THEN undone ELSE undone \cup {call[r.by].token})
      BY <2>2, <3>1, <3>4, TokenFallen DEF Working
    <3> QED
      BY <1>23, <2>2, <3>1, <3>2, <3>3, <3>4 DEF Refuse
  <2> QED
    BY <2>1, <2>2
<1>24. ASSUME NEW n \in Names, JobRuns(n) PROVE TokenInv'
  BY <1>24, <1>f DEF JobRuns, rest
<1>25. CASE Register \/ PodsFollow \/ SecretMade \/ UNCHANGED vars
  BY <1>25, <1>f DEF Register, PodsFollow, SecretMade, vars, cluster, rest
<1>26. CASE NamespaceGone
  <2>1. \A d \in Calls : Unchanged(d)
    BY <1>26, UnheldFields DEF NamespaceGone, Unchanged
  <2> QED
    BY <1>26, <1>f, <2>1 DEF NamespaceGone, rest
<1> QED
  BY <1>1, <1>2, <1>3, <1>4, <1>5, <1>6, <1>7, <1>8, <1>9, <1>10, <1>11, <1>12,
     <1>13, <1>14, <1>15, <1>16, <1>17, <1>18, <1>19, <1>20, <1>21, <1>22,
     <1>23, <1>24, <1>25, <1>26 DEF Next

-----------------------------------------------------------------------------
(* Requests                                                                *)

\* q is what became of r: the same write, with or without its caller.
Same(q, r) ==
    /\ q.from = r.from /\ q.verb = r.verb /\ q.name = r.name /\ q.new = r.new
    /\ q.fresh => r.fresh
Continues(c) ==
    /\ SameOrder(c) /\ call'[c].pc = call[c].pc /\ call'[c].at = call[c].at
    /\ call'[c].proof = call[c].proof

\* What is on the wire was there before, and its caller waits as it did, or is gone.
Follows(f) ==
    \A q \in wire' : \E r \in wire :
       /\ q = f[r] /\ Same(q, r)
       /\ \/ q.by = r.by /\ (r.by \in Calls => Continues(r.by))
          \/ /\ q.by = Nobody /\ r.by \in Calls
             /\ call'[r.by].token = 0 \/ r.from \in undone'

LEMMA AskedKept ==
  ASSUME NEW c \in Calls, NEW q, NEW r, Same(q, r), Continues(c), Asked(r, c)
  PROVE  Asked(q, c)'
  BY DEF Same, Continues, SameOrder, Asked, Step

\* A step that asks for nothing keeps what is said of the requests ...
LEMMA RequestFollow ==
  ASSUME TypeOK, TokenInv, RequestInv, NEW f,
         fence.token <= fence'.token, fence'.token \in Nat, undone \subseteq undone',
         \A c \in Calls : call'[c].token \in {call[c].token, 0} \/ call'[c].token > issued,
         Follows(f)
  PROVE  RequestInv'
<1> USE IntentsAssumption
<1>1. ASSUME NEW q \in wire'
      PROVE  /\ 0 < q.from /\ q.from <= fence'.token
             /\ q.verb # "DELETE" => q.new.here /\ q.new.token = q.from
             /\ q.by \in Calls => /\ call'[q.by].pc \in {"wait", "unwait"}
                                  /\ q.from = call'[q.by].token
                                  /\ call'[q.by].pc = "wait" => Asked(q, q.by)'
             /\ q.by = Nobody => \A c \in Calls : call'[c].token = q.from => q.from \in undone'
  <2>1. PICK r \in wire :
            /\ q = f[r] /\ Same(q, r)
            /\ \/ q.by = r.by /\ (r.by \in Calls => Continues(r.by))
               \/ /\ q.by = Nobody /\ r.by \in Calls
                  /\ call'[r.by].token = 0 \/ r.from \in undone'
    BY <1>1 DEF Follows
  <2>2. 0 < q.from /\ q.from <= fence'.token
    BY <2>1, Numbers DEF RequestInv, Same
  <2>3. q.verb # "DELETE" => q.new.here /\ q.new.token = q.from
    BY <2>1 DEF RequestInv, Same
  <2>4. ASSUME q.by \in Calls
        PROVE  /\ call'[q.by].pc \in {"wait", "unwait"} /\ q.from = call'[q.by].token
               /\ call'[q.by].pc = "wait" => Asked(q, q.by)'
    <3>1. q.by = r.by /\ Continues(r.by)
      BY <2>1, <2>4
    <3>2. /\ call[r.by].pc \in {"wait", "unwait"} /\ r.from = call[r.by].token
          /\ call[r.by].pc = "wait" => Asked(r, r.by)
      BY <2>4, <3>1 DEF RequestInv
    <3> QED
      BY <2>1, <2>4, <3>1, <3>2, AskedKept DEF Continues, SameOrder, Same
  <2>5. ASSUME q.by = Nobody, NEW c \in Calls, call'[c].token = q.from
        PROVE  q.from \in undone'
    <3>1. q.from = r.from /\ q.from <= issued /\ q.from > 0 /\ q.from \in Nat
      BY <2>1, Numbers DEF RequestInv, TokenInv, Same
    <3>2. call'[c].token = call[c].token
      BY <2>5, <3>1, Numbers
    <3>3. CASE r.by = Nobody
      BY <2>5, <3>1, <3>2, <3>3 DEF RequestInv
    <3>4. CASE r.by \in Calls /\ (call'[r.by].token = 0 \/ r.from \in undone')
      <4>1. r.from = call[r.by].token
        BY <3>4 DEF RequestInv
      <4>2. c = r.by
        BY <2>5, <3>1, <3>2, <3>4, <4>1 DEF TokenInv
      <4> QED
        BY <2>5, <3>1, <3>4, <4>2
    <3> QED
      BY <2>1, <2>5, <3>3, <3>4
  <2> QED
    BY <2>2, <2>3, <2>4, <2>5
<1>2. ASSUME NEW q \in wire', NEW p \in wire',
             \/ q.by = p.by /\ q.by \in Calls
             \/ q.from = p.from /\ q.from \notin undone'
      PROVE  q = p
  <2>1. PICK r \in wire : q = f[r] /\ Same(q, r) /\ (q.by = r.by \/ q.by = Nobody)
    BY <1>2 DEF Follows
  <2>2. PICK s \in wire : p = f[s] /\ Same(p, s) /\ (p.by = s.by \/ p.by = Nobody)
    BY <1>2 DEF Follows
  <2>3. \/ r.by = s.by /\ r.by \in Calls
        \/ r.from = s.from /\ r.from \notin undone
    BY <1>2, <2>1, <2>2, IntentsAssumption DEF Same
  <2>4. r = s
    BY <2>3 DEF RequestInv
  <2> QED
    BY <2>1, <2>2, <2>4
<1>3. /\ \A r, s \in wire' : r.by = s.by /\ r.by \in Calls => r = s
      /\ \A r, s \in wire' : r.from = s.from /\ r.from \notin undone' => r = s
  BY <1>2
<1> QED
  BY <1>1, <1>3 DEF RequestInv

\* ... in particular one that leaves the wire as it is.
LEMMA RequestKept ==
  ASSUME TypeOK, TokenInv, RequestInv, wire' = wire,
         fence.token <= fence'.token, fence'.token \in Nat, undone \subseteq undone',
         \A c \in Calls : /\ call'[c].token \in {call[c].token, 0} \/ call'[c].token > issued
                          /\ call[c].pc \in {"wait", "unwait"} => Continues(c)
  PROVE  RequestInv'
<1> DEFINE f == [r \in wire |-> r]
<1>1. \A q \in wire' : /\ q \in wire /\ q = f[q] /\ Same(q, q)
                       /\ q.by \in Calls => Continues(q.by)
  BY DEF RequestInv, Same
<1> HIDE DEF f
<1>2. Follows(f)
  BY <1>1 DEF Follows
<1> QED
  BY <1>2, RequestFollow

LEMMA RequestActor ==
  ASSUME TypeOK, TokenInv, RequestInv, wire' = wire,
         fence.token <= fence'.token, fence'.token \in Nat, undone \subseteq undone',
         NEW c \in Calls, Others(c), call[c].pc \notin {"wait", "unwait"},
         call'[c].token \in {call[c].token, 0} \/ call'[c].token > issued
  PROVE  RequestInv'
<1>1. \A d \in Calls : d = c \/ call'[d] = call[d]
  BY DEF Others
<1>2. \A d \in Calls : /\ call'[d].token \in {call[d].token, 0} \/ call'[d].token > issued
                       /\ call[d].pc \in {"wait", "unwait"} => Continues(d)
  BY <1>1 DEF Continues, SameOrder
<1> QED
  BY <1>2, RequestKept

\* The caller of a request goes away.
LEMMA AbandonFields ==
  ASSUME TypeOK, NEW c \in Calls, Abandon(c)
  PROVE  \A q \in wire' : \E r \in wire :
            /\ q = (IF r.by = c THEN [r EXCEPT !.by = Nobody] ELSE r)
            /\ Same(q, r) /\ (q.admitted <=> r.admitted)
            /\ IF r.by = c THEN q.by = Nobody ELSE q.by = r.by
<1>1. \A r \in wire : /\ Same([r EXCEPT !.by = Nobody], r) /\ [r EXCEPT !.by = Nobody].by = Nobody
                      /\ [r EXCEPT !.by = Nobody].admitted = r.admitted
  BY DEF Same, TypeOK, Requests
<1>2. \A r \in wire : Same(r, r)
  BY DEF Same
<1>3. CASE wire' = {r \in wire : r.by # c}
  BY <1>2, <1>3
<1>4. CASE wire' = {IF r.by = c THEN [r EXCEPT !.by = Nobody] ELSE r : r \in wire}
  BY <1>1, <1>2, <1>4
<1> QED
  BY <1>3, <1>4 DEF Abandon

LEMMA RequestAbandon ==
  ASSUME TypeOK, TokenInv, RequestInv, NEW c \in Calls, Abandon(c), Others(c),
         UNCHANGED fence, undone \subseteq undone',
         call'[c].token = 0 \/ (call'[c].token = call[c].token /\ call[c].token \in undone')
  PROVE  RequestInv'
<1> DEFINE f == [r \in wire |-> IF r.by = c THEN [r EXCEPT !.by = Nobody] ELSE r]
<1>1. \A d \in Calls : d = c \/ call'[d] = call[d]
  BY DEF Others
<1>2. ASSUME NEW q \in wire'
      PROVE  \E r \in wire : /\ q = f[r] /\ Same(q, r)
                             /\ \/ q.by = r.by /\ (r.by \in Calls => Continues(r.by))
                                \/ /\ q.by = Nobody /\ r.by \in Calls
                                   /\ call'[r.by].token = 0 \/ r.from \in undone'
  <2>1. PICK r \in wire : /\ q = (IF r.by = c THEN [r EXCEPT !.by = Nobody] ELSE r)
                          /\ Same(q, r)
                          /\ IF r.by = c THEN q.by = Nobody ELSE q.by = r.by
    BY <1>2, AbandonFields
  <2>2. q = f[r]
    BY <2>1
  <2>3. CASE r.by = c
    <3>1. r.from = call[c].token
      BY <2>3 DEF RequestInv
    <3> QED
      BY <2>1, <2>2, <2>3, <3>1
  <2>4. CASE r.by # c
    BY <1>1, <2>1, <2>2, <2>4 DEF Continues, SameOrder
  <2> QED
    BY <2>3, <2>4
<1> HIDE DEF f
<1>3. \A d \in Calls : call'[d].token \in {call[d].token, 0} \/ call'[d].token > issued
  BY <1>1
<1>4. Follows(f)
  BY <1>2 DEF Follows
<1> QED
  BY <1>3, <1>4, Numbers, RequestFollow

\* A write makes the other requests on the object stale.
LEMMA StaleFields ==
  ASSUME TypeOK, NEW W, W \subseteq wire, NEW n
  PROVE  \A q \in Stale(W, n) : \E r \in W :
            /\ q = (IF r.name = n THEN [r EXCEPT !.fresh = FALSE] ELSE r)
            /\ Same(q, r) /\ q.by = r.by /\ (q.admitted <=> r.admitted)
            /\ q.fresh => r.name # n
<1>1. \A r \in W : LET q == [r EXCEPT !.fresh = FALSE]
                   IN  Same(q, r) /\ q.by = r.by /\ q.admitted = r.admitted /\ ~q.fresh
  BY DEF Same, TypeOK, Requests
<1>2. \A r \in W : Same(r, r)
  BY DEF Same
<1> QED
  BY <1>1, <1>2 DEF Stale

\* A call asks when it has no request.
LEMMA RequestAsk ==
  ASSUME TypeOK, CallInv, TokenInv, RequestInv, UNCHANGED <<fence, undone>>,
         NEW c \in Calls, call[c].pc \in {"check", "undo"}, Mine(c), Others(c), SameOrder(c),
         NEW q, wire' = wire \cup {q}, q.by = c, q.from = call[c].token,
         q.verb # "DELETE" => q.new.here /\ q.new.token = q.from,
         \/ call[c].pc = "check" /\ call'[c].pc = "wait" /\ Asked(q, c)'
         \/ call[c].pc = "undo" /\ call'[c].pc = "unwait"
  PROVE  RequestInv'
<1> USE IntentsAssumption
<1>1. \A d \in Calls : d = c \/ call'[d] = call[d]
  BY DEF Others
<1>2. \A d \in Calls : call'[d].token = call[d].token
  BY <1>1 DEF SameOrder
<1>3. ASSUME NEW r \in wire, r.by = c PROVE FALSE
  BY <1>3 DEF RequestInv
<1>4. ASSUME NEW r \in wire, r.from = q.from PROVE q.from \in undone
  <2>1. r.by \in Calls \cup {Nobody}
    BY DEF TypeOK, Requests
  <2>2. CASE r.by = Nobody
    BY <1>4, <2>2 DEF RequestInv
  <2>3. CASE r.by \in Calls
    <3>1. call[r.by].token = call[c].token
      BY <1>4, <2>3 DEF RequestInv
    <3>2. call[c].token > 0
      BY DEF CallInv, CallOK
    <3>3. r.by = c
      BY <2>3, <3>1, <3>2 DEF TokenInv
    <3> QED
      BY <1>3, <3>3
  <2> QED
    BY <2>1, <2>2, <2>3
<1>5. ASSUME NEW r \in wire
      PROVE  /\ 0 < r.from /\ r.from <= fence'.token
             /\ r.verb # "DELETE" => r.new.here /\ r.new.token = r.from
             /\ r.by \in Calls => /\ call'[r.by].pc \in {"wait", "unwait"}
                                  /\ r.from = call'[r.by].token
                                  /\ call'[r.by].pc = "wait" => Asked(r, r.by)'
             /\ r.by = Nobody => \A d \in Calls : call'[d].token = r.from => r.from \in undone'
  <2>1. ASSUME r.by \in Calls
        PROVE  /\ call'[r.by].pc \in {"wait", "unwait"} /\ r.from = call'[r.by].token
               /\ call'[r.by].pc = "wait" => Asked(r, r.by)'
    <3>1. call'[r.by] = call[r.by]
      BY <1>1, <1>3, <2>1
    <3>2. Continues(r.by) /\ Same(r, r)
      BY <3>1 DEF Continues, SameOrder, Same
    <3>3. /\ call[r.by].pc \in {"wait", "unwait"} /\ r.from = call[r.by].token
          /\ call[r.by].pc = "wait" => Asked(r, r.by)
      BY <2>1 DEF RequestInv
    <3> QED
      BY <2>1, <3>1, <3>2, <3>3, AskedKept
  <2> QED
    BY <1>2, <2>1 DEF RequestInv
<1>6. /\ 0 < q.from /\ q.from <= fence'.token
      /\ q.by \in Calls => /\ call'[q.by].pc \in {"wait", "unwait"}
                           /\ q.from = call'[q.by].token
                           /\ call'[q.by].pc = "wait" => Asked(q, q.by)'
      /\ q.by # Nobody
  <2>1. call[c].token > 0 /\ call[c].token = fence.token
    BY DEF CallInv, CallOK, Mine
  <2> QED
    BY <2>1, Numbers DEF SameOrder
<1>7. ASSUME NEW r \in wire', NEW s \in wire',
             \/ r.by = s.by /\ r.by \in Calls
             \/ r.from = s.from /\ r.from \notin undone'
      PROVE  r = s
  BY <1>3, <1>4, <1>7 DEF RequestInv
<1>8. \A r \in wire' : r \in wire \/ r = q
  OBVIOUS
<1> QED
  BY <1>5, <1>6, <1>7, <1>8 DEF RequestInv

\* A call has one request, which is what it is waiting for.
LEMMA RequestStep == TypeOK /\ CallInv /\ TokenInv /\ RequestInv /\ [Next]_vars => RequestInv'
<1> SUFFICES ASSUME TypeOK, CallInv, TokenInv, RequestInv, [Next]_vars PROVE RequestInv'
  OBVIOUS
<1> USE IntentsAssumption
<1>a. fence.token \in Nat /\ fence.token <= fence.token
  BY Numbers
<1>b. ASSUME NEW c \in Calls, call[c].pc \notin {"wait", "unwait"}, Others(c),
             call'[c].token \in {call[c].token, 0} \/ call'[c].token > issued,
             UNCHANGED <<wire, fence, undone>>
      PROVE  RequestInv'
  BY <1>a, <1>b, RequestActor
<1>c. ASSUME NEW c \in Calls, call[c].pc \notin {"wait", "unwait"}, UNCHANGED <<wire, fence, undone>>,
             \/ call' = Advanced(c)
             \/ \E l : call' = Moved(c, l)
             \/ call' = [call EXCEPT ![c] = Idle]
      PROVE  RequestInv'
  <2>1. CASE call' = Advanced(c)
    BY <1>b, <1>c, <2>1, AdvancedFields DEF Others
  <2>2. ASSUME NEW l, call' = Moved(c, l) PROVE RequestInv'
    BY <1>b, <1>c, <2>2, MovedFields DEF SameOrder
  <2>3. CASE call' = [call EXCEPT ![c] = Idle]
    BY <1>b, <1>c, <2>3, IdleFields
  <2> QED
    BY <1>c, <2>1, <2>2, <2>3
<1>d. ASSUME NEW c \in Calls, NEW i \in Orders, Issue(c, i), call[c].pc \notin {"wait", "unwait"},
             UNCHANGED <<wire, fence, undone>>
      PROVE  RequestInv'
  <2>1. Others(c) /\ call'[c].token = issued + 1
    BY <1>d, IssueFields
  <2> QED
    BY <1>b, <1>d, <2>1, Numbers
<1>e. ASSUME UNCHANGED <<wire, fence, undone, call>> PROVE RequestInv'
  <2>1. \A c \in Calls : call'[c].token = call[c].token /\ Continues(c)
    BY <1>e DEF Continues, SameOrder
  <2> QED
    BY <1>a, <1>e, <2>1, RequestKept
<1>f. \A c \in Calls : \A do : At(c, do) => call[c].pc = "check" /\ ~Finished(c) /\ Step(c).do = do
  BY DEF At
<1>1. ASSUME NEW c \in Calls, NEW i \in Intents, Command(c, i) PROVE RequestInv'
  BY <1>1, <1>d DEF Command, Orders, cluster
<1>2. ASSUME NEW c \in Calls, Scan(c) PROVE RequestInv'
  BY <1>2, <1>c DEF Scan, cluster
<1>3. ASSUME NEW c \in Calls, Recover(c) PROVE RequestInv'
  BY <1>3, <1>c, <1>d DEF Recover, Orders, cluster
<1>4. ASSUME NEW c \in Calls, Claim(c) PROVE RequestInv'
  <2>1. CASE ~Newer(c)
    BY <1>4, <1>c, <2>1 DEF Claim
  <2>2. CASE Newer(c)
    <3>1. /\ fence'.token = call[c].token /\ fence.token < call[c].token
          /\ call[c].pc = "claim" /\ call' = Moved(c, "check") /\ UNCHANGED <<wire, undone>>
      BY <1>4, <2>2 DEF Claim, Newer
    <3>2. Others(c) /\ call'[c].token = call[c].token
      BY <3>1, MovedFields DEF SameOrder
    <3> QED
      BY <3>1, <3>2, Numbers, RequestActor
  <2> QED
    BY <2>1, <2>2
<1>5. ASSUME NEW c \in Calls, Apply(c) PROVE RequestInv'
  <2> DEFINE cur == cell[Step(c).name]
  <2>0. PICK q : q = Request(c, IF cur.here THEN "PUT" ELSE "POST", Step(c).name, Body(c, cur))
    OBVIOUS
  <2>1. /\ call[c].pc = "check" /\ Mine(c) /\ Step(c).do \in {"put", "quiesce"}
        /\ wire' = wire \cup {q} /\ UNCHANGED <<fence, undone>>
        /\ call' = [call EXCEPT ![c].pc = "wait", ![c].before = cur]
    BY <1>5, <2>0 DEF Apply, Writing, At, Ask, quiet
  <2>2. /\ Others(c) /\ SameOrder(c) /\ call'[c].pc = "wait" /\ call'[c].at = call[c].at
        /\ call'[c].proof = call[c].proof
    BY <2>1 DEF TypeOK, Calling, Others, SameOrder
  <2>3. /\ q.by = c /\ q.from = call[c].token /\ q.name = Step(c).name /\ q.verb # "DELETE"
        /\ q.new = Body(c, cur)
    BY <2>0 DEF Request
  <2>4. /\ Body(c, cur).here /\ Body(c, cur).token = call[c].token
        /\ Body(c, cur).spec = call[c].order
        /\ Step(c).name = Run /\ Body(c, cur).up => Step(c).do = "put"
        /\ Step(c).name = Ready => Body(c, cur).ev = call[c].proof
    BY NamesDiffer DEF Body
  <2>5. Asked(q, c)'
    <3>1. Step(c)' = Step(c)
      BY <2>2 DEF Step, SameOrder
    <3> HIDE DEF cur
    <3> QED
      BY <2>1, <2>2, <2>3, <2>4, <3>1 DEF Asked, SameOrder
  <2> HIDE DEF cur
  <2> QED
    BY <2>1, <2>2, <2>3, <2>4, <2>5, RequestAsk
<1>6. ASSUME NEW c \in Calls, Synchronize(c) PROVE RequestInv'
  <2>0. PICK q : q = Request(c, "PUT", Ns, [cell[Ns] EXCEPT !.token = call[c].token, !.op = call[c].order])
    OBVIOUS
  <2>1. call[c].pc = "check" /\ Mine(c) /\ Step(c).do = "sync" /\ UNCHANGED <<fence, undone>>
    BY <1>6 DEF Synchronize, Writing, At, quiet
  <2>2. CASE cell[Ns].here
    <3>1. wire' = wire \cup {q} /\ call' = Moved(c, "wait")
      BY <1>6, <2>0, <2>2 DEF Synchronize, Ask
    <3>2. cell[Ns] \in Cells
      BY NamesDiffer DEF TypeOK
    <3>3. /\ q.by = c /\ q.from = call[c].token /\ q.name = Ns /\ q.verb = "PUT"
          /\ q.new.here /\ q.new.token = q.from
      BY <2>0, <2>2, <3>2 DEF Request, Cells
    <3>4. /\ Others(c) /\ SameOrder(c) /\ call'[c].pc = "wait" /\ call'[c].at = call[c].at
      BY <3>1, MovedFields
    <3>5. Step(c)' = Step(c)
      BY <3>4 DEF Step, SameOrder
    <3>6. Asked(q, c)'
      BY <2>1, <3>3, <3>5 DEF Asked
    <3> QED
      BY <2>1, <3>1, <3>3, <3>4, <3>6, RequestAsk
  <2>3. CASE ~cell[Ns].here
    <3>1. call' = [Advanced(c) EXCEPT ![c].at = 3] /\ wire' = wire
      BY <1>6, <2>3 DEF Synchronize
    <3>2. Advanced(c) \in [Calls -> Calling]
      BY AdvancedTyped
    <3>3. Others(c) /\ SameOrder(c)
      BY <3>1, <3>2, AdvancedFields DEF Others, SameOrder, Calling
    <3> QED
      BY <1>b, <2>1, <3>1, <3>3 DEF SameOrder
  <2> QED
    BY <2>2, <2>3
<1>7. ASSUME NEW c \in Calls, Erase(c) PROVE RequestInv'
  <2>0. PICK q : q = [Request(c, "DELETE", Ns, Absent) EXCEPT !.fresh = call[c].held]
    OBVIOUS
  <2>1. /\ call[c].pc = "check" /\ Mine(c) /\ Step(c).do = "erase" /\ UNCHANGED <<fence, undone>>
        /\ wire' = wire \cup {q} /\ call' = Moved(c, "wait")
    BY <1>7, <2>0 DEF Erase, Writing, At, quiet
  <2>2. q.by = c /\ q.from = call[c].token /\ q.verb = "DELETE"
    BY <2>0 DEF Request
  <2>3. Others(c) /\ SameOrder(c) /\ call'[c].pc = "wait" /\ call'[c].at = call[c].at
    BY <2>1, MovedFields
  <2>4. Step(c)' = Step(c)
    BY <2>3 DEF Step, SameOrder
  <2>5. Asked(q, c)'
    BY <2>1, <2>4 DEF Asked
  <2> QED
    BY <2>1, <2>2, <2>3, <2>5, RequestAsk
<1>8. ASSUME NEW c \in Calls, Confirm(c) PROVE RequestInv'
  <2>1. Advanced(c) \in [Calls -> Calling]
    BY AdvancedTyped
  <2>2. Others(c) /\ SameOrder(c)
    BY <1>8, <2>1, AdvancedFields DEF Confirm, Others, SameOrder, Calling
  <2> QED
    BY <1>8, <1>b, <2>2 DEF Confirm, quiet, SameOrder
<1>9. ASSUME NEW c \in Calls, Quiesce(c) PROVE RequestInv'
  BY <1>9, <1>c, <1>f DEF Quiesce, quiet
<1>10. ASSUME NEW c \in Calls, AwaitSecret(c) PROVE RequestInv'
  <2>1. Advanced(c) \in [Calls -> Calling]
    BY AdvancedTyped
  <2>2. Others(c) /\ SameOrder(c)
    BY <1>10, <2>1, AdvancedFields DEF AwaitSecret, Others, SameOrder, Calling
  <2> QED
    BY <1>10, <1>b, <1>f, <2>2 DEF AwaitSecret, quiet, SameOrder
<1>11. ASSUME NEW c \in Calls, AwaitMigration(c) PROVE RequestInv'
  BY <1>11, <1>c, <1>f DEF AwaitMigration, quiet
<1>12. ASSUME NEW c \in Calls, Verify(c) PROVE RequestInv'
  BY <1>12, <1>c, <1>f DEF Verify, quiet
<1>13. ASSUME NEW c \in Calls, Receipt(c) PROVE RequestInv'
  <2>1. /\ call[c].pc = "check" /\ UNCHANGED <<wire, undone>> /\ fence'.token = fence.token
        /\ call' = [call EXCEPT ![c] = Idle] \/ call' = Moved(c, "observe")
    BY <1>13 DEF Receipt, TypeOK
  <2>2. Others(c) /\ call'[c].token \in {call[c].token, 0}
    BY <2>1, MovedFields, IdleFields DEF SameOrder
  <2> QED
    BY <1>a, <2>1, <2>2, RequestActor
<1>14. ASSUME NEW c \in Calls, Observe(c) PROVE RequestInv'
  BY <1>14, <1>c DEF Observe, quiet
<1>15. ASSUME NEW c \in Calls, Fail(c) PROVE RequestInv'
  <2>1. /\ call' = Fallen(c) /\ UNCHANGED fence /\ undone \subseteq undone'
        /\ call[c].order # Reclaim => call[c].token \in undone'
    BY <1>15 DEF Fail, quiet
  <2>2. /\ Others(c)
        /\ \/ call'[c].token = 0
           \/ call'[c].token = call[c].token /\ call[c].token \in undone'
    BY <2>1, FallenFields DEF Idle, SameOrder
  <2>3. CASE call[c].pc = "wait"
    BY <1>15, <2>1, <2>2, <2>3, RequestAbandon DEF Fail
  <2>4. CASE call[c].pc # "wait"
    <3>1. wire' = wire /\ call[c].pc \notin {"wait", "unwait"}
      BY <1>15, <2>4 DEF Fail, Working
    <3> QED
      BY <1>a, <2>1, <2>2, <3>1, RequestActor
  <2> QED
    BY <2>3, <2>4
<1>16. ASSUME NEW c \in Calls, Abort(c) PROVE RequestInv'
  BY <1>16, IdleFields, RequestAbandon DEF Abort, quiet
<1>17. ASSUME NEW c \in Calls, Restore(c) PROVE RequestInv'
  <2>1. call[c].pc = "undo" /\ Mine(c) /\ call[c].undo # <<>> /\ UNCHANGED <<fence, undone>>
    BY <1>17 DEF Restore, quiet
  <2>2. CASE call' = Popped(c) /\ UNCHANGED wire
    <3>1. Others(c) /\ SameOrder(c)
      BY <2>2, PoppedFields DEF Others, SameOrder
    <3> QED
      BY <1>b, <2>1, <2>2, <3>1 DEF SameOrder
  <2>3. ASSUME NEW v \in {"PUT", "DELETE"}, NEW n, NEW new, Ask(c, v, n, new), call' = Moved(c, "unwait"),
               v = "PUT" => new.here /\ new.token = call[c].token
        PROVE  RequestInv'
    <3>1. Others(c) /\ SameOrder(c) /\ call'[c].pc = "unwait"
      BY <2>3, MovedFields
    <3> DEFINE q == Request(c, v, n, new)
    <3>2. /\ wire' = wire \cup {q} /\ q.by = c /\ q.from = call[c].token
          /\ q.verb # "DELETE" => q.new.here /\ q.new.token = q.from
      BY <2>3 DEF Ask, Request
    <3> HIDE DEF q
    <3> QED
      BY <2>1, <3>1, <3>2, RequestAsk
  <2> DEFINE new == [Former(Top(c).name, Top(c).before) EXCEPT !.token = call[c].token]
  <2>4. Top(c).before.here => new.here /\ new.token = call[c].token
    <3>1. call[c].undo \in Snapshots
      BY DEF TypeOK, Calling
    <3>2. Top(c).before \in Cells
      BY <2>1, <3>1, SnapshotsHold DEF Top
    <3> QED
      BY <3>2 DEF Former, Cells
  <2> HIDE DEF new
  <2>5. \/ call' = Popped(c) /\ UNCHANGED wire
        \/ Top(c).before.here /\ Ask(c, "PUT", Top(c).name, new) /\ call' = Moved(c, "unwait")
        \/ Ask(c, "DELETE", Top(c).name, Absent) /\ call' = Moved(c, "unwait")
    BY <1>17 DEF Restore, new
  <2> QED
    BY <2>2, <2>3, <2>4, <2>5
<1>18. ASSUME NEW c \in Calls, Stop(c) PROVE RequestInv'
  BY <1>18, <1>c DEF Stop, quiet
<1>19. ASSUME NEW c \in Calls, GiveUp(c) PROVE RequestInv'
  <2>1. /\ Others(c) /\ SameOrder(c) /\ Abandon(c) /\ UNCHANGED <<fence, undone>>
        /\ call[c].pc = "unwait"
    BY <1>19, MovedFields DEF GiveUp, quiet
  <2>2. call[c].token \in undone
    BY <2>1 DEF CallInv, CallOK, TokenInv, Undoing
  <2> QED
    BY <2>1, <2>2, RequestAbandon DEF SameOrder
<1>20. ASSUME NEW c \in Calls, RecordFailure(c) PROVE RequestInv'
  <2>1. /\ call[c].pc = "record" /\ UNCHANGED <<wire, undone>> /\ fence'.token = fence.token
        /\ call' = [call EXCEPT ![c] = Idle]
    BY <1>20 DEF RecordFailure, TypeOK
  <2> QED
    BY <1>a, <2>1, IdleFields, RequestActor
<1>21. ASSUME NEW r \in wire, Admit(r) PROVE RequestInv'
  <2> DEFINE a == [r EXCEPT !.admitted = TRUE]
  <2> DEFINE f == [s \in wire |-> IF s = r THEN a ELSE s]
  <2>1. Same(a, r) /\ a.by = r.by
    BY DEF Same, TypeOK, Requests
  <2>2. /\ wire' = (wire \ {r}) \cup {a} /\ UNCHANGED <<fence, undone>>
        /\ \A c \in Calls : call'[c].token = call[c].token /\ Continues(c)
    BY <1>21 DEF Admit, quiet, Continues, SameOrder
  <2>3. \A q \in wire' : \E s \in wire : q = f[s] /\ Same(q, s) /\ q.by = s.by
    <3>1. \A s \in wire : Same(s, s)
      BY DEF Same
    <3> HIDE DEF a
    <3> QED
      BY <2>1, <2>2, <3>1
  <2> HIDE DEF f, a
  <2>4. Follows(f)
    BY <2>2, <2>3 DEF Follows
  <2> QED
    BY <1>a, <2>2, <2>4, RequestFollow
<1>22. ASSUME NEW r \in wire, Persist(r) PROVE RequestInv'
  <2> DEFINE f == [s \in wire |-> IF s.name = r.name THEN [s EXCEPT !.fresh = FALSE] ELSE s]
  <2>1. wire' = Stale(wire \ {r}, r.name) /\ UNCHANGED <<fence, undone>>
    BY <1>22 DEF Persist
  <2>2. \A c \in Calls : c # r.by => Continues(c)
    BY <1>22, PersistFields DEF Unchanged, Continues, SameOrder
  <2>3. \A c \in Calls : call'[c].token = call[c].token
    BY <1>22, PersistFields DEF Unchanged, SameOrder
  <2>4. \A q \in wire' : \E s \in wire \ {r} : q = f[s] /\ Same(q, s) /\ q.by = s.by
    BY <2>1, StaleFields
  <2>5. \A s \in wire \ {r} : s.by \in Calls => s.by # r.by
    BY DEF RequestInv
  <2> HIDE DEF f
  <2>6. Follows(f)
    BY <2>2, <2>4, <2>5 DEF Follows
  <2> QED
    BY <1>a, <2>1, <2>3, <2>6, RequestFollow
<1>23. ASSUME NEW r \in wire, Refuse(r) PROVE RequestInv'
  <2> DEFINE f == [s \in wire |-> s]
  <2>1. wire' = wire \ {r} /\ UNCHANGED fence /\ undone \subseteq undone'
    BY <1>23 DEF Refuse, quiet
  <2>2. \A c \in Calls : /\ c # r.by => call'[c] = call[c]
                         /\ call'[c].token \in {call[c].token, 0}
    <3>1. CASE r.by \notin Calls
      BY <1>23, <3>1 DEF Refuse
    <3>2. CASE r.by \in Calls
      <4>1. \/ call' = Moved(r.by, "record") \/ call' = Moved(r.by, "check") \/ call' = Fallen(r.by)
        BY <1>23, <3>2 DEF Refuse
      <4>2. Others(r.by) /\ call'[r.by].token \in {call[r.by].token, 0}
        BY <3>2, <4>1, MovedFields, FallenFields DEF SameOrder, Idle
      <4> QED
        BY <4>2 DEF Others
    <3> QED
      BY <3>1, <3>2
  <2>3. \A s \in wire' : s \in wire /\ s = f[s] /\ Same(s, s) /\ (s.by \in Calls => s.by # r.by)
    BY <2>1 DEF RequestInv, Same
  <2>4. \A c \in Calls : c # r.by => Continues(c)
    BY <2>2 DEF Continues, SameOrder
  <2> HIDE DEF f
  <2>5. Follows(f)
    BY <2>3, <2>4 DEF Follows
  <2> QED
    BY <1>a, <2>1, <2>2, <2>5, RequestFollow
<1>24. ASSUME NEW n \in Names, JobRuns(n) PROVE RequestInv'
  <2> DEFINE f == [s \in wire |-> IF s.name = n THEN [s EXCEPT !.fresh = FALSE] ELSE s]
  <2>1. wire' = Stale(wire, n) /\ UNCHANGED <<fence, undone>>
        /\ \A c \in Calls : call'[c].token = call[c].token /\ Continues(c)
    BY <1>24 DEF JobRuns, rest, Continues, SameOrder
  <2>2. \A q \in wire' : \E s \in wire : q = f[s] /\ Same(q, s) /\ q.by = s.by
    BY <2>1, StaleFields
  <2> HIDE DEF f
  <2>3. Follows(f)
    BY <2>1, <2>2 DEF Follows
  <2> QED
    BY <1>a, <2>1, <2>3, RequestFollow
<1>25. CASE Register \/ PodsFollow \/ SecretMade \/ UNCHANGED vars
  BY <1>25, <1>e DEF Register, PodsFollow, SecretMade, vars, cluster, rest
<1>26. CASE NamespaceGone
  <2> DEFINE f == [s \in wire |-> [s EXCEPT !.fresh = FALSE]]
  <2>1. /\ wire' = {[s EXCEPT !.fresh = FALSE] : s \in wire} /\ UNCHANGED <<fence, undone>>
        /\ \A c \in Calls : Unchanged(c)
    BY <1>26, UnheldFields DEF NamespaceGone, rest, Unchanged
  <2>2. \A s \in wire : Same(f[s], s) /\ f[s].by = s.by
    BY DEF Same, TypeOK, Requests
  <2>3. \A q \in wire' : \E s \in wire : q = f[s]
    BY <2>1
  <2>4. \A c \in Calls : call'[c].token = call[c].token /\ Continues(c)
    BY <2>1 DEF Unchanged, Continues, SameOrder
  <2> HIDE DEF f
  <2>5. Follows(f)
    BY <2>2, <2>3, <2>4 DEF Follows
  <2> QED
    BY <1>a, <2>1, <2>4, <2>5, RequestFollow
<1> QED
  BY <1>1, <1>2, <1>3, <1>4, <1>5, <1>6, <1>7, <1>8, <1>9, <1>10, <1>11, <1>12,
     <1>13, <1>14, <1>15, <1>16, <1>17, <1>18, <1>19, <1>20, <1>21, <1>22,
     <1>23, <1>24, <1>25, <1>26 DEF Next

-----------------------------------------------------------------------------
(* The kinds of steps                                                      *)

\* Every request on the wire was there.
NoNew == \A q \in wire' : \E r \in wire : Same(q, r) /\ (q.admitted => r.admitted)

\* A call that works on the current command stands still, or passes a step of its
\* plan that writes nothing.
Steady(c) == /\ SameOrder(c) /\ Stage(c)' = Stage(c) /\ call'[c].proof = call[c].proof
Passes(c) ==
    /\ SameOrder(c) /\ call[c].pc = "check" /\ ~Finished(c)
    /\ Stage(c)' = Stage(c) + 1 /\ Step(c).do # "put"
    /\ IF Step(c).do = "secret" THEN call'[c].proof > 0 ELSE call'[c].proof = call[c].proof
    /\ Step(c).do = "migrate" => Migrated(c)
Goes(c) ==
    /\ Holds(c)' => Holds(c) /\ (Steady(c) \/ Passes(c) \/ call[c].order \in Deletes)
    /\ call'[c].pc \in Working /\ call'[c].held => /\ call[c].pc \in Working /\ call[c].held
                                                   /\ call'[c].token = call[c].token

\* A step that changes no object and asks for nothing.
Settles ==
    /\ UNCHANGED <<cell, dying>> /\ NoNew
    /\ fence'.token = fence.token /\ fence'.op = fence.op /\ undone \subseteq undone'
    /\ fence.token \notin undone' =>
          \/ fence'.phase = fence.phase
          \/ /\ fence'.phase = "APPLIED"
             /\ \E c \in Calls : Holds(c) /\ call[c].pc = "check" /\ Finished(c)
    /\ \A c \in Calls : Goes(c)

\* A step that asks for a write.
Asks(c, q) ==
    /\ UNCHANGED <<cell, dying, fence, undone>> /\ wire' = wire \cup {q}
    /\ Mine(c) /\ Others(c) /\ SameOrder(c) /\ q.by = c /\ q.from = call[c].token
    /\ ~q.admitted /\ q.name \in Names
    /\ q.verb = "DELETE" /\ q.name = Ns /\ q.fresh =>
          \/ cell[Ns].token <= call[c].token
          \/ call[c].held /\ call[c].pc \in Working
    /\ call'[c].held = call[c].held
    /\ \/ /\ call[c].pc = "check" /\ call'[c].pc = "wait" /\ Asked(q, c)
          /\ ~Finished(c) /\ Stage(c)' = Stage(c) /\ call'[c].proof = call[c].proof
          /\ Step(c).do \in {"put", "quiesce", "sync", "erase"}
       \/ call[c].pc = "undo" /\ call'[c].pc = "unwait"

Base == TypeOK /\ CallInv /\ TokenInv /\ RequestInv

LEMMA NoNewKept ==
  ASSUME wire' = wire
  PROVE  NoNew
  BY DEF NoNew, Same

LEMMA NoNewAbandon ==
  ASSUME TypeOK, NEW c \in Calls, Abandon(c)
  PROVE  NoNew
  BY AbandonFields DEF NoNew

LEMMA StageAdvanced ==
  ASSUME NEW c \in Calls, call[c].pc \in {"check", "confirm"}, SameOrder(c), call[c].at \in Nat,
         call'[c].pc = "check", call'[c].at = call[c].at + 1
  PROVE  Stage(c)' = IF call[c].pc = "check" THEN Stage(c) + 1 ELSE Stage(c)
  BY DEF Stage

LEMMA GoesOther ==
  ASSUME NEW d \in Calls, call'[d] = call[d], fence'.token = fence.token
  PROVE  Goes(d)
  BY DEF Goes, Holds, Steady, Stage, SameOrder

\* A call that leaves its command, or never was at one, need not be looked at.
LEMMA GoesAway ==
  ASSUME NEW c \in Calls, call'[c].pc \notin Active, call'[c].pc \in Working => SameOrder(c) /\ call[c].pc \in Working,
         call'[c].held => call[c].held
  PROVE  Goes(c)
  BY DEF Goes, Holds, SameOrder

LEMMA SettlesBy ==
  ASSUME NEW c \in Calls, Others(c), NoNew, Goes(c), UNCHANGED <<cell, dying, fence>>,
         undone \subseteq undone'
  PROVE  Settles
<1>1. \A d \in Calls : Goes(d)
  BY GoesOther DEF Others
<1> QED
  BY <1>1 DEF Settles

LEMMA Kinds ==
  Base /\ [Next]_vars =>
    \/ \E c \in Calls : Claim(c) /\ Newer(c)
    \/ \E c \in Calls : \E q : Asks(c, q)
    \/ \E r \in wire : Admit(r) \/ Persist(r)
    \/ \E n \in Names : JobRuns(n)
    \/ NamespaceGone
    \/ Settles
<1> SUFFICES ASSUME Base, [Next]_vars,
                    ~\E c \in Calls : Claim(c) /\ Newer(c),
                    ~\E c \in Calls : \E q : Asks(c, q),
                    ~\E r \in wire : Admit(r) \/ Persist(r),
                    ~\E n \in Names : JobRuns(n),
                    ~NamespaceGone
             PROVE  Settles
  OBVIOUS
<1> USE DEF Base
<1>a. \A c \in Calls : CallOK(c) /\ call[c].at \in Nat
  BY Numbers DEF CallInv
<1>b. \A c \in Calls : \A do : At(c, do) => call[c].pc = "check" /\ ~Finished(c) /\ Step(c).do = do
  BY DEF At
<1>c. ASSUME NEW c \in Calls, call' = [call EXCEPT ![c] = Idle], NoNew,
             UNCHANGED <<cell, dying, fence>>, undone \subseteq undone'
      PROVE  Settles
  <2>1. Others(c) /\ call'[c].pc = "idle" /\ call'[c].held = FALSE
    BY <1>c, IdleFields
  <2>2. Goes(c)
    BY <2>1, GoesAway DEF Active, Working
  <2> QED
    BY <1>c, <2>1, <2>2, SettlesBy
<1>d. ASSUME NEW c \in Calls, NEW l \in {"scanned", "record", "undo", "unwait", "observe"}, call' = Moved(c, l),
             l = "observe" => call[c].pc \in Working, NoNew
      PROVE  Others(c) /\ Goes(c)
  <2>1. Others(c) /\ SameOrder(c) /\ call'[c].pc = l /\ call'[c].held = call[c].held
    BY <1>d, MovedFields
  <2> QED
    BY <1>d, <2>1, GoesAway DEF Active, Working
<1>e. ASSUME NEW c \in Calls, NEW i \in Orders, Issue(c, i), UNCHANGED <<cell, dying, wire, fence, undone>>
      PROVE  Settles
  <2>1. Others(c) /\ call'[c].pc = "claim" /\ call'[c].held = FALSE
    BY <1>e, IssueFields
  <2>2. Goes(c)
    BY <2>1, GoesAway DEF Active, Working
  <2> QED
    BY <1>e, <2>1, <2>2, NoNewKept, SettlesBy
<1>f. ASSUME NEW c \in Calls, Others(c), SameOrder(c), call[c].pc = "check", call'[c].pc = "check",
             ~Finished(c), call'[c].at = call[c].at + 1, call'[c].held = call[c].held,
             Step(c).do # "put", Step(c).do = "migrate" => Migrated(c),
             IF Step(c).do = "secret" THEN call'[c].proof > 0 ELSE call'[c].proof = call[c].proof,
             UNCHANGED <<cell, dying, wire, fence, undone>>
      PROVE  Settles
  <2>1. Stage(c)' = Stage(c) + 1
    BY <1>a, <1>f, StageAdvanced
  <2>2. Passes(c)
    BY <1>f, <2>1 DEF Passes
  <2>3. Goes(c)
    BY <1>f, <2>2 DEF Goes, Holds, SameOrder, Active, Working
  <2> QED
    BY <1>f, <2>3, NoNewKept, SettlesBy
<1>g. ASSUME NEW c \in Calls, call' = Fallen(c), NoNew, UNCHANGED <<cell, dying, fence>>,
             undone \subseteq undone'
      PROVE  Settles
  <2>1. /\ Others(c) /\ call'[c].pc \in {"idle", "undo"}
        /\ call'[c].held => call[c].held
    BY <1>g, FallenFields DEF Idle
  <2>2. Goes(c)
    BY <2>1, GoesAway DEF Active, Working
  <2> QED
    BY <1>g, <2>1, <2>2, SettlesBy
<1>h. ASSUME UNCHANGED <<cell, dying, wire, fence, undone, call>> PROVE Settles
  <2>1. \A d \in Calls : Goes(d)
    BY <1>h, GoesOther
  <2> QED
    BY <1>h, <2>1, NoNewKept DEF Settles
<1>1. ASSUME NEW c \in Calls, NEW i \in Intents, Command(c, i) PROVE Settles
  BY <1>1, <1>e DEF Command, Orders, cluster
<1>2. ASSUME NEW c \in Calls, Scan(c) PROVE Settles
  BY <1>2, <1>d, NoNewKept, SettlesBy DEF Scan, cluster
<1>3. ASSUME NEW c \in Calls, Recover(c) PROVE Settles
  BY <1>3, <1>c, <1>e, NoNewKept DEF Recover, Orders, cluster
<1>4. ASSUME NEW c \in Calls, Claim(c) PROVE Settles
  BY <1>4, <1>c, NoNewKept DEF Claim
<1>5. ASSUME NEW c \in Calls, Apply(c) PROVE Settles
  <2> DEFINE cur == cell[Step(c).name]
  <2>0. PICK q : q = Request(c, IF cur.here THEN "PUT" ELSE "POST", Step(c).name, Body(c, cur))
    OBVIOUS
  <2>1. /\ call[c].pc = "check" /\ Mine(c) /\ Step(c).do \in {"put", "quiesce"}
        /\ wire' = wire \cup {q} /\ UNCHANGED <<fence, undone, cell, dying>> /\ ~Finished(c)
        /\ call' = [call EXCEPT ![c].pc = "wait", ![c].before = cur]
    BY <1>5, <2>0 DEF Apply, Writing, At, Ask, quiet
  <2>2. /\ Others(c) /\ SameOrder(c) /\ call'[c].pc = "wait" /\ call'[c].at = call[c].at
        /\ call'[c].proof = call[c].proof /\ call'[c].held = call[c].held
    BY <2>1 DEF TypeOK, Calling, Others, SameOrder
  <2>3. /\ q.by = c /\ q.from = call[c].token /\ q.name = Step(c).name /\ q.verb # "DELETE"
        /\ q.new = Body(c, cur) /\ ~q.admitted
    BY <2>0 DEF Request
  <2>4. /\ Body(c, cur).here /\ Body(c, cur).token = call[c].token
        /\ Body(c, cur).spec = call[c].order
        /\ Step(c).name = Run /\ Body(c, cur).up => Step(c).do = "put"
        /\ Step(c).name = Ready => Body(c, cur).ev = call[c].proof
    BY NamesDiffer DEF Body
  <2> HIDE DEF cur
  <2>5. Asked(q, c)
    BY <2>1, <2>3, <2>4 DEF Asked
  <2>6. Stage(c)' = Stage(c)
    BY <2>1, <2>2 DEF Stage
  <2>7. q.name \in Names
    BY <1>a, <2>1, <2>3, StepName DEF CallOK
  <2>8. Asks(c, q)
    BY <2>1, <2>2, <2>3, <2>5, <2>6, <2>7 DEF Asks
  <2> QED
    BY <2>8
<1>6. ASSUME NEW c \in Calls, Synchronize(c) PROVE Settles
  <2>1. /\ call[c].pc = "check" /\ Mine(c) /\ Step(c).do = "sync" /\ ~Finished(c)
        /\ UNCHANGED <<fence, undone, cell, dying>>
    BY <1>6 DEF Synchronize, Writing, At, quiet
  <2>2. CASE cell[Ns].here
    <3>0. PICK q : q = Request(c, "PUT", Ns, [cell[Ns] EXCEPT !.token = call[c].token, !.op = call[c].order])
      OBVIOUS
    <3>1. wire' = wire \cup {q} /\ call' = Moved(c, "wait")
      BY <1>6, <2>2, <3>0 DEF Synchronize, Ask
    <3>2. q.by = c /\ q.from = call[c].token /\ q.name = Ns /\ q.verb = "PUT" /\ ~q.admitted
      BY <3>0 DEF Request
    <3>3. /\ Others(c) /\ SameOrder(c) /\ call'[c].pc = "wait" /\ call'[c].at = call[c].at
          /\ call'[c].proof = call[c].proof /\ call'[c].held = call[c].held
      BY <3>1, MovedFields
    <3>4. Asked(q, c) /\ Stage(c)' = Stage(c)
      BY <2>1, <3>2, <3>3 DEF Asked, Stage
    <3>5. Asks(c, q)
      BY <2>1, <3>1, <3>2, <3>3, <3>4, NamesDiffer DEF Asks
    <3> QED
      BY <3>5
  <2>3. CASE ~cell[Ns].here
    <3>1. call' = [Advanced(c) EXCEPT ![c].at = 3] /\ wire' = wire
      BY <1>6, <2>3 DEF Synchronize
    <3>2. Advanced(c) \in [Calls -> Calling]
      BY AdvancedTyped
    <3>3. Others(c) /\ SameOrder(c) /\ call'[c].held = call[c].held /\ call'[c].pc = "check"
      BY <3>1, <3>2, AdvancedFields DEF Others, SameOrder, Calling
    <3>4. call[c].order \in Deletes
      <4>1. call[c].order \in Orders /\ call[c].at \in 1..Len(Plan(call[c].order))
        BY <1>a, <2>1, StepName DEF CallOK
      <4>2. call[c].order \notin Migrating
        <5>1. \A k \in 1..9 : \/ k = 1 \/ k = 2 \/ k = 3 \/ k = 4 \/ k = 5
                              \/ k = 6 \/ k = 7 \/ k = 8 \/ k = 9
          OBVIOUS
        <5> QED
          BY <2>1, <4>1, <5>1, LongPlan DEF Step
      <4>3. Step(c).do \in {Plan(call[c].order)[1].do, Plan(call[c].order)[2].do}
        BY <4>1, <4>2, ShortPlan DEF Step
      <4> QED
        BY <2>1, <4>1, <4>2, <4>3, ShortPlan, PlanSteps
    <3>5. Goes(c)
      BY <2>1, <3>3, <3>4 DEF Goes, Holds, SameOrder, Active, Working
    <3> QED
      BY <2>1, <3>1, <3>3, <3>5, NoNewKept, SettlesBy
  <2> QED
    BY <2>2, <2>3
<1>7. ASSUME NEW c \in Calls, Erase(c) PROVE Settles
  <2>0. PICK q : q = [Request(c, "DELETE", Ns, Absent) EXCEPT !.fresh = call[c].held]
    OBVIOUS
  <2>1. /\ call[c].pc = "check" /\ Mine(c) /\ Step(c).do = "erase" /\ ~Finished(c)
        /\ UNCHANGED <<fence, undone, cell, dying>>
        /\ wire' = wire \cup {q} /\ call' = Moved(c, "wait")
    BY <1>7, <2>0 DEF Erase, Writing, At, quiet
  <2>2. /\ q.by = c /\ q.from = call[c].token /\ q.verb = "DELETE" /\ q.name = Ns
        /\ q.fresh = call[c].held /\ ~q.admitted
    BY <2>0 DEF Request
  <2>3. /\ Others(c) /\ SameOrder(c) /\ call'[c].pc = "wait" /\ call'[c].at = call[c].at
        /\ call'[c].proof = call[c].proof /\ call'[c].held = call[c].held
    BY <2>1, MovedFields
  <2>4. Asked(q, c) /\ Stage(c)' = Stage(c)
    BY <2>1, <2>2, <2>3 DEF Asked, Stage
  <2>5. Asks(c, q)
    BY <2>1, <2>2, <2>3, <2>4, NamesDiffer DEF Asks, Working
  <2> QED
    BY <2>5
<1>8. ASSUME NEW c \in Calls, Confirm(c) PROVE Settles
  <2>1. Advanced(c) \in [Calls -> Calling]
    BY AdvancedTyped
  <2>2. /\ Others(c) /\ SameOrder(c) /\ call'[c].pc = "check" /\ call'[c].at = call[c].at + 1
        /\ call'[c].held = call[c].held /\ call'[c].proof = call[c].proof
    BY <1>8, <2>1, AdvancedFields DEF Confirm, Others, SameOrder, Calling
  <2>3. call[c].pc = "confirm" /\ UNCHANGED <<wire, fence, undone, cell, dying>>
    BY <1>8 DEF Confirm, quiet
  <2>4. Stage(c)' = Stage(c)
    BY <1>a, <2>2, <2>3, StageAdvanced
  <2>5. Goes(c)
    BY <2>2, <2>3, <2>4 DEF Goes, Steady, Holds, SameOrder, Active, Working
  <2> QED
    BY <2>2, <2>3, <2>5, NoNewKept, SettlesBy
<1>9. ASSUME NEW c \in Calls, Quiesce(c) PROVE Settles
  BY <1>9, <1>b, <1>f, AdvancedFields DEF Quiesce, quiet, Others, SameOrder
<1>10. ASSUME NEW c \in Calls, AwaitSecret(c) PROVE Settles
  <2>1. Advanced(c) \in [Calls -> Calling]
    BY AdvancedTyped
  <2>2. /\ Others(c) /\ SameOrder(c) /\ call'[c].pc = "check" /\ call'[c].at = call[c].at + 1
        /\ call'[c].held = call[c].held /\ call'[c].proof = secret
    BY <1>10, <2>1, AdvancedFields DEF AwaitSecret, Others, SameOrder, Calling
  <2> QED
    BY <1>10, <1>b, <1>f, <2>2 DEF AwaitSecret, quiet
<1>11. ASSUME NEW c \in Calls, AwaitMigration(c) PROVE Settles
  BY <1>11, <1>b, <1>f, AdvancedFields DEF AwaitMigration, quiet, Others, SameOrder
<1>12. ASSUME NEW c \in Calls, Verify(c) PROVE Settles
  BY <1>12, <1>b, <1>f, AdvancedFields DEF Verify, quiet, Others, SameOrder
<1>13. ASSUME NEW c \in Calls, Receipt(c) PROVE Settles
  <2>1. /\ call[c].pc = "check" /\ Finished(c) /\ Mine(c) /\ UNCHANGED <<wire, undone, cell, dying>>
        /\ fence'.token = fence.token /\ fence'.op = fence.op /\ fence'.phase = "APPLIED"
        /\ call' = [call EXCEPT ![c] = Idle] \/ call' = Moved(c, "observe")
    BY <1>13 DEF Receipt, TypeOK
  <2>2. Holds(c)
    BY <2>1 DEF Holds, Mine, Active
  <2>3. /\ Others(c) /\ call'[c].pc \in {"idle", "observe"}
        /\ call'[c].pc = "observe" => SameOrder(c)
        /\ call'[c].held => call[c].held
    BY <2>1, IdleFields, MovedFields
  <2>4. Goes(c)
    BY <2>1, <2>3, GoesAway DEF Active, Working
  <2>5. \A d \in Calls : Goes(d)
    BY <2>1, <2>3, <2>4, GoesOther DEF Others
  <2> QED
    BY <2>1, <2>2, <2>5, NoNewKept DEF Settles
<1>14. ASSUME NEW c \in Calls, Observe(c) PROVE Settles
  BY <1>14, <1>c, NoNewKept DEF Observe, quiet
<1>15. ASSUME NEW c \in Calls, Fail(c) PROVE Settles
  BY <1>15, <1>g, NoNewKept, NoNewAbandon DEF Fail, quiet
<1>16. ASSUME NEW c \in Calls, Abort(c) PROVE Settles
  BY <1>16, <1>c, NoNewAbandon DEF Abort, quiet
<1>17. ASSUME NEW c \in Calls, Restore(c) PROVE Settles
  <2>1. /\ call[c].pc = "undo" /\ Mine(c) /\ call[c].undo # <<>>
        /\ UNCHANGED <<fence, undone, cell, dying>> /\ cell[Top(c).name].token <= call[c].token
    BY <1>17 DEF Restore, quiet
  <2>2. CASE call' = Popped(c) /\ UNCHANGED wire
    <3>1. Others(c) /\ call'[c].pc = "undo" /\ call'[c].held = call[c].held
      BY <2>2, PoppedFields DEF Others
    <3>2. Goes(c)
      BY <3>1, GoesAway DEF Active, Working
    <3> QED
      BY <2>1, <2>2, <3>1, <3>2, NoNewKept, SettlesBy
  <2>3. ASSUME NEW v \in {"PUT", "DELETE"}, NEW new, Ask(c, v, Top(c).name, new), call' = Moved(c, "unwait")
        PROVE  FALSE
    <3>1. Others(c) /\ SameOrder(c) /\ call'[c].pc = "unwait" /\ call'[c].held = call[c].held
      BY <2>3, MovedFields
    <3>2. PICK q : q = Request(c, v, Top(c).name, new)
      OBVIOUS
    <3>3. /\ wire' = wire \cup {q} /\ q.by = c /\ q.from = call[c].token /\ ~q.admitted
          /\ q.name = Top(c).name
      BY <2>3, <3>2 DEF Ask, Request
    <3>4. q.name \in Names
      BY <2>1, <3>3, SnapshotsHold DEF Top, TypeOK, Calling
    <3>5. Asks(c, q)
      BY <2>1, <3>1, <3>3, <3>4 DEF Asks
    <3> QED
      BY <3>5
  <2>4. \/ call' = Popped(c) /\ UNCHANGED wire
        \/ /\ call' = Moved(c, "unwait")
           /\ \/ Ask(c, "PUT", Top(c).name, [Former(Top(c).name, Top(c).before) EXCEPT !.token = call[c].token])
              \/ Ask(c, "DELETE", Top(c).name, Absent)
    BY <1>17 DEF Restore
  <2> QED
    BY <2>2, <2>3, <2>4
<1>18. ASSUME NEW c \in Calls, Stop(c) PROVE Settles
  BY <1>18, <1>d, NoNewKept, SettlesBy DEF Stop, quiet
<1>19. ASSUME NEW c \in Calls, GiveUp(c) PROVE Settles
  BY <1>19, <1>d, NoNewAbandon, SettlesBy DEF GiveUp, quiet
<1>20. ASSUME NEW c \in Calls, RecordFailure(c) PROVE Settles
  <2>1. /\ fence'.token = fence.token /\ fence'.op = fence.op
        /\ fence'.phase = fence.phase \/ Mine(c)
        /\ call' = [call EXCEPT ![c] = Idle] /\ UNCHANGED <<cell, dying, wire, undone>>
    BY <1>20 DEF RecordFailure, TypeOK
  <2>2. Others(c) /\ call'[c].pc = "idle" /\ call'[c].held = FALSE
    BY <2>1, IdleFields
  <2>3. Goes(c)
    BY <2>2, GoesAway DEF Active, Working
  <2>4. \A d \in Calls : Goes(d)
    BY <2>1, <2>2, <2>3, GoesOther DEF Others
  <2>5. Mine(c) => fence.token \in undone
    BY <1>a, <1>20 DEF RecordFailure, Mine, TokenInv, CallOK, Undoing
  <2> QED
    BY <2>1, <2>4, <2>5, NoNewKept DEF Settles
<1>21. ASSUME NEW r \in wire, Refuse(r) PROVE Settles
  <2>1. wire' = wire \ {r} /\ UNCHANGED <<cell, dying, fence>> /\ undone \subseteq undone'
    BY <1>21 DEF Refuse, quiet
  <2>2. NoNew
    BY <2>1 DEF NoNew, Same
  <2>3. CASE r.by \notin Calls
    BY <1>21, <2>1, <2>2, <2>3, GoesOther DEF Refuse, Settles
  <2>4. CASE r.by \in Calls
    <3>1. call[r.by].pc \in {"wait", "unwait"}
      BY <2>4 DEF RequestInv
    <3>2. CASE call' = Moved(r.by, "record")
      BY <1>d, <2>1, <2>2, <2>4, <3>2, SettlesBy
    <3>3. CASE call' = Fallen(r.by)
      BY <1>g, <2>1, <2>2, <2>4, <3>3
    <3>4. CASE call' = Moved(r.by, "check") /\ call[r.by].pc = "wait"
      <4>1. /\ Others(r.by) /\ SameOrder(r.by) /\ call'[r.by].pc = "check"
            /\ call'[r.by].at = call[r.by].at /\ call'[r.by].held = call[r.by].held
            /\ call'[r.by].proof = call[r.by].proof
        BY <2>4, <3>4, MovedFields
      <4>2. Goes(r.by)
        BY <2>1, <3>4, <4>1 DEF Goes, Holds, Steady, Stage, SameOrder, Active, Working
      <4> QED
        BY <2>1, <2>2, <2>4, <4>1, <4>2, SettlesBy
    <3> QED
      BY <1>21, <2>4, <3>1, <3>2, <3>3, <3>4 DEF Refuse
  <2> QED
    BY <2>3, <2>4
<1>22. CASE Register \/ PodsFollow \/ SecretMade \/ UNCHANGED vars
  BY <1>22, <1>h DEF Register, PodsFollow, SecretMade, vars, cluster, rest
<1> QED
  BY <1>1, <1>2, <1>3, <1>4, <1>5, <1>6, <1>7, <1>8, <1>9, <1>10, <1>11, <1>12,
     <1>13, <1>14, <1>15, <1>16, <1>17, <1>18, <1>19, <1>20, <1>21, <1>22 DEF Next

-----------------------------------------------------------------------------
(* Objects                                                                 *)

\* What each kind of step does to the objects and the wire.
LEMMA PersistCells ==
  ASSUME TypeOK, NEW r \in wire, Persist(r)
  PROVE  /\ r.name \in Names /\ r.admitted /\ Fits(r)
         /\ UNCHANGED <<fence, undone>>
         /\ \A n \in Names : n # r.name => cell'[n] = cell[n]
         /\ cell'[r.name] = IF r.verb # "DELETE" THEN r.new
                            ELSE IF r.name = Ns THEN cell[r.name] ELSE Absent
         /\ \A q \in wire' : \E s \in wire \ {r} :
               /\ Same(q, s) /\ q.by = s.by /\ (q.admitted <=> s.admitted)
               /\ q.fresh => s.name # r.name
<1>1. r.name \in Names
  BY DEF TypeOK, Requests
<1> DEFINE W == wire \ {r}
<1>2. W \subseteq wire
  OBVIOUS
<1> HIDE DEF W
<1>3. \A q \in Stale(W, r.name) : \E s \in W :
         /\ Same(q, s) /\ q.by = s.by /\ (q.admitted <=> s.admitted)
         /\ q.fresh => s.name # r.name
  BY <1>2, StaleFields
<1>4. \A q \in wire' : \E s \in wire \ {r} :
         /\ Same(q, s) /\ q.by = s.by /\ (q.admitted <=> s.admitted)
         /\ q.fresh => s.name # r.name
  BY <1>3 DEF Persist, W
<1> QED
  BY <1>1, <1>4 DEF Persist, TypeOK

LEMMA JobCells ==
  ASSUME TypeOK, NEW n \in Names, JobRuns(n)
  PROVE  /\ UNCHANGED <<fence, undone, call>> /\ NoNew
         /\ cell[n].here /\ n[1] = "job"
         /\ \A m \in Names : /\ m # n => cell'[m] = cell[m]
                             /\ cell'[m].here = cell[m].here /\ cell'[m].token = cell[m].token
                             /\ cell'[m].spec = cell[m].spec
                             /\ cell'[m].up => cell[m].up
<1>1. cell[n] \in Cells /\ cell[n].here /\ n[1] = "job"
  BY DEF JobRuns, TypeOK
<1>2. \/ cell' = [cell EXCEPT ![n].ev = secret]
      \/ cell' = [cell EXCEPT ![n].up = FALSE]
  BY DEF JobRuns
<1>3. \A m \in Names : m # n => cell'[m] = cell[m]
  BY <1>2 DEF TypeOK
<1>4. /\ cell'[n].here = cell[n].here /\ cell'[n].token = cell[n].token
      /\ cell'[n].spec = cell[n].spec /\ (cell'[n].up => cell[n].up)
  <2>1. \/ cell'[n] = [cell[n] EXCEPT !.ev = secret]
        \/ cell'[n] = [cell[n] EXCEPT !.up = FALSE]
    BY <1>2 DEF TypeOK
  <2> QED
    BY <1>1, <2>1 DEF Cells
<1>5. NoNew
  BY StaleFields DEF JobRuns, NoNew
<1> QED
  BY <1>1, <1>3, <1>4, <1>5 DEF JobRuns, rest

LEMMA GoneCells ==
  ASSUME TypeOK, NamespaceGone
  PROVE  /\ UNCHANGED <<fence, undone>> /\ NoNew
         /\ \A n \in Names : cell'[n] = Absent
         /\ \A r \in wire : ~r.admitted
         /\ \A q \in wire' : ~q.fresh /\ ~q.admitted
         /\ \A c \in Calls : Unchanged(c) /\ ~call'[c].held
<1>1. \A s \in wire : LET q == [s EXCEPT !.fresh = FALSE]
                      IN  Same(q, s) /\ ~q.fresh /\ (q.admitted <=> s.admitted)
  BY DEF Same, TypeOK, Requests
<1>2. wire' = {[s EXCEPT !.fresh = FALSE] : s \in wire} /\ \A s \in wire : ~s.admitted
  BY DEF NamespaceGone
<1>3. NoNew /\ \A q \in wire' : ~q.fresh /\ ~q.admitted
  <2>1. ASSUME NEW q \in wire'
        PROVE  ~q.fresh /\ ~q.admitted /\ \E s \in wire : Same(q, s) /\ (q.admitted => s.admitted)
    <3>1. PICK s \in wire : q = [s EXCEPT !.fresh = FALSE]
      BY <1>2, <2>1
    <3> QED
      BY <1>1, <1>2, <3>1
  <2> QED
    BY <2>1 DEF NoNew
<1>4. \A c \in Calls : Unchanged(c) /\ ~call'[c].held
  BY UnheldFields DEF NamespaceGone, Unchanged
<1> QED
  BY <1>2, <1>3, <1>4 DEF NamespaceGone, rest

LEMMA AdmitWire ==
  ASSUME TypeOK, NEW r \in wire, Admit(r)
  PROVE  /\ UNCHANGED <<cell, dying, fence, undone, call>>
         /\ Admissible(r)
         /\ \A q \in wire' : \/ q \in wire
                             \/ q = [r EXCEPT !.admitted = TRUE] /\ Same(q, r)
                                /\ q.fresh = r.fresh
  BY DEF Admit, quiet, Same, TypeOK, Requests

LEMMA ClaimFields ==
  ASSUME TypeOK, CallInv, NEW c \in Calls, Claim(c), Newer(c)
  PROVE  /\ fence'.token = call[c].token /\ fence.token < fence'.token
         /\ fence'.op = call[c].order /\ fence'.phase = "CLAIMED"
         /\ UNCHANGED <<cell, dying, wire, undone>>
         /\ Others(c) /\ SameOrder(c) /\ call[c].pc = "claim" /\ call'[c].pc = "check"
         /\ call'[c].at = 1 /\ ~call'[c].held
<1>1. /\ fence'.token = call[c].token /\ fence.token < fence'.token
      /\ fence'.op = call[c].order /\ fence'.phase = "CLAIMED"
      /\ UNCHANGED <<cell, dying, wire, undone>>
      /\ call[c].pc = "claim" /\ call' = Moved(c, "check")
  BY DEF Claim, Newer
<1>2. call[c].at = 1 /\ ~call[c].held
  BY <1>1 DEF CallInv, CallOK
<1> QED
  BY <1>1, <1>2, MovedFields

\* An object of the current command is out of reach of every older request.
LEMMA CellStep == Base /\ CellInv /\ [Next]_vars => CellInv'
<1> SUFFICES ASSUME Base, CellInv, [Next]_vars PROVE CellInv'
  OBVIOUS
<1> USE DEF Base
<1>1. ASSUME NEW c \in Calls, Claim(c), Newer(c) PROVE CellInv'
  <2>1. fence.token < fence'.token /\ UNCHANGED <<cell, wire>>
    BY <1>1, ClaimFields
  <2>2. fence'.token \in Nat
    BY <1>1, ClaimFields, Numbers
  <2>3. \A r \in wire : r.name \in Names
    BY DEF TypeOK, Requests
  <2> QED
    BY <2>1, <2>2, <2>3, Numbers DEF CellInv
<1>2. ASSUME NEW c \in Calls, NEW q, Asks(c, q) PROVE CellInv'
  <2>1. UNCHANGED <<cell, fence>> /\ wire' = wire \cup {q} /\ q.from = fence.token
    BY <1>2 DEF Asks, Mine
  <2> QED
    BY <2>1, Numbers DEF CellInv
<1>3. ASSUME NEW r \in wire, Admit(r) PROVE CellInv'
  BY <1>3, AdmitWire DEF CellInv, Same
<1>4. ASSUME NEW r \in wire, Persist(r) PROVE CellInv'
  <2>1. /\ r.name \in Names /\ Fits(r) /\ fence' = fence
        /\ \A n \in Names : n # r.name => cell'[n] = cell[n]
        /\ cell'[r.name] = IF r.verb # "DELETE" THEN r.new
                           ELSE IF r.name = Ns THEN cell[r.name] ELSE Absent
        /\ \A q \in wire' : \E s \in wire \ {r} : Same(q, s) /\ (q.fresh => s.name # r.name)
    BY <1>4, PersistCells
  <2>2. Absent.token = 0 /\ ~Absent.here
    BY DEF Absent
  <2>3. r.verb # "DELETE" => r.new.here /\ r.new.token <= fence.token
    BY DEF RequestInv
  <2>4. \A n \in Names : cell'[n].token <= fence'.token /\ (cell'[n].here \/ cell'[n] = Absent)
    BY <2>1, <2>2, <2>3, Numbers DEF CellInv
  <2>5. \A n \in Names : cell'[n].here => cell'[Ns].here
    <3>1. ASSUME NEW n \in Names, cell'[n].here PROVE cell'[Ns].here
      <4>1. CASE r.name = Ns
        BY <2>1, <2>3, <3>1, <4>1, NamesDiffer DEF CellInv
      <4>2. CASE r.name # Ns
        <5>1. cell'[Ns] = cell[Ns]
          BY <2>1, <4>2, NamesDiffer
        <5>2. CASE n # r.name
          BY <2>1, <3>1, <5>1, <5>2 DEF CellInv
        <5>3. CASE n = r.name
          BY <2>1, <2>2, <3>1, <4>2, <5>1, <5>3 DEF Fits, CellInv
        <5> QED
          BY <5>2, <5>3
      <4> QED
        BY <4>1, <4>2
    <3> QED
      BY <3>1
  <2>6. ASSUME NEW q \in wire', q.from < fence'.token, cell'[q.name].token = fence'.token PROVE ~q.fresh
    <3>1. PICK s \in wire \ {r} : Same(q, s) /\ (q.fresh => s.name # r.name)
      BY <2>1, <2>6
    <3>2. s.name \in Names
      BY DEF TypeOK, Requests
    <3> QED
      BY <2>1, <2>6, <3>1, <3>2 DEF Same, CellInv
  <2> QED
    BY <2>4, <2>5, <2>6 DEF CellInv
<1>5. ASSUME NEW n \in Names, JobRuns(n) PROVE CellInv'
  <2>1. /\ UNCHANGED fence /\ NoNew /\ cell[n].here
        /\ \A m \in Names : /\ m # n => cell'[m] = cell[m]
                            /\ cell'[m].here = cell[m].here /\ cell'[m].token = cell[m].token
    BY <1>5, JobCells
  <2>2. \A r \in wire : r.name \in Names
    BY DEF TypeOK, Requests
  <2>3. ASSUME NEW q \in wire', q.from < fence'.token, cell'[q.name].token = fence'.token PROVE ~q.fresh
    <3>1. PICK s \in wire : Same(q, s)
      BY <2>1, <2>3 DEF NoNew
    <3> QED
      BY <2>1, <2>2, <2>3, <3>1 DEF Same, CellInv
  <2> QED
    BY <2>1, <2>3, NamesDiffer DEF CellInv
<1>6. CASE NamespaceGone
  <2>1. fence' = fence /\ \A n \in Names : cell'[n] = Absent
    BY <1>6, GoneCells
  <2>2. \A q \in wire' : ~q.fresh
    BY <1>6, GoneCells
  <2>3. Absent.token = 0 /\ ~Absent.here
    BY DEF Absent
  <2> QED
    BY <2>1, <2>2, <2>3, NamesDiffer, Numbers DEF CellInv
<1>7. CASE Settles
  <2>1. UNCHANGED cell /\ fence'.token = fence.token /\ NoNew
    BY <1>7 DEF Settles
  <2>2. ASSUME NEW q \in wire', q.from < fence'.token, cell'[q.name].token = fence'.token PROVE ~q.fresh
    BY <2>1, <2>2 DEF CellInv, NoNew, Same
  <2> QED
    BY <2>1, <2>2 DEF CellInv
<1> QED
  BY <1>1, <1>2, <1>3, <1>4, <1>5, <1>6, <1>7, Kinds

\* A deletion of the namespace is computed from it as its command wrote it.
LEMMA DeletionStep == Base /\ DeletionInv /\ [Next]_vars => DeletionInv'
<1> SUFFICES ASSUME Base, DeletionInv, [Next]_vars PROVE DeletionInv'
  OBVIOUS
<1> USE DEF Base
<1>0. Ns \in Names /\ cell[Ns].token \in Nat
  BY NamesDiffer, Numbers
<1>1. ASSUME NEW c \in Calls, Claim(c), Newer(c) PROVE DeletionInv'
  BY <1>1, ClaimFields DEF DeletionInv, Others
<1>2. ASSUME NEW c \in Calls, NEW q, Asks(c, q) PROVE DeletionInv'
  <2>1. /\ UNCHANGED cell /\ wire' = wire \cup {q} /\ q.from = call[c].token /\ Others(c) /\ SameOrder(c)
        /\ ~q.admitted /\ call'[c].held = call[c].held
        /\ call[c].pc = "check" \/ call'[c].pc = "unwait"
        /\ q.verb = "DELETE" /\ q.name = Ns /\ q.fresh =>
             \/ cell[Ns].token <= call[c].token
             \/ call[c].held /\ call[c].pc \in Working
    BY <1>2 DEF Asks
  <2>2. \A d \in Calls : d = c \/ call'[d] = call[d]
    BY <2>1 DEF Others
  <2>3. \A d \in Calls : call'[d].pc \in Working /\ call'[d].held => cell[Ns].token <= call'[d].token
    BY <2>1, <2>2 DEF DeletionInv, SameOrder, Working
  <2> QED
    BY <2>1, <2>3 DEF DeletionInv
<1>3. ASSUME NEW r \in wire, Admit(r) PROVE DeletionInv'
  <2>1. UNCHANGED <<cell, call>> /\ Admissible(r)
    BY <1>3, AdmitWire
  <2>2. ASSUME NEW q \in wire', q.verb = "DELETE", q.name = Ns, q.fresh
        PROVE  cell[Ns].token <= q.from /\ (q.admitted => cell[Ns].token = q.from)
    <3>1. CASE q \in wire
      BY <2>2, <3>1 DEF DeletionInv
    <3>2. CASE Same(q, r) /\ q.fresh = r.fresh
      <4>1. r.verb = "DELETE" /\ r.name = Ns /\ r.fresh /\ q.from = r.from
        BY <2>2, <3>2 DEF Same
      <4>2. ~Exempt(r)
        BY <4>1 DEF Exempt, Ns
      <4>3. cell[Ns].token = fence.token
        BY <2>1, <4>1, <4>2 DEF Admissible, CommandMatches
      <4>4. cell[Ns].token <= r.from /\ r.from <= fence.token /\ r.from \in Nat
        BY <4>1, Numbers DEF DeletionInv, RequestInv
      <4> QED
        BY <1>0, <4>1, <4>3, <4>4
    <3> QED
      BY <1>3, <3>1, <3>2, AdmitWire
  <2> QED
    BY <2>1, <2>2 DEF DeletionInv
<1>4. ASSUME NEW r \in wire, Persist(r) PROVE DeletionInv'
  <2>1. /\ r.name \in Names /\ fence' = fence
        /\ \A n \in Names : n # r.name => cell'[n] = cell[n]
        /\ cell'[r.name] = IF r.verb # "DELETE" THEN r.new
                           ELSE IF r.name = Ns THEN cell[r.name] ELSE Absent
        /\ \A q \in wire' : \E s \in wire \ {r} : Same(q, s) /\ (q.admitted <=> s.admitted)
                                                 /\ (q.fresh => s.name # r.name)
    BY <1>4, PersistCells
  <2>2. ASSUME NEW q \in wire', q.verb = "DELETE", q.name = Ns, q.fresh
        PROVE  cell'[Ns].token <= q.from /\ (q.admitted => cell'[Ns].token = q.from)
    <3>1. PICK s \in wire \ {r} : Same(q, s) /\ (q.admitted <=> s.admitted) /\ (q.fresh => s.name # r.name)
      BY <2>1, <2>2
    <3>2. s.name = Ns /\ r.name # Ns /\ s.verb = "DELETE" /\ s.fresh /\ s.from = q.from
      BY <2>2, <3>1 DEF Same
    <3>3. cell'[Ns] = cell[Ns]
      BY <1>0, <2>1, <3>2
    <3> QED
      BY <3>1, <3>2, <3>3 DEF DeletionInv
  <2>3. ASSUME NEW d \in Calls, call'[d].pc \in Working, call'[d].held
        PROVE  cell'[Ns].token <= call'[d].token
    <3>1. CASE d # r.by
      <4>1. Unchanged(d) /\ r.name # Ns
        BY <1>4, <2>3, <3>1, PersistFields
      <4>2. cell'[Ns] = cell[Ns]
        BY <1>0, <2>1, <4>1
      <4> QED
        BY <2>3, <4>1, <4>2 DEF DeletionInv, Unchanged
    <3>2. CASE d = r.by
      <4>1. call[d].pc = "wait" /\ r.from = call[d].token /\ Asked(r, d)
        BY <1>4, <2>3, <3>2, PersistFields DEF RequestInv, Working
      <4>2. SameOrder(d) /\ Step(d).do = "sync"
        BY <1>4, <2>3, <3>2, <4>1, PersistFields
      <4>3. r.verb = "PUT" /\ r.name = Ns
        BY <4>1, <4>2 DEF Asked
      <4>4. cell'[Ns] = r.new /\ r.new.token = r.from
        BY <2>1, <4>3 DEF RequestInv
      <4> QED
        BY <4>1, <4>2, <4>4, Numbers DEF SameOrder
    <3> QED
      BY <3>1, <3>2
  <2> QED
    BY <2>2, <2>3 DEF DeletionInv
<1>5. ASSUME NEW n \in Names, JobRuns(n) PROVE DeletionInv'
  <2>1. cell'[Ns].token = cell[Ns].token /\ UNCHANGED call
    BY <1>0, <1>5, JobCells
  <2>2. \A q \in wire' : \E s \in wire : Same(q, s) /\ (q.admitted => s.admitted)
    BY <1>5, JobCells DEF NoNew
  <2> QED
    BY <2>1, <2>2 DEF DeletionInv, Same
<1>6. CASE NamespaceGone
  BY <1>0, <1>6, GoneCells DEF DeletionInv
<1>7. CASE Settles
  <2>1. UNCHANGED cell /\ NoNew /\ \A d \in Calls : Goes(d)
    BY <1>7 DEF Settles
  <2>2. \A q \in wire' : \E s \in wire : Same(q, s) /\ (q.admitted => s.admitted)
    BY <2>1 DEF NoNew
  <2> QED
    BY <2>1, <2>2 DEF DeletionInv, Same, Goes
<1> QED
  BY <1>1, <1>2, <1>3, <1>4, <1>5, <1>6, <1>7, Kinds

-----------------------------------------------------------------------------
(* The current command                                                     *)

\* One call at most works on the current command, and what that command has on the
\* wire is what this call waits for.
LEMMA Holder ==
  ASSUME Base, NEW c \in Calls, Holds(c)
  PROVE  /\ Kept /\ fence.token > 0 /\ fence.phase = "CLAIMED"
         /\ call[c].order = fence.op /\ fence.op \in Orders
         /\ \A d \in Calls : call[d].token = fence.token => d = c
         /\ \A r \in wire : r.from = fence.token => r.by = c /\ call[c].pc = "wait"
<1> USE DEF Base
<1>1. call[c].token > 0 /\ call[c].order \in Orders
  BY DEF CallInv, CallOK, Holds, Active
<1>2. call[c].pc \in Engaged /\ call[c].pc \notin Undoing
  BY DEF Holds, Active, Engaged, Working, Undoing
<1>3. call[c].token = fence.token
  BY DEF Holds
<1>4. /\ Kept /\ fence.phase = "CLAIMED" /\ call[c].order = fence.op
      /\ \A d \in Calls : call[d].token = fence.token => d = c
  BY <1>1, <1>2, <1>3 DEF TokenInv, Kept
<1>5. ASSUME NEW r \in wire, r.from = fence.token
      PROVE  r.by = c /\ call[c].pc = "wait"
  <2>1. r.by \in Calls \cup {Nobody}
    BY DEF TypeOK, Requests
  <2>2. r.by # Nobody
    BY <1>3, <1>4, <1>5 DEF RequestInv, Kept
  <2>3. r.by = c /\ call[c].pc \in {"wait", "unwait"}
    BY <1>4, <1>5, <2>1, <2>2 DEF RequestInv
  <2> QED
    BY <2>3 DEF Holds, Active
<1> QED
  BY <1>1, <1>3, <1>4, <1>5

\* The caller of a request of a command that was not undone works on it.
LEMMA Caller ==
  ASSUME Base, Kept, NEW r \in wire, r.from = fence.token, r.by \in Calls
  PROVE  Holds(r.by) /\ call[r.by].pc = "wait"
<1>1. call[r.by].pc \in {"wait", "unwait"} /\ call[r.by].token = fence.token /\ fence.token > 0
  BY DEF Base, RequestInv
<1>2. call[r.by].pc # "unwait"
  BY <1>1 DEF Base, TokenInv, Kept, Undoing
<1> QED
  BY <1>1, <1>2 DEF Holds, Active

\* Where a lasting plan writes what.
LEMMA LastingSteps ==
  ASSUME NEW i \in Orders, i \in Lasting, NEW k \in 1..Len(Plan(i))
  PROVE  /\ k = 1 => Plan(i)[k].do = "put" /\ Plan(i)[k].name = Ns
         /\ Plan(i)[k].name = Ns /\ Plan(i)[k].do \in {"put", "quiesce"} => k = 1
         /\ Plan(i)[k].do \notin {"sync", "erase"}
         /\ \A j \in 1..Len(Plan(i)) :
              /\ j < k /\ Plan(i)[j].do = "put" /\ Plan(i)[k].do \in {"put", "quiesce"}
              => Plan(i)[j].name # Plan(i)[k].name
<1>1. CASE i \notin Migrating
  <2>1. /\ Len(Plan(i)) = 2
        /\ Plan(i)[1].do = "put" /\ Plan(i)[1].name = Ns
        /\ Plan(i)[2].do = "put" /\ Plan(i)[2].name = Run
    BY <1>1, ShortPlan
  <2>2. \A j \in 1..2 : j = 1 \/ j = 2
    OBVIOUS
  <2> QED
    BY <2>1, <2>2, NamesDiffer
<1>2. CASE i \in Migrating
  <2>1. \A j \in 1..9 : \/ j = 1 \/ j = 2 \/ j = 3 \/ j = 4 \/ j = 5
                        \/ j = 6 \/ j = 7 \/ j = 8 \/ j = 9
    OBVIOUS
  <2>2. Len(Plan(i)) = 9
    BY <1>2, LongPlan
  <2>3. \A j \in 1..9 : /\ Plan(i)[j].do = "put" => j \in {1, 5, 8, 9}
                        /\ Plan(i)[j].do \in {"put", "quiesce"} => j \in {1, 2, 5, 8, 9}
                        /\ Plan(i)[j].do \notin {"sync", "erase"}
    BY <1>2, <2>1, LongPlan
  <2>4. /\ Plan(i)[1].do = "put" /\ Plan(i)[1].name = Ns /\ Plan(i)[2].name = Run
        /\ Plan(i)[5].name = Job(i) /\ Plan(i)[8].name = Ready /\ Plan(i)[9].name = Run
    BY <1>2, LongPlan
  <2>5. /\ Ns # Run /\ Ns # Ready /\ Ns # Job(i)
        /\ Job(i) # Ready /\ Job(i) # Run /\ Ready # Run
    BY <1>2, NamesDiffer
  <2>6. ASSUME NEW j \in 1..9, NEW m \in 1..9, j < m,
               Plan(i)[j].do = "put", Plan(i)[m].do \in {"put", "quiesce"}
        PROVE  Plan(i)[j].name # Plan(i)[m].name
    <3>1. j \in {1, 5, 8, 9} /\ m \in {1, 2, 5, 8, 9}
      BY <2>3, <2>6
    <3>2. CASE j = 1
      BY <2>4, <2>5, <2>6, <3>1, <3>2
    <3>3. CASE j = 5
      BY <2>4, <2>5, <2>6, <3>1, <3>3
    <3>4. CASE j = 8 \/ j = 9
      BY <2>4, <2>5, <2>6, <3>1, <3>4
    <3> QED
      BY <3>1, <3>2, <3>3, <3>4
  <2>7. Plan(i)[k].name = Ns /\ Plan(i)[k].do \in {"put", "quiesce"} => k = 1
    BY <2>2, <2>3, <2>4, <2>5
  <2> QED
    BY <2>2, <2>3, <2>4, <2>6, <2>7
<1> QED
  BY <1>1, <1>2

\* An object is written by some step.
LEMMA WrittenSteps ==
  ASSUME NEW i \in Orders, i \in Lasting, NEW n \in Written(i)
  PROVE  \E k \in 1..Len(Plan(i)) : Plan(i)[k].do = "put" /\ Plan(i)[k].name = n
<1>1. PICK k \in DOMAIN Plan(i) : n = Plan(i)[k].name
  BY DEF Written
<1>2. CASE i \notin Migrating
  <2>1. Plan(i) = <<[do |-> "put", name |-> Ns], [do |-> "put", name |-> Run]>>
    BY <1>2, PlanSteps DEF Plan, Put
  <2>2. k \in {1, 2}
    BY <1>1, <2>1
  <2> QED
    BY <1>1, <1>2, <2>2, ShortPlan
<1>3. CASE i \in Migrating
  <2>1. Plan(i) = <<[do |-> "put", name |-> Ns], [do |-> "quiesce", name |-> Run],
                    [do |-> "drain", name |-> Ns], [do |-> "secret", name |-> Ns],
                    [do |-> "put", name |-> Job(i)], [do |-> "migrate", name |-> Ns],
                    [do |-> "verify", name |-> Ns], [do |-> "put", name |-> Ready],
                    [do |-> "put", name |-> Run]>>
    BY <1>3, PlanSteps DEF Plan, Put, Wait
  <2>2. k \in 1..9
    BY <1>1, <2>1
  <2>3. \/ k = 1 \/ k = 2 \/ k = 3 \/ k = 4 \/ k = 5
        \/ k = 6 \/ k = 7 \/ k = 8 \/ k = 9
    BY <2>2
  <2>4. n \in {Ns, Run, Job(i), Ready}
    BY <1>1, <1>3, <2>3, LongPlan
  <2>5. /\ Plan(i)[1].do = "put" /\ Plan(i)[1].name = Ns
        /\ Plan(i)[5].do = "put" /\ Plan(i)[5].name = Job(i)
        /\ Plan(i)[8].do = "put" /\ Plan(i)[8].name = Ready
        /\ Plan(i)[9].do = "put" /\ Plan(i)[9].name = Run
        /\ Len(Plan(i)) = 9
    BY <1>3, LongPlan
  <2> QED
    BY <2>4, <2>5
<1> QED
  BY <1>2, <1>3

\* A request of an earlier command does not reach an object of the current one ...
LEMMA OwnedStays ==
  ASSUME Base, CellInv, NEW r \in wire, Persist(r), NEW n \in Names, Owned(n),
         r.from # fence.token \/ r.name # n
  PROVE  cell'[n] = cell[n] /\ Owned(n)'
<1>1. /\ fence' = fence /\ Fits(r) /\ \A m \in Names : m # r.name => cell'[m] = cell[m]
  BY PersistCells DEF Base
<1>2. CASE r.name # n
  BY <1>1, <1>2 DEF Owned
<1>3. CASE r.name = n
  <2>1. r.from < fence.token
    BY <1>3, Numbers DEF Base, RequestInv
  <2>2. ~r.fresh
    BY <1>3, <2>1 DEF CellInv, Owned
  <2> QED
    BY <1>1, <1>3, <2>2 DEF Fits, Owned
<1> QED
  BY <1>2, <1>3

\* ... and once the command wrote the namespace, a namespace that ended does not
\* come back.
LEMMA NamespaceStays ==
  ASSUME Base, NamespaceInv, Kept, fence.op \in Lasting, Begun,
         NEW r \in wire, Persist(r), cell'[Ns].here
  PROVE  cell[Ns].here
<1>1. SUFFICES ASSUME ~cell[Ns].here PROVE FALSE
  OBVIOUS
<1>2. /\ r.admitted /\ Fits(r) /\ \A m \in Names : m # r.name => cell'[m] = cell[m]
  BY PersistCells DEF Base
<1>3. r.name = Ns
  BY <1>1, <1>2, NamesDiffer
<1>4. Creates(r)
  BY <1>1, <1>2, <1>3 DEF Fits, Creates
<1> QED
  BY <1>1, <1>2, <1>4 DEF NamespaceInv

LEMMA NamespaceKept ==
  ASSUME Base, NEW r \in wire, Persist(r), cell[Ns].here
  PROVE  cell'[Ns].here
  BY PersistCells, NamesDiffer DEF Base, RequestInv

\* What persisting a request does to the call that works on the command: it moves
\* past the write, if it is its own.
LEMMA PersistStage ==
  ASSUME Base, NEW r \in wire, Persist(r), NEW c \in Calls, Holds(c)'
  PROVE  /\ Holds(c) /\ call'[c].proof = call[c].proof
         /\ IF r.by = c
            THEN /\ call[c].pc = "wait" /\ r.from = fence.token /\ Asked(r, c)
                 /\ call[c].at \in 1..Len(Plan(fence.op)) /\ Step(c) = Plan(fence.op)[call[c].at]
                 /\ Step(c).do \in {"put", "quiesce", "sync", "erase"}
                 /\ Stage(c) = call[c].at - 1 /\ Stage(c)' = call[c].at
            ELSE Stage(c)' = Stage(c) /\ r.from # fence.token
<1> USE DEF Base
<1>1. fence' = fence
  BY PersistCells
<1>2. CASE r.by # c
  <2>1. Unchanged(c)
    BY <1>2, PersistFields
  <2>2. Holds(c) /\ Stage(c)' = Stage(c)
    BY <1>1, <2>1 DEF Unchanged, Holds, Stage
  <2>3. r.from # fence.token
    BY <1>2, <2>2, Holder
  <2> QED
    BY <1>2, <2>1, <2>2, <2>3 DEF Unchanged
<1>3. CASE r.by = c
  <2>1. SameOrder(c) /\ call'[c].at = call[c].at
    BY <1>3, PersistFields
  <2>2. call[c].pc = "wait" /\ r.from = call[c].token /\ Asked(r, c)
    BY <1>3, PersistFields DEF RequestInv, Holds, Active
  <2>3. call'[c].pc = "confirm" /\ call'[c].proof = call[c].proof
    BY <1>3, <2>2, PersistFields
  <2>4. Holds(c) /\ call[c].token = fence.token
    BY <1>1, <2>1, <2>2 DEF Holds, SameOrder, Active
  <2>5. call[c].order = fence.op /\ fence.op \in Orders
    BY <2>4, Holder
  <2>6. ~Finished(c) /\ Step(c).do \in {"put", "quiesce", "sync", "erase"}
    BY <2>2 DEF CallInv, CallOK
  <2>7. call[c].at \in 1..Len(Plan(fence.op))
    BY <2>5, <2>6, StepName
  <2>8. Stage(c) = call[c].at - 1 /\ Stage(c)' = call[c].at
    BY <2>1, <2>2, <2>3 DEF Stage
  <2> QED
    BY <1>3, <2>2, <2>3, <2>4, <2>5, <2>6, <2>7, <2>8 DEF Step
<1> QED
  BY <1>2, <1>3

\* The call that works on the command is at a step of the command's plan.
LEMMA HolderStep ==
  ASSUME Base, NEW c \in Calls, Holds(c), ~Finished(c)
  PROVE  /\ call[c].at \in 1..Len(Plan(fence.op)) /\ Step(c) = Plan(fence.op)[call[c].at]
         /\ call[c].pc = "check" => Stage(c) = call[c].at - 1
<1>1. call[c].order = fence.op /\ fence.op \in Orders
  BY Holder
<1>2. call[c].at \in 1..Len(Plan(fence.op))
  BY <1>1, StepName DEF Base
<1> QED
  BY <1>1, <1>2 DEF Step, Stage

\* Nothing can be asked for by a call of the current command but what its plan says,
\* as long as the command was not undone.
LEMMA AsksStep ==
  ASSUME Base, Kept, fence.op \in Lasting, NEW c \in Calls, NEW q, Asks(c, q)
  PROVE  /\ Holds(c) /\ call[c].pc = "check" /\ ~Finished(c) /\ Asked(q, c)
         /\ q.from = fence.token /\ Stage(c)' = Stage(c) /\ Stage(c) = call[c].at - 1
         /\ call[c].at \in 1..Len(Plan(fence.op)) /\ Step(c) = Plan(fence.op)[call[c].at]
         /\ Step(c).do \in {"put", "quiesce"} /\ q.name = Step(c).name /\ q.verb # "DELETE"
         /\ \A r \in wire : r.from # fence.token
<1>1. call[c].token = fence.token /\ q.from = fence.token
  BY DEF Asks, Mine
<1>2. call[c].pc # "undo"
  <2>1. SUFFICES ASSUME call[c].pc = "undo" PROVE FALSE
    OBVIOUS
  <2>2. call[c].token > 0
    BY <2>1 DEF Base, CallInv, CallOK
  <2> QED
    BY <1>1, <2>1, <2>2 DEF Base, TokenInv, Kept, Undoing
<1>3. /\ call[c].pc = "check" /\ Asked(q, c) /\ ~Finished(c) /\ Stage(c)' = Stage(c)
      /\ Step(c).do \in {"put", "quiesce", "sync", "erase"}
  BY <1>2 DEF Asks
<1>4. Holds(c)
  BY <1>1, <1>3 DEF Holds, Active
<1>5. /\ call[c].at \in 1..Len(Plan(fence.op)) /\ Step(c) = Plan(fence.op)[call[c].at]
      /\ Stage(c) = call[c].at - 1
  BY <1>3, <1>4, HolderStep
<1>6. fence.op \in Orders
  BY DEF Lasting, Orders
<1>7. Step(c).do \in {"put", "quiesce"}
  BY <1>3, <1>5, <1>6, LastingSteps
<1>8. \A r \in wire : r.from # fence.token
  BY <1>3, <1>4, Holder
<1> QED
  BY <1>1, <1>3, <1>4, <1>5, <1>7, <1>8 DEF Asked

\* A call that works on a lasting command passes no write.
LEMMA GoesStep ==
  ASSUME Base, fence.op \in Lasting, NEW c \in Calls, Goes(c), Holds(c)',
         fence'.token = fence.token
  PROVE  /\ Holds(c)
         /\ \/ Stage(c)' = Stage(c) /\ call'[c].proof = call[c].proof
            \/ /\ Passes(c) /\ Stage(c) >= 1 /\ Stage(c)' = Stage(c) + 1
               /\ call[c].at \in 1..Len(Plan(fence.op)) /\ Step(c) = Plan(fence.op)[call[c].at]
               /\ Stage(c) = call[c].at - 1
<1>1. Holds(c) /\ (Steady(c) \/ Passes(c) \/ call[c].order \in Deletes)
  BY DEF Goes
<1>2. call[c].order = fence.op /\ fence.op \in Orders /\ fence.op \notin Deletes
  BY <1>1, Holder DEF Lasting
<1>3. CASE Passes(c)
  <2>1. call[c].pc = "check" /\ ~Finished(c) /\ Step(c).do # "put" /\ Stage(c)' = Stage(c) + 1
    BY <1>3 DEF Passes
  <2>2. /\ call[c].at \in 1..Len(Plan(fence.op)) /\ Step(c) = Plan(fence.op)[call[c].at]
        /\ Stage(c) = call[c].at - 1
    BY <1>1, <2>1, HolderStep
  <2>3. call[c].at # 1
    BY <1>2, <2>1, <2>2, LastingSteps
  <2> QED
    BY <1>1, <1>3, <2>1, <2>2, <2>3
<1> QED
  BY <1>1, <1>2, <1>3 DEF Steady

\* Once its first write was answered, no command creates the namespace again.
LEMMA NamespaceStep == Base /\ NamespaceInv /\ [Next]_vars => NamespaceInv'
<1> SUFFICES ASSUME Base, NamespaceInv, [Next]_vars, Kept', fence'.op \in Lasting, Begun',
                    NEW q \in wire', Creates(q)
             PROVE  q.from # fence'.token /\ (~cell'[Ns].here => ~q.admitted)
  BY DEF NamespaceInv, Creates
<1>0. Ns \in Names
  BY NamesDiffer
<1>1. ASSUME NEW c \in Calls, Claim(c), Newer(c) PROVE FALSE
  <2>1. /\ fence'.token = call[c].token /\ fence.token < fence'.token /\ fence'.phase = "CLAIMED"
        /\ wire' = wire /\ Others(c) /\ SameOrder(c) /\ call[c].pc = "claim" /\ call'[c].pc = "check"
        /\ call'[c].at = 1
    BY <1>1, ClaimFields DEF Base
  <2>2. \A r \in wire : r.from # fence'.token
    BY <2>1, Numbers DEF Base, RequestInv
  <2>3. call[c].token > 0
    BY <2>1 DEF Base, CallInv, CallOK
  <2>4. ASSUME NEW d \in Calls, Holds(d)', Stage(d)' >= 1 PROVE FALSE
    <3>1. call'[d].token = call[c].token
      BY <2>1, <2>4 DEF Holds
    <3>2. d = c
      BY <2>1, <2>3, <3>1 DEF Others, SameOrder, Base, TokenInv
    <3> QED
      BY <2>1, <2>4, <3>2 DEF Stage
  <2> QED
    BY <2>1, <2>2, <2>4 DEF Begun
<1>2. ASSUME NEW c \in Calls, NEW p, Asks(c, p)
      PROVE  q.from # fence'.token /\ (~cell'[Ns].here => ~q.admitted)
  <2>1. UNCHANGED <<cell, fence, undone>> /\ wire' = wire \cup {p} /\ Others(c) /\ SameOrder(c)
    BY <1>2 DEF Asks
  <2>2. Kept /\ fence.op \in Lasting
    BY <2>1 DEF Kept
  <2>3. /\ Holds(c) /\ call[c].pc = "check" /\ p.name = Step(c).name /\ Step(c).do \in {"put", "quiesce"}
        /\ Stage(c)' = Stage(c) /\ Stage(c) = call[c].at - 1
        /\ call[c].at \in 1..Len(Plan(fence.op)) /\ Step(c) = Plan(fence.op)[call[c].at]
        /\ \A r \in wire : r.from # fence.token
    BY <1>2, <2>2, AsksStep
  <2>4. fence.op \in Orders
    BY <2>2 DEF Lasting, Orders
  <2>5. p.name = Ns <=> call[c].at = 1
    BY <2>2, <2>3, <2>4, LastingSteps
  <2>6. fence.phase = "CLAIMED" /\ \A d \in Calls : Holds(d) => d = c
    BY <2>3, Holder DEF Base, Holds
  <2>7. \A d \in Calls : Holds(d)' /\ Stage(d)' >= 1 => Stage(c) >= 1
    <3>1. ASSUME NEW d \in Calls, Holds(d)', Stage(d)' >= 1 PROVE Stage(c) >= 1
      <4>1. CASE d = c
        BY <2>3, <3>1, <4>1
      <4>2. CASE d # c
        <5>1. Holds(d)
          BY <2>1, <3>1, <4>2 DEF Others, Holds
        <5> QED
          BY <2>6, <4>2, <5>1
      <4> QED
        BY <4>1, <4>2
    <3> QED
      BY <3>1
  <2>8. Stage(c) >= 1
    <3>1. \/ \E d \in Calls : Holds(d)' /\ Stage(d)' >= 1
          \/ \E r \in wire' : r.from = fence.token /\ r.name # Ns
      BY <2>1, <2>6 DEF Begun
    <3>2. CASE \E r \in wire' : r.from = fence.token /\ r.name # Ns
      <4>1. p.name # Ns
        BY <2>1, <2>3, <3>2
      <4> QED
        BY <2>3, <2>5, <4>1
    <3> QED
      BY <2>7, <3>1, <3>2
  <2>9. q \in wire
    BY <2>1, <2>3, <2>5, <2>8 DEF Creates
  <2> QED
    BY <2>1, <2>2, <2>3, <2>8, <2>9 DEF NamespaceInv, Begun
<1>3. ASSUME NEW r \in wire, Admit(r)
      PROVE  q.from # fence'.token /\ (~cell'[Ns].here => ~q.admitted)
  <2>1. /\ UNCHANGED <<cell, fence, undone, call>> /\ Admissible(r)
        /\ \A p \in wire' : p \in wire \/ Same(p, r)
    BY <1>3, AdmitWire DEF Base
  <2>2. Begun /\ Kept /\ fence.op \in Lasting
    BY <2>1 DEF Begun, Holds, Stage, Same, Kept
  <2>3. CASE q \in wire
    BY <2>1, <2>2, <2>3 DEF NamespaceInv
  <2>4. CASE Same(q, r)
    <3>1. Creates(r) /\ r.from # fence.token
      BY <2>2, <2>4 DEF Same, Creates, NamespaceInv
    <3>2. r.new.token = r.from
      BY <3>1 DEF Creates, Base, RequestInv
    <3>3. FALSE
      BY <2>1, <3>1, <3>2 DEF Admissible, Exempt, CommandMatches, Creates
    <3> QED
      BY <3>3
  <2> QED
    BY <2>1, <2>3, <2>4
<1>4. ASSUME NEW r \in wire, Persist(r)
      PROVE  q.from # fence'.token /\ (~cell'[Ns].here => ~q.admitted)
  <2>1. /\ UNCHANGED <<fence, undone>>
        /\ \A p \in wire' : \E s \in wire \ {r} : Same(p, s) /\ (p.admitted <=> s.admitted)
        /\ cell'[r.name] = IF r.verb # "DELETE" THEN r.new
                           ELSE IF r.name = Ns THEN cell[r.name] ELSE Absent
    BY <1>4, PersistCells DEF Base
  <2>2. Kept /\ fence.op \in Lasting /\ fence.op \in Orders
    BY <2>1 DEF Kept, Lasting, Orders
  <2>3. PICK s \in wire \ {r} : Same(q, s) /\ (q.admitted <=> s.admitted)
    BY <2>1
  <2>4. CASE Begun
    BY <1>4, <2>1, <2>2, <2>3, <2>4, NamespaceKept DEF NamespaceInv, Same, Creates
  <2>5. CASE ~Begun
    <3>1. PICK c \in Calls : Holds(c)' /\ Stage(c)' >= 1
      BY <2>1, <2>5 DEF Begun, Same
    <3>2. Holds(c)
      BY <1>4, <3>1, PersistStage
    <3>3. r.by = c
      BY <1>4, <2>5, <3>1, <3>2, PersistStage DEF Begun
    <3>4. /\ r.from = fence.token /\ Asked(r, c)
          /\ call[c].at \in 1..Len(Plan(fence.op)) /\ Step(c) = Plan(fence.op)[call[c].at]
          /\ Stage(c) = call[c].at - 1
      BY <1>4, <3>1, <3>3, PersistStage
    <3>5. call[c].at = 1
      BY <2>5, <3>2, <3>4 DEF Begun
    <3>6. r.name = Ns /\ r.verb # "DELETE"
      BY <2>2, <3>4, <3>5, LastingSteps DEF Asked
    <3>7. cell'[Ns].here
      BY <2>1, <3>6 DEF Base, RequestInv
    <3>8. s.from # fence.token
      BY <2>2, <2>3, <3>4 DEF Base, RequestInv, Kept
    <3> QED
      BY <2>1, <2>3, <3>7, <3>8 DEF Same
  <2> QED
    BY <2>4, <2>5
<1>5. ASSUME NEW n \in Names, JobRuns(n)
      PROVE  q.from # fence'.token /\ (~cell'[Ns].here => ~q.admitted)
  <2>1. UNCHANGED <<fence, undone, call>> /\ NoNew /\ cell'[Ns].here = cell[Ns].here
    BY <1>0, <1>5, JobCells DEF Base
  <2>2. Begun /\ Kept /\ fence.op \in Lasting
    BY <2>1 DEF Begun, Holds, Stage, NoNew, Same, Kept
  <2> QED
    BY <2>1, <2>2 DEF NamespaceInv, NoNew, Same, Creates
<1>6. CASE NamespaceGone
  <2>1. /\ UNCHANGED <<fence, undone>> /\ NoNew /\ ~q.admitted
        /\ \A c \in Calls : Unchanged(c)
    BY <1>6, GoneCells DEF Base
  <2>2. Begun /\ Kept /\ fence.op \in Lasting
    BY <2>1 DEF Begun, Holds, Stage, NoNew, Same, Kept, Unchanged
  <2> QED
    BY <2>1, <2>2 DEF NamespaceInv, NoNew, Same, Creates
<1>7. CASE Settles
  <2>1. /\ UNCHANGED cell /\ NoNew /\ fence'.token = fence.token /\ fence'.op = fence.op
        /\ undone \subseteq undone' /\ \A c \in Calls : Goes(c)
        /\ fence'.phase = "APPLIED" /\ fence.token \notin undone' =>
              \/ fence.phase = "APPLIED"
              \/ \E c \in Calls : Holds(c) /\ call[c].pc = "check" /\ Finished(c)
    BY <1>7 DEF Settles
  <2>2. Kept /\ fence.op \in Lasting /\ fence.token \notin undone'
    BY <2>1 DEF Kept
  <2>3. ASSUME NEW c \in Calls, Holds(c), call[c].pc = "check", Finished(c) PROVE Stage(c) >= 1
    BY <2>3, Holder, PlanSteps, Numbers DEF Stage, Finished, Base
  <2>4. ASSUME NEW c \in Calls, Holds(c)', Stage(c)' >= 1 PROVE Holds(c) /\ Stage(c) >= 1
    BY <2>1, <2>2, <2>4, GoesStep
  <2>5. Begun
    BY <2>1, <2>2, <2>3, <2>4 DEF Begun, NoNew, Same
  <2> QED
    BY <2>1, <2>2, <2>5 DEF NamespaceInv, NoNew, Same, Creates
<1> QED
  BY <1>1, <1>2, <1>3, <1>4, <1>5, <1>6, <1>7, Kinds

-----------------------------------------------------------------------------
(* What the current command wrote                                          *)

\* A claim makes its own command the current one, with nothing done.
LEMMA ClaimBegins ==
  ASSUME Base, NEW c \in Calls, Claim(c), Newer(c)
  PROVE  /\ \A d \in Calls : Holds(d)' => d = c /\ Stage(d)' = 0
         /\ \A r \in wire' : r.from # fence'.token
         /\ \A n \in Names : CellInv => cell'[n].token # fence'.token
<1>1. /\ fence'.token = call[c].token /\ fence.token < fence'.token
      /\ wire' = wire /\ cell' = cell /\ Others(c) /\ SameOrder(c) /\ call[c].pc = "claim"
      /\ call'[c].pc = "check" /\ call'[c].at = 1
  BY ClaimFields DEF Base
<1>2. \A r \in wire : r.from # fence'.token
  BY <1>1, Numbers DEF Base, RequestInv
<1>3. call[c].token > 0
  BY <1>1 DEF Base, CallInv, CallOK
<1>4. ASSUME NEW d \in Calls, Holds(d)' PROVE d = c /\ Stage(d)' = 0
  <2>1. call'[d].token = call[c].token
    BY <1>1, <1>4 DEF Holds
  <2>2. d = c
    BY <1>1, <1>3, <2>1 DEF Others, SameOrder, Base, TokenInv
  <2> QED
    BY <1>1, <2>2 DEF Stage
<1>5. \A n \in Names : CellInv => cell'[n].token # fence'.token
  BY <1>1, Numbers DEF CellInv, Base
<1> QED
  BY <1>1, <1>2, <1>4, <1>5

\* A call that asks for a write is where it was.
LEMMA AsksHolds ==
  ASSUME NEW c \in Calls, NEW q, Asks(c, q), NEW d \in Calls, Holds(d)'
  PROVE  Holds(d) /\ Stage(d)' = Stage(d) /\ call'[d].proof = call[d].proof
<1>1. CASE d # c
  BY <1>1 DEF Asks, Others, Holds, Stage
<1>2. CASE d = c
  BY <1>2 DEF Asks, Holds, Stage, Active, Mine
<1> QED
  BY <1>1, <1>2

LEMMA OwnedKept ==
  ASSUME UNCHANGED fence, NEW n, UNCHANGED <<cell[n].here, cell[n].token, cell[n].spec>>, Owned(n)
  PROVE  Owned(n)'
  BY DEF Owned

\* Behind the step it is at, the current command owns what it wrote.
LEMMA ProgressStep ==
  Base /\ CellInv /\ NamespaceInv /\ ProgressInv /\ [Next]_vars => ProgressInv'
<1> SUFFICES ASSUME Base, CellInv, NamespaceInv, ProgressInv, [Next]_vars,
                    NEW c \in Calls, Holds(c)', fence'.op \in Lasting, cell'[Ns].here,
                    NEW k \in 1..Len(Plan(fence'.op)), k <= Stage(c)', Plan(fence'.op)[k].do = "put",
                    NEW n, n = Plan(fence'.op)[k].name
             PROVE  Owned(n)'
  BY DEF ProgressInv, Owned, Holds, Stage
<1>0. Ns \in Names /\ fence'.op \in Orders
  BY NamesDiffer DEF Lasting, Orders
<1>n. n \in Names
  BY <1>0, PlanSteps
<1>1. ASSUME NEW d \in Calls, Claim(d), Newer(d) PROVE FALSE
  BY <1>1, ClaimBegins
<1>2. ASSUME NEW d \in Calls, NEW q, Asks(d, q) PROVE Owned(n)'
  <2>1. Holds(c) /\ Stage(c)' = Stage(c)
    BY <1>2, AsksHolds
  <2>2. UNCHANGED <<cell, fence>>
    BY <1>2 DEF Asks
  <2> QED
    BY <2>1, <2>2 DEF ProgressInv, Owned
<1>3. ASSUME NEW r \in wire, Admit(r) PROVE Owned(n)'
  <2>1. UNCHANGED <<cell, fence, call>>
    BY <1>3, AdmitWire DEF Base
  <2> QED
    BY <2>1 DEF ProgressInv, Owned, Holds, Stage
<1>4. ASSUME NEW r \in wire, Persist(r) PROVE Owned(n)'
  <2>1. /\ UNCHANGED <<fence, undone>> /\ r.name \in Names
        /\ cell'[r.name] = IF r.verb # "DELETE" THEN r.new
                           ELSE IF r.name = Ns THEN cell[r.name] ELSE Absent
    BY <1>4, PersistCells DEF Base
  <2>2. Holds(c)
    BY <1>4, PersistStage
  <2>3. Kept
    BY <2>2, Holder
  <2>4. fence.op \in Lasting /\ fence.op \in Orders
    BY <1>0, <2>1
  <2>5. ASSUME k <= Stage(c), r.from # fence.token \/ r.name # n
        PROVE  Owned(n)'
    <3>1. Stage(c) >= 1
      BY <2>2, <2>5, Numbers DEF Stage, Base
    <3>2. cell[Ns].here
      BY <1>4, <2>2, <2>3, <2>4, <3>1, NamespaceStays DEF Begun
    <3>3. Owned(n)
      BY <2>1, <2>2, <2>4, <2>5, <3>2 DEF ProgressInv
    <3> QED
      BY <1>4, <1>n, <2>1, <2>5, <3>3, OwnedStays
  <2>6. CASE r.by # c
    BY <1>4, <2>1, <2>5, <2>6, PersistStage
  <2>7. CASE r.by = c
    <3>1. /\ r.from = fence.token /\ Asked(r, c)
          /\ call[c].at \in 1..Len(Plan(fence.op)) /\ Step(c) = Plan(fence.op)[call[c].at]
          /\ Step(c).do \in {"put", "quiesce", "sync", "erase"}
          /\ Stage(c) = call[c].at - 1 /\ Stage(c)' = call[c].at
      BY <1>4, <2>7, PersistStage
    <3>2. Step(c).do \in {"put", "quiesce"}
      BY <2>4, <3>1, LastingSteps
    <3>3. r.name = Step(c).name /\ r.verb # "DELETE" /\ r.new.spec = call[c].order
      BY <3>1, <3>2 DEF Asked
    <3>4. CASE k = call[c].at
      <4>1. r.new.here /\ r.new.token = fence.token
        BY <3>1, <3>3 DEF Base, RequestInv
      <4>2. call[c].order = fence.op
        BY <2>2, Holder
      <4> QED
        BY <2>1, <3>1, <3>3, <3>4, <4>1, <4>2 DEF Owned
    <3>5. CASE k # call[c].at
      <4>1. k <= Stage(c) /\ k < call[c].at
        BY <3>1, <3>5
      <4>2. r.name # n
        BY <2>1, <2>4, <3>1, <3>2, <3>3, <4>1, LastingSteps
      <4> QED
        BY <2>1, <2>5, <4>1, <4>2
    <3> QED
      BY <3>4, <3>5
  <2> QED
    BY <2>6, <2>7
<1>5. ASSUME NEW j \in Names, JobRuns(j) PROVE Owned(n)'
  <2>1. /\ UNCHANGED <<fence, call>>
        /\ \A m \in Names : /\ cell'[m].here = cell[m].here /\ cell'[m].token = cell[m].token
                            /\ cell'[m].spec = cell[m].spec
    BY <1>5, JobCells DEF Base
  <2>2. Owned(n)
    BY <1>0, <2>1 DEF ProgressInv, Holds, Stage
  <2> QED
    BY <1>n, <2>1, <2>2 DEF Owned
<1>6. CASE NamespaceGone
  BY <1>0, <1>6, GoneCells DEF Base, Absent
<1>7. CASE Settles
  <2>1. /\ UNCHANGED cell /\ fence'.token = fence.token /\ fence'.op = fence.op /\ Goes(c)
    BY <1>7 DEF Settles
  <2>2. CASE Stage(c)' = Stage(c)
    <3>1. Holds(c)
      BY <2>1, GoesStep
    <3> QED
      BY <2>1, <2>2, <3>1 DEF ProgressInv, Owned
  <2>3. CASE Stage(c)' # Stage(c)
    <3>1. /\ Holds(c) /\ Passes(c) /\ Stage(c)' = Stage(c) + 1
          /\ Step(c) = Plan(fence.op)[call[c].at] /\ Stage(c) = call[c].at - 1
          /\ call[c].at \in 1..Len(Plan(fence.op))
      BY <2>1, <2>3, GoesStep
    <3>2. k # call[c].at
      BY <2>1, <3>1 DEF Passes
    <3>3. k <= Stage(c)
      BY <3>1, <3>2
    <3> QED
      BY <2>1, <3>1, <3>3 DEF ProgressInv, Owned
  <2> QED
    BY <2>2, <2>3
<1> QED
  BY <1>1, <1>2, <1>3, <1>4, <1>5, <1>6, <1>7, Kinds

\* A receipt leaves nothing of its command on the wire.
LEMMA AppliedStep == Base /\ AppliedInv /\ [Next]_vars => AppliedInv'
<1> SUFFICES ASSUME Base, AppliedInv, [Next]_vars, fence'.phase = "APPLIED", Kept', NEW q \in wire'
             PROVE  q.from # fence'.token
  BY DEF AppliedInv
<1>1. ASSUME NEW c \in Calls, Claim(c), Newer(c) PROVE FALSE
  BY <1>1, ClaimFields DEF Base
<1>2. ASSUME NEW c \in Calls, NEW p, Asks(c, p) PROVE q.from # fence'.token
  <2>1. /\ UNCHANGED <<fence, undone>> /\ wire' = wire \cup {p}
        /\ call[c].token = fence.token /\ call[c].pc \in {"check", "undo"}
    BY <1>2 DEF Asks, Mine
  <2>2. call[c].pc # "check"
    BY <2>1 DEF Base, TokenInv, Holds, Active
  <2>3. call[c].token > 0
    BY <2>1 DEF Base, CallInv, CallOK
  <2> QED
    BY <2>1, <2>2, <2>3 DEF Base, TokenInv, Kept, Undoing
<1>3. ASSUME NEW r \in wire, Admit(r) \/ Persist(r) PROVE q.from # fence'.token
  <2>1. UNCHANGED <<fence, undone>> /\ \E s \in wire : Same(q, s)
    BY <1>3, AdmitWire, PersistCells DEF Base, Same
  <2> QED
    BY <2>1 DEF AppliedInv, Same, Kept
<1>4. ASSUME NEW n \in Names, JobRuns(n) PROVE q.from # fence'.token
  BY <1>4, JobCells DEF Base, NoNew, Same, AppliedInv, Kept
<1>5. CASE NamespaceGone
  BY <1>5, GoneCells DEF Base, NoNew, Same, AppliedInv, Kept
<1>6. CASE Settles
  <2>1. /\ NoNew /\ fence'.token = fence.token /\ undone \subseteq undone'
        /\ fence'.phase = "APPLIED" /\ fence.token \notin undone' =>
              \/ fence.phase = "APPLIED"
              \/ \E c \in Calls : Holds(c) /\ call[c].pc = "check" /\ Finished(c)
    BY <1>6 DEF Settles
  <2>2. Kept /\ fence.token \notin undone'
    BY <2>1 DEF Kept
  <2>3. ASSUME NEW c \in Calls, Holds(c), call[c].pc = "check" PROVE \A r \in wire : r.from # fence.token
    BY <2>3, Holder
  <2> QED
    BY <2>1, <2>2, <2>3 DEF AppliedInv, NoNew, Same
<1> QED
  BY <1>1, <1>2, <1>3, <1>4, <1>5, <1>6, Kinds

\* The receipt is written when all is, and nothing of what it stands for is lost.
LEMMA ExclusiveStep ==
  Base /\ CellInv /\ NamespaceInv /\ ProgressInv /\ AppliedInv /\ AppliedIsExclusive /\ [Next]_vars
    => AppliedIsExclusive'
<1> SUFFICES ASSUME Base, CellInv, NamespaceInv, ProgressInv, AppliedInv, AppliedIsExclusive, [Next]_vars,
                    fence'.phase = "APPLIED", fence'.op \in Lasting, Kept', cell'[Ns].here,
                    NEW n \in Written(fence'.op)
             PROVE  Owned(n)'
  BY DEF AppliedIsExclusive, Owned, Lasting, Kept
<1>0. Ns \in Names /\ fence'.op \in Orders
  BY NamesDiffer DEF Lasting, Orders
<1>n. PICK k \in 1..Len(Plan(fence'.op)) : Plan(fence'.op)[k].do = "put" /\ Plan(fence'.op)[k].name = n
  BY <1>0, WrittenSteps
<1>m. n \in Names
  BY <1>0, <1>n, PlanSteps
<1>e. ASSUME UNCHANGED fence, Kept, fence.phase = "APPLIED", cell[Ns].here PROVE Owned(n)
  BY <1>e DEF AppliedIsExclusive, Owned, Lasting, Kept
<1>1. ASSUME NEW c \in Calls, Claim(c), Newer(c) PROVE FALSE
  BY <1>1, ClaimFields DEF Base
<1>2. ASSUME UNCHANGED <<fence, cell, undone>> PROVE Owned(n)'
  BY <1>2, <1>e DEF Kept, Owned
<1>3. ASSUME NEW c \in Calls, NEW q, Asks(c, q) PROVE Owned(n)'
  BY <1>2, <1>3 DEF Asks
<1>4. ASSUME NEW r \in wire, Admit(r) PROVE Owned(n)'
  BY <1>2, <1>4, AdmitWire DEF Base
<1>5. ASSUME NEW r \in wire, Persist(r) PROVE Owned(n)'
  <2>1. UNCHANGED <<fence, undone>>
    BY <1>5, PersistCells DEF Base
  <2>2. Kept /\ fence.phase = "APPLIED" /\ fence.op \in Lasting
    BY <2>1 DEF Kept
  <2>3. r.from # fence.token
    BY <2>2 DEF AppliedInv
  <2>4. cell[Ns].here
    BY <1>5, <2>2, NamespaceStays DEF Begun
  <2>5. Owned(n)
    BY <1>e, <2>1, <2>2, <2>4
  <2> QED
    BY <1>5, <1>m, <2>3, <2>5, OwnedStays
<1>6. ASSUME NEW m \in Names, JobRuns(m) PROVE Owned(n)'
  <2>1. /\ UNCHANGED <<fence, undone>> /\ cell'[Ns].here = cell[Ns].here
        /\ cell'[n].here = cell[n].here /\ cell'[n].token = cell[n].token
        /\ cell'[n].spec = cell[n].spec
    BY <1>0, <1>6, <1>m, JobCells DEF Base
  <2> QED
    BY <1>e, <2>1 DEF Kept, Owned
<1>7. CASE NamespaceGone
  BY <1>0, <1>7, GoneCells DEF Base, Absent
<1>8. CASE Settles
  <2>1. /\ UNCHANGED cell /\ fence'.token = fence.token /\ fence'.op = fence.op /\ undone \subseteq undone'
        /\ fence'.phase = "APPLIED" /\ fence.token \notin undone' =>
              \/ fence.phase = "APPLIED"
              \/ \E c \in Calls : Holds(c) /\ call[c].pc = "check" /\ Finished(c)
    BY <1>8 DEF Settles
  <2>2. Kept /\ fence.token \notin undone'
    BY <2>1 DEF Kept
  <2>3. CASE fence.phase = "APPLIED"
    BY <2>1, <2>2, <2>3 DEF AppliedIsExclusive, Owned, Lasting, Kept
  <2>4. ASSUME NEW c \in Calls, Holds(c), call[c].pc = "check", Finished(c) PROVE Owned(n)
    <3>1. call[c].order = fence.op /\ call[c].at \in Nat
      BY <2>4, Holder, Numbers DEF Base
    <3>2. k <= Stage(c)
      BY <1>0, <1>n, <2>1, <2>4, <3>1, PlanSteps DEF Stage, Finished
    <3> QED
      BY <1>n, <2>1, <2>4, <3>2 DEF ProgressInv
  <2>5. Owned(n)
    BY <2>1, <2>2, <2>3, <2>4 DEF AppliedIsExclusive, Owned, Lasting, Kept
  <2> QED
    BY <2>1, <2>5 DEF Owned
<1> QED
  BY <1>1, <1>3, <1>4, <1>5, <1>6, <1>7, <1>8, Kinds

-----------------------------------------------------------------------------
(* Schema before rollout                                                   *)

\* The steps of a plan with a schema that write, and those that do not.
LEMMA SchemaSteps ==
  ASSUME NEW i \in Migrating, NEW k \in 1..Len(Plan(i))
  PROVE  /\ Plan(i)[k].do \in {"put", "quiesce"} => k \in {1, 2, 5, 8, 9}
         /\ Plan(i)[k].do # "put" => k \in {2, 3, 4, 6, 7}
         /\ Plan(i)[k].do = "secret" <=> k = 4
         /\ Plan(i)[k].do = "migrate" <=> k = 6
         /\ k = 5 => Plan(i)[k].do = "put" /\ Plan(i)[k].name = Job(i)
         /\ k = 8 => Plan(i)[k].do = "put" /\ Plan(i)[k].name = Ready
         /\ k = 9 => Plan(i)[k].do = "put" /\ Plan(i)[k].name = Run
         /\ Plan(i)[k].do = "put" /\ Plan(i)[k].name = Run => k = 9
         /\ i \in Lasting /\ Len(Plan(i)) = 9
<1>1. Len(Plan(i)) = 9 /\ i \in Lasting
  BY LongPlan
<1>2. \/ k = 1 \/ k = 2 \/ k = 3 \/ k = 4 \/ k = 5
      \/ k = 6 \/ k = 7 \/ k = 8 \/ k = 9
  BY <1>1
<1>3. /\ Plan(i)[k].do \in {"put", "quiesce"} => k \in {1, 2, 5, 8, 9}
      /\ Plan(i)[k].do # "put" => k \in {2, 3, 4, 6, 7}
      /\ Plan(i)[k].do = "secret" <=> k = 4
      /\ Plan(i)[k].do = "migrate" <=> k = 6
      /\ Plan(i)[k].do = "put" => k \in {1, 5, 8, 9}
  BY <1>2, LongPlan
<1>4. /\ k = 5 => Plan(i)[k].do = "put" /\ Plan(i)[k].name = Job(i)
      /\ k = 8 => Plan(i)[k].do = "put" /\ Plan(i)[k].name = Ready
      /\ k = 9 => Plan(i)[k].do = "put" /\ Plan(i)[k].name = Run
      /\ k = 1 => Plan(i)[k].name = Ns
  BY LongPlan
<1>5. Ns # Run /\ Job(i) # Run /\ Ready # Run
  BY NamesDiffer
<1> QED
  BY <1>1, <1>3, <1>4, <1>5

\* An object that is there has its namespace, so an object of the current command
\* shows that the namespace is there.
LEMMA RunIsThere ==
  ASSUME Base, CellInv, fence.op \in Migrating, NEW n \in Names, cell[n].token = fence.token
  PROVE  cell[n].here /\ cell[Ns].here
<1>1. fence.token # 0
  <2>1. fence.op # NoIntent
    BY LongPlan, IntentsAssumption
  <2> QED
    BY <2>1 DEF Base, TokenInv
<1>2. cell[n].here
  BY <1>1 DEF CellInv, Absent
<1> QED
  BY <1>2 DEF CellInv

\* The migrated Job and the receipt stay while the namespace does.
LEMMA SchemaStays ==
  ASSUME Base, CellInv, fence.op \in Migrating, NEW r \in wire, Persist(r),
         cell'[Ns].here => cell[Ns].here
  PROVE  /\ Migration /\ (r.from # fence.token \/ r.name # Job(fence.op)) => Migration'
         /\ Evidence /\ (r.from # fence.token \/ r.name # Ready) => Evidence'
<1>1. fence' = fence
  BY PersistCells DEF Base
<1>2. Job(fence.op) \in Names /\ Ready \in Names
  BY NamesDiffer
<1>3. ASSUME Migration, r.from # fence.token \/ r.name # Job(fence.op), cell'[Ns].here
      PROVE  Owned(Job(fence.op))' /\ ~cell'[Job(fence.op)].up
  <2> DEFINE j == Job(fence.op)
  <2>1. Owned(j) /\ ~cell[j].up
    BY <1>3 DEF Migration
  <2>2. cell'[j] = cell[j]
    BY <1>2, <1>3, <2>1, OwnedStays
  <2> QED
    BY <1>1, <2>1, <2>2 DEF Owned
<1>4. ASSUME Evidence, r.from # fence.token \/ r.name # Ready, cell'[Ns].here
      PROVE  Owned(Ready)' /\ cell'[Ready].ev > 0
  <2>1. Owned(Ready) /\ cell[Ready].ev > 0
    BY <1>4 DEF Evidence
  <2>2. cell'[Ready] = cell[Ready]
    BY <1>2, <1>4, <2>1, OwnedStays
  <2> QED
    BY <1>1, <2>1, <2>2 DEF Owned
<1> QED
  BY <1>1, <1>3, <1>4 DEF Migration, Evidence

LEMMA SchemaPersist ==
  ASSUME Base, CellInv, NamespaceInv, SchemaInv, fence.op \in Migrating, NEW r \in wire, Persist(r)
  PROVE  SchemaInv'
<1> USE DEF Base
<1>1. /\ UNCHANGED <<fence, undone>> /\ r.name \in Names
      /\ \A n \in Names : n # r.name => cell'[n] = cell[n]
      /\ cell'[r.name] = IF r.verb # "DELETE" THEN r.new
                         ELSE IF r.name = Ns THEN cell[r.name] ELSE Absent
      /\ \A q \in wire' : \E s \in wire \ {r} : Same(q, s)
  BY PersistCells
<1>2. fence.op \in Lasting /\ fence.op \in Orders
  BY LongPlan
<1>3. /\ Ns \in Names /\ Run \in Names /\ Ready \in Names /\ Run # Ns
      /\ Run # Ready /\ Run # Job(fence.op) /\ Ready # Job(fence.op)
  BY NamesDiffer
<1>4. Kept /\ Begun => (cell'[Ns].here => cell[Ns].here)
  BY <1>2, NamespaceStays
<1>5. ASSUME NEW c \in Calls, Holds(c)' PROVE ReachedSchema(c)'
  <2>1. Holds(c) /\ call'[c].proof = call[c].proof /\ ReachedSchema(c)
    BY <1>5, PersistStage DEF SchemaInv
  <2>2. Stage(c) >= 1 => (cell'[Ns].here => cell[Ns].here)
    BY <1>4, <2>1, Holder DEF Begun
  <2>3. Stage(c) \in Int
    BY Numbers DEF Stage
  <2>4. CASE r.by # c
    <3>1. Stage(c)' = Stage(c) /\ r.from # fence.token
      BY <1>5, <2>4, PersistStage
    <3> QED
      BY <2>1, <2>2, <2>3, <3>1, SchemaStays DEF ReachedSchema
  <2>5. CASE r.by = c
    <3>1. /\ r.from = fence.token /\ Asked(r, c)
          /\ call[c].at \in 1..Len(Plan(fence.op)) /\ Step(c) = Plan(fence.op)[call[c].at]
          /\ Step(c).do \in {"put", "quiesce", "sync", "erase"}
          /\ Stage(c) = call[c].at - 1 /\ Stage(c)' = call[c].at
      BY <1>5, <2>5, PersistStage
    <3>2. Step(c).do \in {"put", "quiesce"}
      BY <1>2, <3>1, LastingSteps
    <3>3. call[c].at \in {1, 2, 5, 8, 9}
      BY <3>1, <3>2, SchemaSteps
    <3>4. r.name = Step(c).name /\ r.verb # "DELETE" /\ r.new.spec = call[c].order
          /\ (r.name = Ready => r.new.ev = call[c].proof)
      BY <3>1, <3>2 DEF Asked
    <3>5. Stage(c)' >= 4 => call'[c].proof > 0
      BY <2>1, <3>1, <3>3 DEF ReachedSchema
    <3>6. ASSUME Stage(c)' >= 6 PROVE Migration'
      <4>1. Stage(c) >= 6 /\ Stage(c) >= 1 /\ (call[c].at = 8 \/ call[c].at = 9)
        BY <3>1, <3>3, <3>6
      <4>2. r.name # Job(fence.op)
        BY <1>3, <3>1, <3>4, <4>1, SchemaSteps
      <4> QED
        BY <2>1, <2>2, <4>1, <4>2, SchemaStays DEF ReachedSchema
    <3>7. ASSUME Stage(c)' >= 8 PROVE Evidence'
      <4>1. CASE call[c].at = 8
        <5>1. r.name = Ready
          BY <3>1, <3>4, <4>1, SchemaSteps
        <5>2. cell'[Ready] = r.new /\ r.new.ev > 0
          BY <1>1, <2>1, <3>1, <3>4, <4>1, <5>1 DEF ReachedSchema
        <5>3. r.new.here /\ r.new.token = fence.token /\ r.new.spec = fence.op
          BY <2>1, <3>1, <3>4, Holder DEF RequestInv
        <5> QED
          BY <1>1, <5>2, <5>3 DEF Evidence, Owned
      <4>2. CASE call[c].at = 9
        <5>1. r.name # Ready
          BY <1>3, <3>1, <3>4, <4>2, SchemaSteps
        <5> QED
          BY <2>1, <2>2, <3>1, <4>2, <5>1, SchemaStays DEF ReachedSchema
      <4> QED
        BY <3>1, <3>3, <3>7, <4>1, <4>2
    <3> QED
      BY <3>5, <3>6, <3>7 DEF ReachedSchema
  <2> QED
    BY <2>4, <2>5
<1>6. ASSUME Kept', NEW q \in wire', q.from = fence'.token, q.name = Run, q.new.up
      PROVE  Migration' /\ Evidence'
  <2>1. PICK s \in wire \ {r} : Same(q, s)
    BY <1>1
  <2>2. Kept /\ s.from = fence.token /\ s.name = Run /\ s.new.up
    BY <1>1, <1>6, <2>1 DEF Same, Kept
  <2>3. Migration /\ Evidence /\ Begun
    BY <1>3, <2>2 DEF SchemaInv, Begun
  <2>4. r.from # fence.token
    BY <2>1, <2>2 DEF RequestInv, Kept
  <2> QED
    BY <1>4, <2>2, <2>3, <2>4, SchemaStays
<1>7. ASSUME RolledOut'
      PROVE  /\ Migration' /\ Evidence'
             /\ \A q \in wire' : q.from # fence'.token
             /\ \A c \in Calls : Holds(c)' => Stage(c)' >= 9
  <2>1. Kept /\ cell'[Run].token = fence.token /\ cell'[Run].up
    BY <1>1, <1>7 DEF RolledOut, Kept
  <2>2. CASE r.name # Run
    <3>1. RolledOut
      BY <1>1, <1>3, <2>1, <2>2 DEF RolledOut
    <3>2. /\ Migration /\ Evidence /\ \A s \in wire : s.from # fence.token
          /\ \A c \in Calls : Holds(c) => Stage(c) >= 9
      BY <3>1 DEF SchemaInv
    <3>3. cell[Ns].here
      BY <1>3, <3>1, RunIsThere DEF RolledOut
    <3>4. Migration' /\ Evidence'
      BY <3>2, <3>3, SchemaStays
    <3>5. \A c \in Calls : Holds(c)' => Stage(c)' >= 9
      BY <3>2, PersistStage
    <3> QED
      BY <1>1, <3>2, <3>4, <3>5 DEF Same
  <2>3. CASE r.name = Run
    <3>1. r.verb # "DELETE" /\ cell'[Run] = r.new
      BY <1>1, <1>3, <2>1, <2>3 DEF Absent
    <3>2. r.from = fence.token /\ r.new.up
      BY <2>1, <3>1 DEF RequestInv
    <3>3. Migration /\ Evidence /\ Begun
      BY <1>3, <2>1, <2>3, <3>2 DEF SchemaInv, Begun
    <3>4. Migration' /\ Evidence'
      BY <1>3, <1>4, <2>1, <2>3, <3>3, SchemaStays
    <3>5. \A q \in wire' : q.from # fence'.token
      BY <1>1, <2>1, <3>2 DEF Same, RequestInv, Kept
    <3>6. ASSUME NEW c \in Calls, Holds(c)' PROVE Stage(c)' >= 9
      <4>1. r.by = c
        BY <3>2, <3>6, PersistStage
      <4>2. /\ Asked(r, c) /\ Step(c).do \in {"put", "quiesce", "sync", "erase"}
            /\ call[c].at \in 1..Len(Plan(fence.op)) /\ Step(c) = Plan(fence.op)[call[c].at]
            /\ Stage(c)' = call[c].at
        BY <3>6, <4>1, PersistStage
      <4>3. Step(c).do \in {"put", "quiesce"}
        BY <1>2, <4>2, LastingSteps
      <4>4. Step(c).do = "put" /\ Step(c).name = Run
        BY <2>3, <3>2, <4>2, <4>3 DEF Asked
      <4>5. call[c].at = 9
        BY <4>2, <4>4, SchemaSteps
      <4> QED
        BY <4>2, <4>5
    <3> QED
      BY <3>4, <3>5, <3>6
  <2> QED
    BY <2>2, <2>3
<1> QED
  BY <1>5, <1>6, <1>7 DEF SchemaInv

LEMMA SchemaSettles ==
  ASSUME Base, CellInv, ProgressInv, SchemaInv, fence.op \in Migrating, Settles
  PROVE  SchemaInv'
<1> USE DEF Base
<1>1. /\ UNCHANGED cell /\ fence'.token = fence.token /\ fence'.op = fence.op
      /\ undone \subseteq undone' /\ NoNew /\ \A c \in Calls : Goes(c)
  BY DEF Settles
<1>2. fence.op \in Lasting
  BY LongPlan
<1>3. (Migration <=> Migration') /\ (Evidence <=> Evidence') /\ (Kept' => Kept)
  BY <1>1 DEF Migration, Evidence, Owned, Kept
<1>4. ASSUME NEW c \in Calls, Holds(c)'
      PROVE  Holds(c) /\ Stage(c)' >= Stage(c) /\ ReachedSchema(c)'
  <2>1. Holds(c)
    BY <1>1, <1>2, <1>4, GoesStep
  <2>2. ReachedSchema(c) /\ Stage(c) \in Int
    BY <2>1, Numbers DEF SchemaInv, Stage
  <2>3. CASE Stage(c)' = Stage(c) /\ call'[c].proof = call[c].proof
    BY <1>3, <2>1, <2>2, <2>3 DEF ReachedSchema
  <2>4. CASE ~(Stage(c)' = Stage(c) /\ call'[c].proof = call[c].proof)
    <3>1. /\ Passes(c) /\ Stage(c)' = Stage(c) + 1
          /\ call[c].at \in 1..Len(Plan(fence.op)) /\ Step(c) = Plan(fence.op)[call[c].at]
          /\ Stage(c) = call[c].at - 1
      BY <1>1, <1>2, <1>4, <2>4, GoesStep
    <3>2. /\ Step(c).do # "put" /\ (Step(c).do = "migrate" => Migrated(c))
          /\ IF Step(c).do = "secret" THEN call'[c].proof > 0 ELSE call'[c].proof = call[c].proof
      BY <3>1 DEF Passes
    <3>3. /\ call[c].at \in {2, 3, 4, 6, 7}
          /\ Step(c).do = "secret" <=> call[c].at = 4
          /\ Step(c).do = "migrate" <=> call[c].at = 6
      BY <3>1, <3>2, SchemaSteps
    <3>4. Stage(c)' >= 4 => call'[c].proof > 0
      BY <2>2, <3>1, <3>2, <3>3 DEF ReachedSchema
    <3>5. ASSUME Stage(c)' >= 6 PROVE Migration
      <4>1. CASE call[c].at = 7
        BY <2>2, <3>1, <4>1 DEF ReachedSchema
      <4>2. CASE call[c].at = 6
        <5>1. Migrated(c) /\ call[c].order = fence.op
          BY <2>1, <3>2, <3>3, <4>2, Holder
        <5>2. 5 \in 1..Len(Plan(fence.op)) /\ 5 <= Stage(c)
          BY <3>1, <4>2, SchemaSteps
        <5>3. Plan(fence.op)[5].do = "put" /\ Plan(fence.op)[5].name = Job(fence.op)
          BY <5>2, SchemaSteps
        <5>4. cell[Ns].here => Owned(Job(fence.op))
          BY <1>2, <2>1, <5>2, <5>3 DEF ProgressInv
        <5> QED
          BY <5>1, <5>4 DEF Migration, Migrated
      <4> QED
        BY <3>1, <3>3, <3>5, <4>1, <4>2
    <3>6. ~(Stage(c)' >= 8)
      BY <3>1, <3>3
    <3> QED
      BY <1>3, <2>1, <3>1, <3>4, <3>5, <3>6 DEF ReachedSchema
  <2> QED
    BY <2>3, <2>4
<1>5. ASSUME Kept', NEW q \in wire', q.from = fence'.token, q.name = Run, q.new.up
      PROVE  Migration' /\ Evidence'
  BY <1>1, <1>3, <1>5 DEF NoNew, Same, SchemaInv
<1>6. ASSUME RolledOut'
      PROVE  /\ Migration' /\ Evidence'
             /\ \A q \in wire' : q.from # fence'.token
             /\ \A c \in Calls : Holds(c)' => Stage(c)' >= 9
  <2>1. RolledOut
    BY <1>1, <1>3, <1>6 DEF RolledOut
  <2>2. /\ Migration /\ Evidence /\ \A s \in wire : s.from # fence.token
        /\ \A c \in Calls : Holds(c) => Stage(c) >= 9
    BY <2>1 DEF SchemaInv
  <2>3. ASSUME NEW c \in Calls, Holds(c)' PROVE Stage(c)' >= 9
    <3>1. Stage(c)' >= Stage(c) /\ Stage(c) >= 9
      BY <1>4, <2>2, <2>3
    <3>2. Stage(c) \in Int /\ Stage(c)' \in Int
      <4>1. Stage(c)' = Stage(c) \/ Stage(c)' = Stage(c) + 1
        BY <1>1, <1>2, <2>3, GoesStep
      <4> QED
        BY <4>1, Numbers DEF Stage
    <3> QED
      BY <3>1, <3>2
  <2> QED
    BY <1>1, <1>3, <2>2, <2>3 DEF NoNew, Same
<1> QED
  BY <1>4, <1>5, <1>6 DEF SchemaInv

\* A schema is migrated, and its receipt written, before the workload is rolled out.
LEMMA SchemaStep ==
  Base /\ CellInv /\ NamespaceInv /\ ProgressInv /\ SchemaInv /\ [Next]_vars => SchemaInv'
<1> SUFFICES ASSUME Base, CellInv, NamespaceInv, ProgressInv, SchemaInv, [Next]_vars,
                    fence'.op \in Migrating
             PROVE  SchemaInv'
  BY DEF SchemaInv
<1> USE DEF Base
<1>0. Ns \in Names /\ Run \in Names /\ Ready \in Names /\ Job(fence'.op) \in Names
  BY NamesDiffer
<1>k. ASSUME UNCHANGED <<cell, fence, undone>>
      PROVE  /\ (Migration <=> Migration') /\ (Evidence <=> Evidence')
             /\ (Kept <=> Kept') /\ (RolledOut <=> RolledOut')
  BY <1>k DEF Migration, Evidence, Owned, Kept, RolledOut
<1>1. ASSUME NEW c \in Calls, Claim(c), Newer(c) PROVE SchemaInv'
  <2>1. /\ \A d \in Calls : Holds(d)' => d = c /\ Stage(d)' = 0
        /\ \A r \in wire' : r.from # fence'.token
        /\ cell'[Run].token # fence'.token
    BY <1>0, <1>1, ClaimBegins
  <2>2. \A d \in Calls : Holds(d)' => ReachedSchema(d)'
    BY <2>1 DEF ReachedSchema
  <2> QED
    BY <2>1, <2>2 DEF SchemaInv, RolledOut
<1>2. ASSUME NEW c \in Calls, NEW q, Asks(c, q) PROVE SchemaInv'
  <2>1. UNCHANGED <<cell, fence, undone>> /\ wire' = wire \cup {q}
    BY <1>2 DEF Asks
  <2>2. \A d \in Calls : Holds(d)' =>
           Holds(d) /\ Stage(d)' = Stage(d) /\ call'[d].proof = call[d].proof
    BY <1>2, AsksHolds
  <2>3. fence.op \in Migrating /\ fence.op \in Lasting
    BY <2>1, LongPlan
  <2>4. ASSUME NEW d \in Calls, Holds(d)' PROVE ReachedSchema(d)'
    <3>1. ReachedSchema(d)
      BY <2>2, <2>3, <2>4 DEF SchemaInv
    <3> QED
      BY <1>k, <2>1, <2>2, <2>4, <3>1 DEF ReachedSchema
  <2>5. ASSUME Kept
        PROVE  /\ Holds(c) /\ Stage(c) <= 8 /\ \A r \in wire : r.from # fence.token
               /\ q.name = Run /\ q.new.up => Stage(c) = 8
    <3>1. /\ Holds(c) /\ Asked(q, c) /\ Stage(c) = call[c].at - 1
          /\ call[c].at \in 1..Len(Plan(fence.op)) /\ Step(c) = Plan(fence.op)[call[c].at]
          /\ Step(c).do \in {"put", "quiesce"} /\ q.name = Step(c).name
          /\ \A r \in wire : r.from # fence.token
      BY <1>2, <2>3, <2>5, AsksStep
    <3>2. q.name = Run /\ q.new.up => Step(c).do = "put"
      BY <3>1 DEF Asked
    <3> QED
      BY <2>3, <3>1, <3>2, SchemaSteps
  <2>6. Kept /\ q.name = Run /\ q.new.up => Migration /\ Evidence
    BY <2>3, <2>5 DEF SchemaInv, ReachedSchema
  <2>7. ~RolledOut
    BY <2>3, <2>5, Numbers DEF SchemaInv, RolledOut, Stage
  <2> QED
    BY <1>k, <2>1, <2>3, <2>4, <2>5, <2>6, <2>7 DEF SchemaInv
<1>3. ASSUME NEW r \in wire, Admit(r) PROVE SchemaInv'
  <2>1. UNCHANGED <<cell, fence, undone, call>> /\ \A q \in wire' : \E s \in wire : Same(q, s)
    BY <1>3, AdmitWire DEF Same
  <2>2. \A d \in Calls : (Holds(d)' <=> Holds(d)) /\ Stage(d)' = Stage(d)
    BY <2>1 DEF Holds, Stage
  <2>3. \A d \in Calls : Holds(d)' => ReachedSchema(d)'
    BY <1>k, <2>1, <2>2 DEF SchemaInv, ReachedSchema
  <2> QED
    BY <1>k, <2>1, <2>2, <2>3 DEF SchemaInv, Same
<1>4. ASSUME NEW r \in wire, Persist(r) PROVE SchemaInv'
  BY <1>4, SchemaPersist, PersistCells
<1>5. ASSUME NEW n \in Names, JobRuns(n) PROVE SchemaInv'
  <2>1. /\ UNCHANGED <<fence, undone, call>> /\ NoNew /\ n[1] = "job"
        /\ \A m \in Names : /\ m # n => cell'[m] = cell[m]
                            /\ cell'[m].here = cell[m].here /\ cell'[m].token = cell[m].token
                            /\ cell'[m].spec = cell[m].spec
                            /\ cell'[m].up => cell[m].up
    BY <1>5, JobCells
  <2>2. n # Run /\ n # Ready /\ cell'[Run] = cell[Run] /\ cell'[Ready] = cell[Ready]
    BY <1>0, <2>1, NamesDiffer
  <2>3. (Migration => Migration') /\ (Evidence => Evidence') /\ (RolledOut' => RolledOut)
    <3>1. cell[Ns].here = cell'[Ns].here
      BY <1>0, <2>1
    <3>2. Owned(Job(fence.op)) => Owned(Job(fence.op))'
      BY <1>0, <2>1 DEF Owned
    <3>3. cell'[Job(fence.op)].up => cell[Job(fence.op)].up
      BY <1>0, <2>1
    <3>4. Migration => Migration'
      BY <2>1, <3>1, <3>2, <3>3 DEF Migration
    <3> QED
      BY <2>1, <2>2, <3>1, <3>4 DEF Evidence, Owned, RolledOut, Kept
  <2>4. \A d \in Calls : (Holds(d)' <=> Holds(d)) /\ Stage(d)' = Stage(d)
    BY <2>1 DEF Holds, Stage
  <2>5. \A d \in Calls : Holds(d)' => ReachedSchema(d)'
    BY <2>1, <2>3, <2>4 DEF SchemaInv, ReachedSchema
  <2> QED
    BY <2>1, <2>3, <2>4, <2>5 DEF SchemaInv, NoNew, Same, Kept
<1>6. CASE NamespaceGone
  <2>1. /\ UNCHANGED <<fence, undone>> /\ NoNew
        /\ \A n \in Names : cell'[n] = Absent
        /\ \A c \in Calls : Unchanged(c)
    BY <1>6, GoneCells
  <2>2. ~cell'[Ns].here /\ ~cell'[Run].up
    BY <1>0, <2>1 DEF Absent
  <2>3. Migration' /\ Evidence' /\ ~RolledOut'
    BY <2>2 DEF Migration, Evidence, RolledOut
  <2>4. \A d \in Calls : Holds(d)' => Holds(d) /\ Stage(d)' = Stage(d) /\ call'[d].proof = call[d].proof
    BY <2>1 DEF Holds, Stage, Unchanged
  <2>5. \A d \in Calls : Holds(d)' => ReachedSchema(d)'
    BY <2>1, <2>3, <2>4 DEF SchemaInv, ReachedSchema
  <2> QED
    BY <2>3, <2>5 DEF SchemaInv
<1>7. CASE Settles
  BY <1>7, SchemaSettles DEF Settles
<1> QED
  BY <1>1, <1>2, <1>3, <1>4, <1>5, <1>6, <1>7, Kinds

-----------------------------------------------------------------------------
(* The invariant holds                                                     *)

LEMMA RunIsWritten ==
  ASSUME NEW i \in Orders, i \in Lasting
  PROVE  Ns \in Written(i) /\ Run \in Written(i)
<1>1. CASE i \notin Migrating
  <2>1. Plan(i) = <<[do |-> "put", name |-> Ns], [do |-> "put", name |-> Run]>>
    BY <1>1, PlanSteps DEF Plan, Put
  <2> QED
    BY <2>1 DEF Written
<1>2. CASE i \in Migrating
  <2>1. Plan(i) = <<[do |-> "put", name |-> Ns], [do |-> "quiesce", name |-> Run],
                    [do |-> "drain", name |-> Ns], [do |-> "secret", name |-> Ns],
                    [do |-> "put", name |-> Job(i)], [do |-> "migrate", name |-> Ns],
                    [do |-> "verify", name |-> Ns], [do |-> "put", name |-> Ready],
                    [do |-> "put", name |-> Run]>>
    BY <1>2, PlanSteps DEF Plan, Put, Wait
  <2> QED
    BY <2>1 DEF Written
<1> QED
  BY <1>1, <1>2

\* What the tenant starts from: nothing, or a runtime without a schema that its
\* registration deployed.
LEMMA InitCells ==
  ASSUME Init
  PROVE  /\ issued = 1 /\ fence.token \in {0, 1} /\ registered \in BOOLEAN /\ pods \in BOOLEAN
         /\ cell \in [Names -> Cells]
         /\ \/ fence = NoFence /\ \A n \in Names : cell[n] = Absent
            \/ \E i \in Provisions : /\ i \notin Migrating /\ i \in Lasting /\ i \in Orders
                                     /\ fence = [token |-> 1, op |-> i, phase |-> "APPLIED"]
         /\ fence.phase = "APPLIED" =>
              /\ \A n \in Written(fence.op) : n \in Names => Owned(n)
              /\ cell[Ns].here /\ cell[Run].spec = fence.op
         /\ \A n \in Names : cell[n].token <= fence.token /\ (cell[n].here \/ cell[n] = Absent)
                             /\ (cell[n].here => cell[Ns].here)
<1> USE BoundsAssumption
<1>0. Ns \in Names /\ Run \in Names
  BY NamesDiffer
<1>1. CASE fence = NoFence /\ cell = [n \in Names |-> Absent] /\ registered = TRUE /\ pods = FALSE
  <2>1. \A n \in Names : cell[n] = Absent
    BY <1>1
  <2>2. cell \in [Names -> Cells]
    BY <1>1, Literals
  <2>3. fence.phase = "NONE" /\ fence.token = 0
    BY <1>1 DEF NoFence
  <2>4. Absent.token = 0 /\ ~Absent.here
    BY DEF Absent
  <2>5. issued = 1 /\ fence.token \in {0, 1}
    BY <2>3 DEF Init
  <2>6. fence.phase # "APPLIED"
    BY <2>3
  <2>7. \A n \in Names : cell[n].token <= fence.token /\ (cell[n].here \/ cell[n] = Absent)
                         /\ (cell[n].here => cell[Ns].here)
    BY <2>1, <2>3, <2>4
  <2> QED
    BY <1>1, <2>1, <2>2, <2>3, <2>5, <2>6, <2>7
<1>2. ASSUME NEW i \in Provisions \ Migrating,
             registered \in BOOLEAN, fence = [token |-> 1, op |-> i, phase |-> "APPLIED"], pods = TRUE,
             cell = [n \in Names |-> IF n \in Written(i)
                        THEN [here |-> TRUE, token |-> 1, op |-> i, spec |-> i, up |-> n = Run, ev |-> 0]
                        ELSE Absent]
      PROVE  /\ issued = 1 /\ fence.token \in {0, 1} /\ registered \in BOOLEAN /\ pods \in BOOLEAN
             /\ cell \in [Names -> Cells]
             /\ i \notin Migrating /\ i \in Lasting /\ i \in Orders
             /\ \A n \in Written(fence.op) : n \in Names => Owned(n)
             /\ cell[Ns].here /\ cell[Run].spec = fence.op
             /\ \A n \in Names : cell[n].token <= fence.token /\ (cell[n].here \/ cell[n] = Absent)
                                 /\ (cell[n].here => cell[Ns].here)
  <2>1. i \in Lasting /\ i \in Orders
    BY <1>2, IntentsAssumption DEF Lasting, Orders, Deletes
  <2>2. Ns \in Written(i) /\ Run \in Written(i)
    BY <2>1, RunIsWritten
  <2>3. \A n \in Names : cell[n] = IF n \in Written(i)
                        THEN [here |-> TRUE, token |-> 1, op |-> i, spec |-> i, up |-> n = Run, ev |-> 0]
                        ELSE Absent
    BY <1>2
  <2>4. \A b \in BOOLEAN : [here |-> TRUE, token |-> 1, op |-> i, spec |-> i, up |-> b, ev |-> 0] \in Cells
    BY <2>1 DEF Cells, Tokens
  <2>5. \A n \in Names : cell[n] \in Cells
    BY <2>3, <2>4, Literals
  <2>6. cell \in [Names -> Cells]
    BY <1>2, <2>5
  <2>7. \A n \in Written(fence.op) : n \in Names => Owned(n)
    BY <1>2, <2>3 DEF Owned
  <2>8. cell[Ns].here /\ cell[Run].spec = fence.op
    BY <1>0, <1>2, <2>2, <2>3
  <2>9. \A n \in Names : cell[n].token <= fence.token /\ (cell[n].here \/ cell[n] = Absent)
                         /\ (cell[n].here => cell[Ns].here)
    BY <1>2, <2>3, <2>8 DEF Absent
  <2> QED
    BY <1>2, <2>1, <2>6, <2>7, <2>8, <2>9 DEF Init
<1> QED
  BY <1>1, <1>2 DEF Init, NoFence

LEMMA InitIInv == Init => IInv
<1> SUFFICES ASSUME Init PROVE IInv
  OBVIOUS
<1>1. \A c \in Calls : /\ call[c] = Idle /\ call[c].pc = "idle" /\ call[c].token = 0 /\ call[c].at = 1
                       /\ ~call[c].held
  BY DEF Init, Idle
<1>2. wire = {} /\ undone = {} /\ dying = FALSE /\ secret = 0 /\ call \in [Calls -> Calling]
  BY Literals DEF Init
<1>3. \A c \in Calls : ~Holds(c)
  BY <1>1 DEF Holds, Active
<1>4. TypeOK
  <2>1. fence \in [token : Tokens, op : Orders \cup {NoIntent}, phase : Phases]
    BY InitCells, BoundsAssumption DEF NoFence, Tokens, Phases
  <2>2. issued \in Tokens /\ 0 \in 0..MaxSecret
    BY InitCells, BoundsAssumption DEF Tokens
  <2> QED
    BY <1>2, <2>1, <2>2, InitCells DEF TypeOK
<1>5. CallInv
  BY <1>1 DEF CallInv, CallOK
<1>6. TokenInv
  BY <1>1, <1>2, <1>3, InitCells DEF TokenInv, NoFence, Engaged, Working, Undoing
<1>7. RequestInv /\ CellInv /\ DeletionInv
  BY <1>1, <1>2, InitCells DEF RequestInv, CellInv, DeletionInv, Working
<1>8. NamespaceInv /\ ProgressInv /\ AppliedInv
  BY <1>2, <1>3 DEF NamespaceInv, ProgressInv, AppliedInv
<1>9. SchemaInv
  <2>1. fence.op \notin Migrating
    BY InitCells, LongPlan, IntentsAssumption DEF NoFence
  <2> QED
    BY <2>1 DEF SchemaInv
<1>10. AppliedIsExclusive
  <2>1. SUFFICES ASSUME fence.phase = "APPLIED", fence.op \in Lasting, NEW n \in Written(fence.op)
                 PROVE  Owned(n)
    BY DEF AppliedIsExclusive, Owned, Lasting
  <2>2. n \in Names
    BY <2>1, WrittenSteps, PlanSteps DEF Lasting, Orders
  <2> QED
    BY <2>1, <2>2, InitCells
<1> QED
  BY <1>4, <1>5, <1>6, <1>7, <1>8, <1>9, <1>10 DEF IInv

LEMMA NextKeeps == IInv /\ [Next]_vars => IInv'
  BY TypeStep, CallStep, TokenStep, RequestStep, CellStep, DeletionStep, NamespaceStep,
     ProgressStep, AppliedStep, SchemaStep, ExclusiveStep DEF IInv, Base

\* What the adapter keeps, whatever its callers, the API server and the network do:
\* tokens and requests have one owner, objects are out of reach of older requests,
\* and the current command owns what is behind it.
THEOREM InvariantHolds == Spec => []IInv
<1> QED
  BY InitIInv, NextKeeps, PTL DEF Spec

\* A receipt means what it says: a command with an APPLIED receipt owns what it wrote,
\* and a workload runs only behind its migration (#apply, #recordReceipt).
THEOREM FenceIsKept == Spec => []FenceIsSafe
<1>1. IInv => RolloutFollowsMigration
  <2> SUFFICES ASSUME IInv, fence.op \in Migrating, fence.token \notin undone,
                      cell[Run].token = fence.token, cell[Run].up
               PROVE  ~cell[Job(fence.op)].up /\ cell[Ready].token = fence.token /\ cell[Ready].ev > 0
    BY DEF RolloutFollowsMigration
  <2>1. Migration /\ Evidence
    BY DEF IInv, SchemaInv, RolledOut, Kept
  <2>2. cell[Ns].here
    BY RunIsThere, NamesDiffer DEF IInv, Base
  <2> QED
    BY <2>1, <2>2 DEF Migration, Evidence, Owned
<1>2. IInv => FenceIsSafe
  BY <1>1 DEF IInv, FenceIsSafe
<1> QED
  BY <1>2, InvariantHolds, PTL

-----------------------------------------------------------------------------
(* How the runtime moves                                                   *)

LEMMA DeletionIsOwn ==
  ASSUME IInv, [Next]_vars, ~dying, dying'
  PROVE  DeletedByItsOwn
<1> USE DEF IInv, Base
<1>1. ASSUME NEW r \in wire, Persist(r)
      PROVE  r.verb = "DELETE" /\ r.name = Ns /\ r.from = cell[Ns].token
  <2>1. r.verb = "DELETE" /\ r.name = Ns /\ r.admitted /\ Fits(r)
    BY <1>1 DEF Persist
  <2>2. r.fresh
    BY <2>1 DEF Fits
  <2> QED
    BY <2>1, <2>2 DEF DeletionInv
<1>2. ASSUME ~\E r \in wire : Persist(r) PROVE FALSE
  <2>1. ASSUME NEW r \in wire, Admit(r) PROVE FALSE
    BY <2>1, AdmitWire
  <2>2. ASSUME NEW n \in Names, JobRuns(n) PROVE FALSE
    BY <2>2 DEF JobRuns
  <2>3. CASE NamespaceGone
    BY <2>3 DEF NamespaceGone
  <2>4. CASE Settles
    BY <2>4 DEF Settles
  <2>5. ASSUME NEW c \in Calls, NEW q, Asks(c, q) PROVE FALSE
    BY <2>5 DEF Asks
  <2>6. ASSUME NEW c \in Calls, Claim(c) PROVE FALSE
    BY <2>6 DEF Claim
  <2> QED
    BY <1>2, <2>1, <2>2, <2>3, <2>4, <2>5, <2>6, Kinds
<1> QED
  BY <1>1, <1>2 DEF DeletedByItsOwn

\* An object that is not there has no content.
LEMMA RunContent ==
  ASSUME IInv
  PROVE  /\ cell[Run].spec \in Orders \cup {NoIntent}
         /\ ~cell[Ns].here => ~cell[Run].here /\ cell[Run].spec = NoIntent
  BY NamesDiffer DEF IInv, TypeOK, CellInv, Absent, Cells

\* Under an APPLIED receipt of a running command the workload keeps its content.
LEMMA ContentStays ==
  ASSUME IInv, Kept, fence.phase = "APPLIED", fence.op \in Lasting, NEW r \in wire, Persist(r)
  PROVE  cell'[Run].spec = cell[Run].spec
<1> USE DEF IInv, Base
<1>1. fence.op \in Orders /\ Run \in Names /\ Run # Ns
  BY NamesDiffer DEF Lasting, Orders
<1>2. CASE cell[Ns].here
  <2>1. Run \in Written(fence.op)
    BY <1>1, RunIsWritten
  <2>2. Owned(Run)
    BY <1>2, <2>1 DEF AppliedIsExclusive, Owned, Kept, Lasting
  <2>3. r.from # fence.token
    BY DEF AppliedInv
  <2> QED
    BY <1>1, <2>2, <2>3, OwnedStays
<1>3. CASE ~cell[Ns].here
  <2>1. ~cell[Run].here
    BY <1>3, RunContent
  <2>2. r.name # Run
    BY <1>1, <1>3, <2>1 DEF Persist, Fits
  <2> QED
    BY <1>1, <2>2, PersistCells
<1> QED
  BY <1>2, <1>3

\* A command that finished leaves its content.
LEMMA ContentDone ==
  ASSUME IInv, NEW c \in Calls, Holds(c), call[c].pc = "check", Finished(c), fence.op \in Lasting
  PROVE  cell[Run].spec \in {fence.op, NoIntent}
<1> USE DEF IInv, Base
<1>1. fence.op \in Orders
  BY DEF Lasting, Orders
<1>2. PICK k \in 1..Len(Plan(fence.op)) : Plan(fence.op)[k].do = "put" /\ Plan(fence.op)[k].name = Run
  BY <1>1, RunIsWritten, WrittenSteps
<1>3. k <= Stage(c)
  <2>1. call[c].order = fence.op /\ call[c].at \in Nat
    BY Holder, Numbers
  <2> QED
    BY <1>1, <1>2, <2>1, PlanSteps DEF Stage, Finished
<1>4. CASE cell[Ns].here
  BY <1>2, <1>3, <1>4 DEF ProgressInv, Owned
<1>5. CASE ~cell[Ns].here
  BY <1>5, RunContent
<1> QED
  BY <1>4, <1>5

LEMMA StepRefines == IInv /\ IInv' /\ [Next]_vars => [Runtime!Next]_(Runtime!vars)
<1> SUFFICES ASSUME IInv, IInv', [Next]_vars PROVE Runtime!Next \/ UNCHANGED Runtime!vars
  OBVIOUS
<1> USE DEF IInv, Base, Runtime!Next, Runtime!vars
<1>0. Run \in Names
  BY NamesDiffer
<1>1. ASSUME NEW c \in Calls, Claim(c), Newer(c) PROVE Runtime!Take
  <2>1. /\ fence'.token = call[c].token /\ fence.token < fence'.token
        /\ fence'.op = call[c].order /\ fence'.phase = "CLAIMED" /\ call[c].pc = "claim"
        /\ UNCHANGED <<cell, undone>>
    BY <1>1, ClaimFields
  <2>2. fence'.token \notin undone'
    BY <2>1, Numbers DEF TokenInv
  <2>3. fence'.op \in Orders
    BY <2>1 DEF CallInv, CallOK
  <2>4. fence'.token \in Nat /\ fence.token \in Nat
    BY <2>1, Numbers
  <2> QED
    BY <2>1, <2>2, <2>3, <2>4 DEF Runtime!Take
<1>2. ASSUME UNCHANGED <<fence, undone>>, cell'[Run].spec = cell[Run].spec PROVE UNCHANGED Runtime!vars
  BY <1>2
<1>3. ASSUME NEW c \in Calls, NEW q, Asks(c, q) PROVE UNCHANGED Runtime!vars
  BY <1>2, <1>3 DEF Asks
<1>4. ASSUME NEW r \in wire, Admit(r) PROVE UNCHANGED Runtime!vars
  BY <1>2, <1>4, AdmitWire
<1>5. ASSUME NEW r \in wire, Persist(r) PROVE Runtime!Next \/ UNCHANGED Runtime!vars
  <2>1. UNCHANGED <<fence, undone>>
    BY <1>5, PersistCells
  <2>2. cell'[Run].spec \in Orders \cup {NoIntent}
    BY <1>0 DEF TypeOK, Cells
  <2>3. CASE cell'[Run].spec = cell[Run].spec
    BY <1>2, <2>1, <2>3
  <2>4. CASE cell'[Run].spec # cell[Run].spec
    <3>1. ~(Kept /\ fence.phase = "APPLIED" /\ fence.op \in Lasting)
      BY <1>5, <2>4, ContentStays
    <3>2. Runtime!Work
      BY <2>1, <2>2, <3>1 DEF Runtime!Work, Kept, Lasting
    <3> QED
      BY <3>2
  <2> QED
    BY <2>3, <2>4
<1>6. ASSUME NEW n \in Names, JobRuns(n) PROVE UNCHANGED Runtime!vars
  <2>1. UNCHANGED <<fence, undone>> /\ cell'[Run].spec = cell[Run].spec
    BY <1>0, <1>6, JobCells
  <2> QED
    BY <1>2, <2>1
<1>7. CASE NamespaceGone
  <2>1. UNCHANGED <<fence, undone>> /\ cell'[Run].spec = NoIntent
    BY <1>0, <1>7, GoneCells DEF Absent
  <2>2. Runtime!Vanish
    BY <2>1 DEF Runtime!Vanish
  <2> QED
    BY <2>2
<1>8. CASE Settles
  <2>1. /\ UNCHANGED cell /\ fence'.token = fence.token /\ fence'.op = fence.op
        /\ undone \subseteq undone'
        /\ fence.token \notin undone' =>
              \/ fence'.phase = fence.phase
              \/ /\ fence'.phase = "APPLIED"
                 /\ \E c \in Calls : Holds(c) /\ call[c].pc = "check" /\ Finished(c)
    BY <1>8 DEF Settles
  <2>2. CASE fence.token \in undone'
    <3>1. Runtime!Break
      BY <2>1, <2>2 DEF Runtime!Break
    <3> QED
      BY <3>1
  <2>3. CASE fence.token \notin undone' /\ fence'.phase = fence.phase
    BY <2>1, <2>3
  <2>4. ASSUME fence.token \notin undone', fence'.phase = "APPLIED",
               NEW c \in Calls, Holds(c), call[c].pc = "check", Finished(c)
        PROVE  Runtime!Succeed
    <3>1. fence.phase = "CLAIMED" /\ fence.token \notin undone
      BY <2>1, <2>4, Holder
    <3>2. fence.op \in Lasting => cell[Run].spec \in {fence.op, NoIntent}
      BY <2>4, ContentDone
    <3> QED
      BY <2>1, <2>4, <3>1, <3>2 DEF Runtime!Succeed, Lasting
  <2> QED
    BY <2>1, <2>2, <2>3, <2>4
<1> QED
  BY <1>1, <1>3, <1>4, <1>5, <1>6, <1>7, <1>8, Kinds

LEMMA DeletionStepIsOwn ==
  IInv /\ [Next]_vars => [~dying /\ dying' => DeletedByItsOwn]_vars
  BY DeletionIsOwn

\* The adapter implements the runtime that the control service commands, and no
\* deletion of an older command removes a namespace that a newer one wrote
\* (#claimFence, #apply, #deleteNamespace, under the webhook and the policy).
THEOREM RuntimeHolds == Spec => RuntimeIsKept
<1>1. Init => Runtime!Init
  <2> SUFFICES ASSUME Init PROVE Runtime!Init
    OBVIOUS
  <2>1. undone = {}
    BY DEF Init
  <2>2. CASE fence = NoFence /\ \A n \in Names : cell[n] = Absent
    BY <2>1, <2>2, NamesDiffer DEF Runtime!Init, NoFence, Absent
  <2>3. ASSUME NEW i \in Orders, fence = [token |-> 1, op |-> i, phase |-> "APPLIED"]
        PROVE  Runtime!Init
    <3>1. cell[Run].spec = i
      BY <2>3, InitCells
    <3> QED
      BY <2>1, <2>3, <3>1 DEF Runtime!Init
  <2> QED
    BY <2>2, <2>3, InitCells
<1>2. Spec => DeletesItsOwn
  BY DeletionStepIsOwn, InvariantHolds, PTL DEF Spec, DeletesItsOwn
<1>3. Spec => ImplementsRuntime
  BY <1>1, InvariantHolds, StepRefines, PTL DEF Spec, ImplementsRuntime, Runtime!Spec, Runtime!vars
<1> QED
  BY <1>2, <1>3 DEF RuntimeIsKept
=============================================================================

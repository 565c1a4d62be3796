----------------------------- MODULE MCProgress -----------------------------
(* What must eventually happen in the usage outbox and in the bridge, on    *)
(* instances small enough for liveness.  A behaviour is of one of them, its *)
(* part; the other one stays in its initial state.                          *)
EXTENDS Outbox

CONSTANTS e1, e2, w1, w2, i1, i2, Gone

VARIABLES
    part,
    \* BridgeQueue
    queued, owner, refused, ripe, checkpoint, lock, at, seen, records, accepted, item,
    beat, source, approved, published, losses

bridge_vars == <<queued, owner, refused, ripe, checkpoint, lock, at, seen, records,
                 accepted, item, beat, source, approved, published, losses>>

\* The usage log, with an event that its transformer refuses.
AllEvents   == {e1, e2}
SecondEvent == {e2}
TwoWorkers  == {w1, w2}

\* The source has the item of the first page, then a new one on the second.
Items == {i1, i2}
Bridge == INSTANCE BridgeQueue
    WITH Workers <- {w1}, Versions <- 2, Offered <- <<{i1}, {i1, i2}>>, FirstPage <- {i1},
         MaxFaults <- 1,
         status <- queued, attempts <- refused, due <- ripe, pc <- at, faults <- losses

-----------------------------------------------------------------------------
BothInit ==
    /\ part \in {"usage", "bridge"}
    /\ Init /\ Bridge!Init
    /\ part = "usage" => approved = {}

Usage    == part = "usage" /\ UNCHANGED <<part, bridge_vars>>
OfBridge == part = "bridge" /\ UNCHANGED <<part, vars>>

OneNext == (Usage /\ Next) \/ (OfBridge /\ Bridge!Next)

\* Fairness and Bridge!Fairness, each while a behaviour is of that part.
OneFairness ==
    /\ \A w \in Workers : WF_vars(Usage /\ Step(w))
    /\ \A e \in Events : WF_vars(Usage /\ TimePasses(e))
    /\ WF_bridge_vars(OfBridge /\ Bridge!Step(w1))
    /\ \A i \in Items : WF_bridge_vars(OfBridge /\ Bridge!TimePasses(i))
    /\ WF_bridge_vars(OfBridge /\ Bridge!OperatorClears)

ProgressSpec == BothInit /\ [][OneNext]_<<part, vars, bridge_vars>> /\ OneFairness

-----------------------------------------------------------------------------
\* What the bridge has queued gets settled, and when its records stay approved
\* the polls become cheap (durable-store.mjs, worker.mjs).
ItemsSettle == part = "bridge" => Bridge!EveryItemSettles /\ Bridge!CheckpointCatchesUp
=============================================================================

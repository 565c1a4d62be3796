------------------------------- MODULE Queues -------------------------------
(* The queue of the bridge, the outbox of the WORM archive and the state     *)
(* file of the discovery synchronizer with its commands, which share         *)
(* nothing, in one specification.  A behaviour is of one of them, its part;  *)
(* the others stay in their initial states.                                  *)
EXTENDS BridgeQueue, Sequences

CONSTANTS
    Parts,  \* of "bridge", "archive" and "discovery"
    \* Outbox
    Events, MaxClaims, BatchSize, MaxTroubles,
    \* Discovery
    Keys, Order, Batches, Inputs, Registries, GrantOf, Configs, NamespaceOf,
    MaxTime, KeptPerChain, MaxCandidates, MaxCommands, Runs, NoGrant, NoRun, Orphan

VARIABLES
    part,
    \* Outbox
    stage, claimedBy, claims, ripe, place, batch, current, head, stored, troubles,
    \* Discovery
    state, latch, running

outbox_vars == <<stage, claimedBy, claims, ripe, place, batch, current, head, stored,
                 troubles>>
discovery_vars == <<state, latch, running>>

ASSUME OutboxAssumption ==
    /\ MaxClaims \in Nat \ {0} /\ BatchSize \in Nat \ {0}
    /\ MaxTroubles \in Nat

Outbox == INSTANCE Outbox
    WITH Invalid <- {}, MaxAttempts <- MaxClaims, Archive <- TRUE, MaxFaults <- MaxTroubles,
         status <- stage, attempts <- claims, due <- ripe, pc <- place, faults <- troubles

Discovery == INSTANCE Discovery
    WITH Kept <- KeptPerChain, file <- state, lock <- latch, run <- running

-----------------------------------------------------------------------------
(* What the proofs assume of the constants of Discovery.                     *)

\* Every record is listed; the records, versions and contents of a batch are those
\* that validateBatch lets pass; a validity interval has two instants; and what is
\* absent (null, undefined) is no digest, no Dataset ID and no lock owner.
ASSUME DiscoveryAssumption ==
    /\ {MaxTime, MaxCommands} \subseteq Nat
    /\ {KeptPerChain, MaxCandidates} \subseteq Nat \ {0}
    /\ Len(Order) \in Nat /\ DOMAIN Order = 1..Len(Order)
    /\ \A k \in Keys : \E i \in DOMAIN Order : k = Order[i]
    /\ \A i \in DOMAIN Order : Order[i] \in Keys
    /\ \A b \in Batches :
         /\ Len(b) \in Nat /\ DOMAIN b = 1..Len(b)
         /\ \A i \in DOMAIN b : /\ b[i].key \in Keys /\ b[i].ver \in Nat
                                /\ b[i].what \in Discovery!Kinds
                                /\ \A registry \in Registries :
                                     LET grant == GrantOf[registry][<<b[i].key, b[i].ver>>]
                                     IN  grant # NoGrant => {grant.from, grant.until} \subseteq Nat
    /\ \A input \in Inputs : input.registry \in Registries /\ input.config \in Configs
    /\ Discovery!None \notin Registries \cup Configs
    /\ \A config \in Configs : NamespaceOf[config] # Discovery!None
    /\ NoRun \notin Runs /\ Orphan \notin Runs /\ NoRun # Orphan

-----------------------------------------------------------------------------
BothInit ==
    /\ part \in Parts
    /\ Init /\ Outbox!Init /\ Discovery!Init
    /\ part # "bridge" => approved = {}

OfBridge    == part = "bridge" /\ UNCHANGED <<part, outbox_vars, discovery_vars>>
OfArchive   == part = "archive" /\ UNCHANGED <<part, vars, discovery_vars>>
OfDiscovery == part = "discovery" /\ UNCHANGED <<part, vars, outbox_vars>>

OneNext ==
    \/ OfBridge /\ Next
    \/ OfArchive /\ Outbox!Next
    \/ OfDiscovery /\ Discovery!Next

queues_vars == <<part, vars, outbox_vars, discovery_vars>>

QueuesSpec == BothInit /\ [][OneNext]_queues_vars

-----------------------------------------------------------------------------
\* The archive has what is published, and one record per event, however often and
\* by however many workers it was delivered (WormOutboxDispatcher).
ArchiveIsExact == Outbox!TypeOK /\ Outbox!PublishedIsStored /\ Outbox!StoredOnce

\* The state file is loadable, its commands reviewable, complete, of the latest
\* events and of the approvals the review read (synchronizeBatch,
\* reviewPendingOutboxEvents).
StateIsSound ==
    /\ Discovery!StateIsLoadable /\ Discovery!PendingIsReviewable /\ Discovery!NothingStaysOut
    /\ Discovery!LatestEventWins /\ Discovery!ListedIsApproved

\* An applied event stays applied, a withdrawn record stays withdrawn, over every
\* run and every crash (withStateLock, TERMINAL_RECORD_REVIVAL).
StateIsKept == Discovery!AppliedIsKept /\ Discovery!WithdrawnIsFinal
=============================================================================

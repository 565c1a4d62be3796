------------------------------ MODULE MCQueues ------------------------------
(***************************************************************************)
(* Queues on small instances.  Discovery has one record that is offered,   *)
(* changed, quarantined and deleted in any order, and a second one that    *)
(* shares the batches, the clock and the outbox sequence with it.          *)
(***************************************************************************)
EXTENDS Queues, TLC

CONSTANTS i1, i2, e1, e2, w1, w2, k1, k2, ra, rb, c1, c2

TwoItems   == {i1, i2}
TwoEvents  == {e1, e2}
TwoWorkers == {w1, w2}

\* The item of the second page is replaced by one of the first.
Moving == <<{i2}, {i1}>>
First  == {i1}

-----------------------------------------------------------------------------
(* Discovery                                                               *)

Event(id, key, ver, what) == [id |-> id, key |-> key, ver |-> ver, what |-> what]

Offer     == Event("e1", k1, 1, "offering")
Changed   == Event("e2", k1, 2, "offering")
Tombstone == Event("e3", k1, 2, "deleted")
Broken    == Event("e4", k1, 3, "broken")
Second    == Event("e1", k2, 1, "restricted")

MCBatches == {<<Offer>>, <<Changed>>, <<Second, Tombstone>>, <<Broken>>}

MCOrder == <<k1, k2>>

Grant(public, offering, from, until) ==
  [public |-> public, offering |-> offering, from |-> from, until |-> until]

\* The first registry approves version 1 for a while and version 2 from later
\* on; the second one approves other versions, and the same one anew.
MCGrantOf ==
  (ra :> [kv \in {k1, k2} \X (1..3) |->
           CASE kv = <<k1, 1>> -> Grant(TRUE, TRUE, 0, 0)
             [] kv = <<k1, 2>> -> Grant(TRUE, TRUE, 1, 1)
             [] kv = <<k1, 3>> -> Grant(TRUE, FALSE, 0, 1)
             [] OTHER -> NoGrant])
  @@ (rb :> [kv \in {k1, k2} \X (1..3) |->
           CASE kv = <<k1, 1>> -> Grant(TRUE, TRUE, 0, 0)
             [] kv = <<k1, 2>> -> Grant(TRUE, FALSE, 0, 1)
             [] OTHER -> NoGrant])

MCInputs == {[registry |-> ra, config |-> c1], [registry |-> rb, config |-> c1],
             [registry |-> ra, config |-> c2]}
MCNamespaceOf == (c1 :> "n1") @@ (c2 :> "n2")

-----------------------------------------------------------------------------
\* Processes differ in nothing but their names.
Symmetry == Permutations(TwoWorkers)
=============================================================================

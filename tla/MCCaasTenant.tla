--------------------------- MODULE MCCaasTenant ----------------------------
(* Two calls beside each other, two connector plans.                       *)
EXTENDS CaasTenant, TLC

CONSTANTS a, b, p1, p2

MCCalls  == {a, b}
MCOneCall == {a}
MCPlans  == {p1, p2}
MCSymmetry == Permutations(MCCalls)
=============================================================================

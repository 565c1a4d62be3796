------------------------ MODULE MCKubernetesFence -------------------------
(* Two overlapping calls on one tenant, commands with and without a schema. *)
EXTENDS KubernetesFence, TLC

CONSTANTS a, b

MCCalls    == {a, b}
MCOneCall  == {a}
MCSymmetry == Permutations(MCCalls)

=============================================================================

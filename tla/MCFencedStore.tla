--------------------------- MODULE MCFencedStore ---------------------------
(* Two leased calls, one call without a lease, two lease connections.      *)
EXTENDS FencedStore, TLC

CONSTANTS a, b, w, s1, s2

MCClients  == {a, b, w}
MCLeased   == {a, b}
MCSessions == {s1, s2}

\* Leased calls are interchangeable, and so are connections.
MCSymmetry == Permutations(MCLeased) \cup Permutations(MCSessions)

=============================================================================

----------------------------- MODULE MCServices -----------------------------
(* Services on small instances. *)
EXTENDS Services, TLC

-----------------------------------------------------------------------------
(* Two scopes, a record whose scope is shown and one that needs the map.    *)
MCScopes == {"s1", "s2"}
MCKeys   == {"k1", "k2"}
MCProven == {"k1"}

-----------------------------------------------------------------------------
Request(session, kind, expires, of, op, expected, content, clean) ==
    [at |-> "idle", session |-> session, mode |-> kind, expires |-> expires, of |-> of,
     op |-> op, expected |-> expected, content |-> content, clean |-> clean,
     answer |-> None, when |-> 0]

\* What a tenant does with its own rows, a service with the rows it serves, and
\* every kind of session with the rows of another tenant.
MCTenantRequests ==
    { Request("t1", "tenant", 0, "t1", "put", 0, "w1", TRUE),
      Request("t1", "tenant", 0, "t1", "put", 1, "w1", TRUE),
      Request("t1", "tenant", 0, "t1", "bind", 0, "w1", TRUE),
      Request("t1", "tenant", 0, "t1", "bind", 0, "w2", TRUE),
      Request("t1", "tenant", 0, "t1", "bind", 0, "w2", FALSE),
      Request("t1", "tenant", 0, "t2", "read", 0, "w1", TRUE),
      Request("t1", "service", 0, "t1", "claim", 0, "w1", TRUE),
      Request("t1", "service", 0, "t1", "acknowledge", 0, "w1", TRUE),
      Request("t1", "service", 0, "t2", "put", 0, "w1", TRUE),
      Request("t2", "break-glass", 0, "t1", "read", 0, "w1", TRUE),
      Request("t2", "break-glass", MaxTime, "t1", "read", 0, "w1", TRUE),
      Request("t2", "break-glass", MaxTime, "t1", "overwrite", 0, "w2", TRUE) }

-----------------------------------------------------------------------------
(* The second rebuild repeats the operation of the first over another range.*)
MCOperationOf == [b \in {"b1", "b2"} |-> "op"]
MCRangeOf     == [b \in {"b1", "b2"} |-> IF b = "b1" THEN {1, 2} ELSE {2}]

-----------------------------------------------------------------------------
(* CaaS, with a write of one tenant and a read of another.                  *)
MCRightsOf ==
    [p \in {"admin", "tenant", "nobody"} |->
        CASE p = "admin" -> "all" [] p = "tenant" -> "t1" [] OTHER -> "none"]
MCTenantOf == [r \in {"r1", "r2"} |-> IF r = "r1" THEN "t1" ELSE "t2"]

-----------------------------------------------------------------------------
(* Two publications of one asset that differ in what they say of it.        *)
MCResources == [p \in Publishers |-> <<"policy", "asset", "definition">>]
MCContentOf == [p \in Publishers |-> [o \in Objects |-> IF o = "asset" THEN p ELSE "shared"]]

-----------------------------------------------------------------------------
(* Addresses of three bits, and of two words of three bits.                 *)
Rule4(p, b, c) == [prefix |-> p, bits |-> b, class |-> c]
Rule6(p, b, c, e) == [prefix |-> p, bits |-> b, class |-> c, embedded |-> e]

MCSpecial4 ==
    {<<Rule4(0, 2, "private"), Rule4(0, 1, "forbidden")>>,
     <<Rule4(4, 1, "public"), Rule4(6, 2, "forbidden"), Rule4(7, 3, "private")>>}
MCSpecial6 ==
    {<<Rule6(<<0, 0>>, 2, "forbidden", FALSE), Rule6(<<0, 4>>, 3, "public", TRUE),
       Rule6(<<1, 0>>, 5, "private", FALSE)>>}
MCAllocated6 == {[prefix |-> <<4, 0>>, bits |-> 1], [prefix |-> <<2, 4>>, bits |-> 4]}
-----------------------------------------------------------------------------
(* The publications differ in nothing but their names, nor do the requests. *)
Symmetry == Permutations(Publishers) \cup Permutations(UsageRequests)
=============================================================================

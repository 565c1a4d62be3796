----------------------------- MODULE MCProfiles -----------------------------
(* Profiles on small instances. *)
EXTENDS Profiles, TLC

-----------------------------------------------------------------------------
(* Network references: a history of three editions, and three editions of   *)
(* which none is replaced.                                                  *)

Edition(version, status, from, until, replacement) ==
    [authority |-> "a", identifier |-> "n", version |-> version, checksum |-> 1, status |-> status,
     from |-> from, until |-> until, replacement |-> replacement, wellFormed |-> TRUE]

MCSubjects == <<"n1", "n2", "n3">>
MCFirstGraphs ==
    {[n1 |-> Edition(1, "superseded", 1, 1, "n2"),
      n2 |-> Edition(2, "superseded", 2, 2, "n3"),
      n3 |-> Edition(3, "current", 3, None, None)],
     [n1 |-> Edition(1, "withdrawn", 1, 2, None),
      n2 |-> Edition(2, "current", 1, 3, None),
      n3 |-> Edition(3, "candidate", 3, None, None)]}
MCDomain ==
    [authority |-> {"a", "b"}, identifier |-> {"n", "m"}, version |-> 1..3,
     checksum |-> 1..2, from |-> 1..3, until |-> (1..3) \cup {None},
     status |-> {"candidate", "current", "superseded", "withdrawn", "retired"},
     replacement |-> {"n1", "n2", "n3", None, Outside}, wellFormed |-> BOOLEAN]

-----------------------------------------------------------------------------
(* Validation: "long" is over the limit before its violation, "geo" is      *)
(* routed to another profile, "public" raises one finding twice,            *)
(* "recommended" only warns.                                                *)

Judging == {"core", "network", Publication}

MCRaised == [d \in Documents |-> IF d = "public" THEN <<"pii", "pii">> ELSE <<>>]
MCRouted == [d \in Documents |-> IF d = "geo" THEN <<"s1", "s2">> ELSE <<>>]
MCResults ==
    [n \in Judging |-> [c \in {1, 2} |-> [d \in Documents |->
        IF d = "long" /\ c = 1 THEN <<"Info", "Violation">>
        ELSE IF d = "recommended" /\ n = Publication THEN <<"Warning">>
        ELSE IF d = "clean" /\ c = 2 THEN <<"Violation">>
        ELSE <<>>]]]
MCNetworkHolds == [c \in {1, 2} |-> [d \in Documents |-> c = 1 \/ d # "long"]]
MCShapesOf == [n \in Judging |-> IF n = Publication THEN "policy" ELSE "shapes"]

-----------------------------------------------------------------------------
(* Requirement evidence: two constraints, the second owned by the first;    *)
(* four rules, two of which show the same row.  good conforms to all but    *)
(* one rule; bad breaks k2 alone, one k1 alone, both the two together.      *)

MCShown == [m1 |-> "a", m2 |-> "b", m3 |-> "a", m4 |-> "b"]
MCFlaws == [m1 |-> {}, m2 |-> {}, m3 |-> {}, m4 |-> {"helper"}]
MCOwner == [k \in Keys |-> "k1"]
MCBreaks ==
    [good |-> {<<"k1", "m3">>},
     bad  |-> {<<"k2", "m1">>, <<"k2", "m2">>},
     one  |-> {<<"k1", "m1">>, <<"k1", "m2">>},
     both |-> {<<"k1", "m1">>, <<"k2", "m1">>, <<"k2", "m3">>}]
MCActivates ==
    [good |-> (Keys \X Rules) \ {<<"k2", "m4">>},
     bad  |-> Keys \X Rules, one |-> {"k1"} \X Rules, both |-> {}]
MCMutations ==
    [x \in Keys \X Rules |->
        IF x[1] = "k1" THEN IF x[2] = "m2" THEN {"both"} ELSE {"one", "both"}
        ELSE IF x[2] = "m3" THEN {"both"} ELSE {"bad", "both"}]
MCFirstShapes == [k1 |-> [id |-> "r1", rule |-> "m1"], k2 |-> [id |-> "r2", rule |-> "m1"]]
MCFirstFixtures == [positive |-> "good", curated |-> "bad"]

-----------------------------------------------------------------------------
(* Release gate: the acceptance register of the policy, one with an open    *)
(* item of the core, one without a pinned item; coverage evidence of two    *)
(* kinds without a blocker and one with; of every other file two contents.  *)

Item(scope, status, c, r) ==
    [scope |-> scope, status |-> status, candidate |-> c, recommendation |-> r]
Fixed == Item("profile-core", "fixed", FALSE, FALSE)
MCPins ==
    [id \in {"RA-REQUIREMENTS", "RA-RUNTIME", "RA-MULTI-ENGINE-MATRIX",
             "RA-SERIALIZATION-PARITY", "RA-LOCK", "RA-GIT"} |-> Fixed]
    @@ [id \in {"RA-SOURCE-RIGHTS"} |->
            Item("institutional", "blocked-external-evidence", FALSE, TRUE)]
    @@ [id \in {"RA-ONEWINDOW"} |->
            Item("interoperability-pack", "deferred-nonblocking", FALSE, FALSE)]
Blindspot(status, scope) == [required |-> TRUE, status |-> status, scope |-> scope]
MCAcceptanceOf ==
    << MCPins,
       MCPins @@ [id \in {"RA-EXTRA"} |-> Item("profile-core", "open", TRUE, TRUE)],
       [id \in DOMAIN MCPins \ {"RA-RUNTIME"} |-> MCPins[id]] >>
MCBlindspots ==
    << {Blindspot("fixed", "standard-core"), Blindspot("open", "bridge-runtime"),
        Blindspot("blocked-external-evidence", "standard-core")},
       {Blindspot("open", "standard-core")} >>
MCRevisions == [f \in {"manifest", "register", "coverage", "registry", "bundle"} |->
                IF f \in {"register", "coverage"} THEN 1..3 ELSE 1..2]
MCPassingPairs == {<<1, 1>>, <<2, 2>>, <<1, 2>>}
MCDecided == [matrix |-> MCPassingPairs, parity |-> MCPassingPairs]

-----------------------------------------------------------------------------
(* Provider authority: one authority over both scopes, one over the second  *)
(* whose interval is short; the last date lies past it and past the age of  *)
(* what was checked at first.                                               *)

Interval(from, until) == [from |-> from, until |-> until]

MCCovers == [a1 |-> {"s1", "s2"}, a2 |-> {"s2"}]
MCScopeOf == [r1 |-> "s1", r2 |-> "s2"]
MCTerms == [a1 |-> {Interval(0, 3)}, a2 |-> {Interval(1, 2)}]
=============================================================================

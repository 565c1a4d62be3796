---------------------------- MODULE AddressPolicy ----------------------------
(***************************************************************************)
(* Which addresses a request may connect to: network-address-policy.mjs,   *)
(* the classification of an address by the registries of special           *)
(* addresses, and resolveUrlPolicy of http-client.mjs, the rule it feeds.  *)
(* An IPv6 address is a tuple of words, an IPv4 address is one number of   *)
(* WordBits bits; the last word of an address under an embedding prefix is *)
(* an IPv4 address.  A name server answers every request anew: a request   *)
(* judges the addresses it was given and its connection is pinned to them. *)
(* With allowPrivate nothing is judged: the services refuse a production   *)
(* configuration that sets it (dsaas/config.mjs, transfer-runtime/         *)
(* config.mjs), the bridge one outside of tests (cli.mjs, fixtureMode).    *)
(***************************************************************************)
EXTENDS Naturals, Sequences, SequencesExt

CONSTANTS
    WordBits,    \* bits of a word
    Words,       \* words of an IPv6 address
    Special4,    \* tables of IPv4 rules, in the order of the registry
    Special6,    \* tables of IPv6 rules
    Allocated6   \* the prefixes of global unicast space

VARIABLES
    table4, table6,  \* the registries in force
    answer,          \* the addresses the name resolved to
    listed,          \* the origin is one of privateOrigins
    environment,
    allowPrivate,    \* of the policy, as the configuration has it
    verdict

vars == <<table4, table6, answer, listed, environment, allowPrivate, verdict>>
config == <<listed, environment, allowPrivate>>

Word == 0..(2^WordBits - 1)
Address4 == [family : {4}, words : [1..1 -> Word]]
Address6 == [family : {6}, words : [1..Words -> Word]]
Address == Address4 \cup Address6

Init ==
    /\ table4 \in Special4 /\ table6 \in Special6
    /\ answer = <<>> /\ listed \in BOOLEAN /\ verdict = "none"
    /\ environment \in {"production", "test"} /\ allowPrivate \in BOOLEAN

-----------------------------------------------------------------------------
(* The classification                                                      *)

\* The most significant bits of a word, the others cleared.
Masked(word, bits) == word - (word % 2^(WordBits - bits))

\* Mutant: a table is searched in the order of its registry.
Ordered_AsListed(table) == table

(* IPV4_RULES, IPV6_RULES: longest prefix first; the sort is stable.       *)
Ordered(table) ==
    LET Precedes(i, j) == table[i].bits > table[j].bits \/ (table[i].bits = table[j].bits /\ i < j)
        Rank(i) == Len(SelectSeq([j \in DOMAIN table |-> j], LAMBDA j : Precedes(j, i))) + 1
    IN  [k \in DOMAIN table |-> table[CHOOSE i \in DOMAIN table : Rank(i) = k]]

MatchesIpv4(value, rule) == Masked(value, rule.bits) = Masked(rule.prefix, rule.bits)

ClassifyIpv4(value) ==
    LET hits == SelectSeq(Ordered(table4), LAMBDA r : MatchesIpv4(value, r))
    IN  IF hits = <<>> THEN "public" ELSE hits[1].class

(* Whole words first, then what is left of the prefix in the next one.     *)
MatchesIpv6Prefix(words, rule) ==
    LET full == rule.bits \div WordBits
        left == rule.bits % WordBits
    IN  /\ \A i \in 1..full : words[i] = rule.prefix[i]
        /\ left > 0 => Masked(words[full + 1], left) = Masked(rule.prefix[full + 1], left)

ClassifyIpv6(words) ==
    LET hits == SelectSeq(Ordered(table6), LAMBDA r : MatchesIpv6Prefix(words, r))
        allocated == \E a \in Allocated6 : MatchesIpv6Prefix(words, a)
    IN  CASE hits # <<>> /\ hits[1].embedded -> ClassifyIpv4(words[Words])
          [] hits # <<>> /\ ~hits[1].embedded -> hits[1].class
          [] OTHER -> IF allocated THEN "public" ELSE "forbidden"

ClassifyNetworkAddress(address) ==
    IF address.family = 4 THEN ClassifyIpv4(address.words[1]) ELSE ClassifyIpv6(address.words)

-----------------------------------------------------------------------------
(* The rule                                                                *)

(* The configuration is checked before the first request.                  *)
Configure ==
    /\ verdict = "none"
    /\ verdict' = IF environment = "production" /\ allowPrivate THEN "rejected" ELSE "configured"
    /\ UNCHANGED <<table4, table6, answer, config>>

(* Every address of the answer is judged; a private one needs the origin   *)
(* in the exact list.  A connection needs an address in any case.          *)
Permitted ==
    LET classes == {ClassifyNetworkAddress(answer[i]) : i \in DOMAIN answer}
    IN  /\ answer # <<>>
        /\ ~allowPrivate => "forbidden" \notin classes
        /\ ~allowPrivate => ("private" \in classes => listed)

(* An answer of none, one or two addresses.                                *)
Resolve ==
    /\ verdict = "configured"
    /\ \E n \in 0..2 : answer' \in TupleOf(Address, n)
    /\ verdict' = "resolved"
    /\ UNCHANGED <<table4, table6, config>>

Judge ==
    /\ verdict = "resolved"
    /\ verdict' = IF Permitted THEN "connect" ELSE "refuse"
    /\ UNCHANGED <<table4, table6, answer, config>>

Next == Configure \/ Resolve \/ Judge

Spec == Init /\ [][Next]_vars
-----------------------------------------------------------------------------
(* Properties                                                              *)

TypeOK ==
    /\ answer \in Seq(Address) /\ Len(answer) <= 2
    /\ verdict \in {"none", "rejected", "configured", "resolved", "connect", "refuse"}

(* The address as one number, and the block of numbers a rule names.       *)
Number(words) == FoldLeft(LAMBDA n, w : n * 2^WordBits + w, 0, words)
Block(first, bits, width) ==
    LET size == 2^(width - bits) IN (first \div size) * size .. (first \div size) * size + size - 1

\* The rules of a table whose block holds n, none of the others a part of it.
Narrowest(table, n, width, First(_)) ==
    LET block == [i \in DOMAIN table |-> Block(First(table[i]), table[i].bits, width)]
        holds == {i \in DOMAIN table : n \in block[i]}
    IN  {table[i] : i \in {i \in holds : \A j \in holds : block[j] \subseteq block[i] => block[j] = block[i]}}

Class4(n) ==
    LET rules == Narrowest(table4, n, WordBits, LAMBDA r : r.prefix)
    IN  IF rules = {} THEN {"public"} ELSE {r.class : r \in rules}

Class6(words) ==
    LET width == WordBits * Words
        rules == Narrowest(table6, Number(words), width, LAMBDA r : Number(r.prefix))
        allocated == \E a \in Allocated6 : Number(words) \in Block(Number(a.prefix), a.bits, width)
    IN  IF rules = {} THEN {IF allocated THEN "public" ELSE "forbidden"}
        ELSE UNION {IF r.embedded THEN Class4(words[Words]) ELSE {r.class} : r \in rules}

(* The classes the registries give an address, read as blocks of numbers:  *)
(* the narrowest block that holds it decides, whatever its place.          *)
ClassOf(address) == IF address.family = 4 THEN Class4(address.words[1]) ELSE Class6(address.words)

(* Without allowPrivate, and in production whatever the configuration     *)
(* says, a connection is made only when each address it could be pinned to *)
(* lies in public space or, for a listed origin, in private space: no      *)
(* wider block decides over a narrower one, and no second address of an    *)
(* answer escapes the rule (the sort and the find of                       *)
(* network-address-policy.mjs, the every and the some of resolveUrlPolicy, *)
(* the checks of the two config.mjs).                                      *)
PinnedIsPermitted ==
    verdict = "connect" =>
        /\ answer # <<>>
        /\ environment = "production" \/ ~allowPrivate =>
             \A i \in DOMAIN answer :
                ClassOf(answer[i]) \subseteq {"public"} \cup (IF listed THEN {"private"} ELSE {})
=============================================================================

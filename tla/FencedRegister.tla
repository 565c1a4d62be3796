--------------------------- MODULE FencedRegister ---------------------------
(***************************************************************************)
(* What a fenced store promises about one record, without locks, sessions  *)
(* or processes: writes take effect one at a time, in the order of the     *)
(* fencing tokens they were made under, each writer is told the truth, and *)
(* a write nobody confirmed may or may not be there.                       *)
(***************************************************************************)
EXTENDS Naturals

CONSTANTS Writes    \* the writes anybody may attempt

VARIABLES content,  \* the writes in the record
          newest,   \* the fencing token of the newest leased write in it
          told      \* what the writer was told of each write

regVars == <<content, newest, told>>

Answers == {"ok", "failed", "unknown"}

RegInit == /\ content = {}
           /\ newest  = 0
           /\ told    = [w \in Writes |-> "pending"]

\* A write takes effect, under a token no older than the record's newest; the
\* writer learns it, or is left without an answer.
Take(w) ==
    /\ told[w] = "pending" /\ w \notin content
    /\ content' = content \cup {w}
    /\ newest' \in Nat /\ newest' >= newest
    /\ told' \in {[told EXCEPT ![w] = "ok"], [told EXCEPT ![w] = "unknown"]}

\* A write has no effect, and the writer is told so or is left without answer.
Refuse(w) ==
    /\ told[w] = "pending" /\ w \notin content
    /\ told' \in {[told EXCEPT ![w] = "failed"], [told EXCEPT ![w] = "unknown"]}
    /\ UNCHANGED <<content, newest>>

RegNext == \E w \in Writes : Take(w) \/ Refuse(w)

RegSpec == RegInit /\ [][RegNext]_regVars
=============================================================================

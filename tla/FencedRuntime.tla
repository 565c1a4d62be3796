--------------------------- MODULE FencedRuntime ---------------------------
(***************************************************************************)
(* What CaasTenant relies on when it commands a connector runtime: a       *)
(* command is taken only with a token above every earlier one, and a       *)
(* runtime that reports it applied runs the commanded content, which       *)
(* changes only when a newer command is taken, when the command itself is  *)
(* withdrawn, or when the runtime is taken away as a whole.                *)
(***************************************************************************)
EXTENDS Naturals

CONSTANTS Orders, Running, NoOrder   \* Running: the orders that leave a workload in place

VARIABLES token, order, outcome, content

vars == <<token, order, outcome, content>>

Init ==
    /\ token \in Nat /\ order \in Orders \cup {NoOrder}
    /\ outcome \in {"NONE", "APPLIED"}
    /\ content = IF outcome = "APPLIED" THEN order ELSE NoOrder

Take ==
    /\ token' \in Nat /\ token' > token
    /\ order' \in Orders /\ outcome' = "CLAIMED"
    /\ UNCHANGED content

\* The command in progress, or what is left of an abandoned one, changes the runtime.
Work ==
    /\ outcome = "APPLIED" => order \notin Running
    /\ content' \in Orders \cup {NoOrder}
    /\ UNCHANGED <<token, order, outcome>>

Succeed ==
    /\ outcome = "CLAIMED" /\ outcome' = "APPLIED"
    /\ order \in Running => content \in {order, NoOrder}
    /\ UNCHANGED <<token, order, content>>

\* The command failed, at the latest while its result was being observed.
Break ==
    /\ outcome' = "BROKEN"
    /\ UNCHANGED <<token, order, content>>

\* The namespace an earlier command deleted is gone.
Vanish ==
    /\ content' = NoOrder
    /\ UNCHANGED <<token, order, outcome>>

Next == Take \/ Work \/ Succeed \/ Break \/ Vanish

Spec == Init /\ [][Next]_vars
=============================================================================

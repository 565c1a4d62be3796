------------------------- MODULE MCDsaasReconcile -------------------------
(* DsaasReconcile on small instances. *)
EXTENDS DsaasReconcile

MCWants == [p \in Participants |-> "ACTIVE"]
MCSubmitter == [p \in Participants |-> CHOOSE a \in Admins : TRUE]

\* Two participants without faults; one with a fault, and so with two calls; one
\* whose registries change twice beside a manual call.
MCFirst == {CHOOSE p \in Participants : TRUE}
MCBudgets ==
    {[applicants |-> Participants, asks |-> 2, manual |-> 0, changes |-> 1, faults |-> 0],
     [applicants |-> MCFirst, asks |-> 2, manual |-> 0, changes |-> 1, faults |-> 1],
     [applicants |-> MCFirst, asks |-> 1, manual |-> 1, changes |-> 2, faults |-> 0]}

\* Two approvals and a desired-state change beside a revocation.
MCBlocked == {[applicants |-> Participants, asks |-> 3, manual |-> 0, changes |-> 1, faults |-> 0]}

-----------------------------------------------------------------------------
\* The desired state reaches CaaS, and so does a revocation (DsaasScheduler).
IntentReaches == Converges /\ RevocationReaches
=============================================================================

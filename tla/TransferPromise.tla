--------------------------- MODULE TransferPromise ---------------------------
(***************************************************************************)
(* What the provider transfer worker promises about one transfer: the      *)
(* state of the transfer at the connector and the access to the source at  *)
(* the platform.  Journals, locks, crashes and retries do not show.        *)
(***************************************************************************)

VARIABLES
    connector,  \* the connector's authoritative state of the transfer
    access      \* "never", "granted", "revoked"; "absent" once a revocation found
                \* nothing to revoke, "revived" when it was granted after that

Init == connector = "START_AUTHORIZED" /\ access = "never"

\* Access is granted once, and before any revocation.
Grant == /\ access = "never" /\ connector # "TERMINATED"
         /\ access' = "granted" /\ UNCHANGED connector

\* A started transfer has its source.
Start == /\ connector = "START_AUTHORIZED" /\ access = "granted"
         /\ connector' = "STARTED" /\ UNCHANGED access

\* The connector decides to end the transfer.
AuthorizeTermination ==
    /\ connector \in {"START_AUTHORIZED", "STARTED"}
    /\ connector' = "TERMINATION_AUTHORIZED" /\ UNCHANGED access

\* Access is taken away only from a transfer that is to end.
Revoke == /\ connector \in {"TERMINATION_AUTHORIZED", "TERMINATED"}
          /\ \/ access \in {"granted", "revived"} /\ access' = "revoked"
             \/ access = "never" /\ access' = "absent"
          /\ UNCHANGED connector

\* The one exception: a grant that was asked for before the transfer was to end and
\* comes after the revocation was answered.
Revive == /\ access = "absent" /\ connector \in {"TERMINATION_AUTHORIZED", "TERMINATED"}
          /\ access' = "revived" /\ UNCHANGED connector

\* The transfer ends after its revocation.
Terminate == /\ connector = "TERMINATION_AUTHORIZED"
             /\ access \in {"revoked", "absent", "revived"}
             /\ connector' = "TERMINATED" /\ UNCHANGED access

Next == Grant \/ Start \/ AuthorizeTermination \/ Revoke \/ Revive \/ Terminate

Spec == Init /\ [][Next]_<<connector, access>>

=============================================================================

--------------------------- MODULE ServicesProofs ---------------------------
(***************************************************************************)
(* What the small services guarantee for all values of the constants.      *)
(* Each part has an inductive invariant of its own; a step of Services is  *)
(* a step of one part, and leaves the variables of the others as they are. *)
(***************************************************************************)
EXTENDS Services, FiniteSetTheorems, TLAPS

-----------------------------------------------------------------------------
(* The transfer worker, for any number of processes and of faults.  The      *)
(* operation lock leaves one process at a time, so the phase it read is the  *)
(* phase of the journal; each place of a worker implies what the journal, the*)
(* connector and the platform have reached before it; and a request that     *)
(* comes late was sent at a place whose condition, once true, stays true.    *)
(* Only the grant of access is not of that kind: when it comes after the     *)
(* revocation was answered it revives the access, and nothing else does.     *)

-----------------------------------------------------------------------------
(* The inductive invariant                                                 *)

Ending    == {"TERMINATION_AUTHORIZED", "TERMINATED"}
Withdrawn == {"revoked", "terminated"}
Given     == {"granted", "revoked", "revived"}
Answered  == {"revoked", "absent", "revived"}

\* One process at a time, which knows the phase it read.
Locked == \A p \in Workers : pc[p] # "idle" => lock = p

Unread == {"idle", "dead", "START", "TERMINATE"}
RecordIsPhase == \A p \in Workers : pc[p] \notin Unread => record[p] = phase

\* What each place of a START worker implies ...
WhereStarting ==
    \A p \in Workers :
        /\ pc[p] = "authorize" => phase = "none"
        /\ pc[p] \in {"provision", "writeProvisioned", "checkProvisioned"} => phase \in Started
        /\ pc[p] \in {"startAck", "writeActive"} => phase \in {"provisioned", "active"}
        /\ pc[p] = "writeProvisioned" => access \in Given

\* ... and each place of a TERMINATE worker.
WhereEnding ==
    \A p \in Workers :
        /\ pc[p] \in {"writeTerminating", "terminating", "revoke", "writeRevoked"} =>
               connector \in Ending
        /\ pc[p] = "terminating" => phase \in {"terminating"} \cup Withdrawn
        /\ pc[p] \in {"revoke", "writeRevoked"} => phase = "terminating"
        /\ pc[p] \in {"terminationAck", "repeatAck"} => phase \in Withdrawn
        /\ pc[p] = "terminate" => status[p] \in Ending /\ connector \in Ending

\* What the journal and the connector have recorded has happened.
Evidence ==
    /\ phase \in {"provisioned", "active"} => access \in Given
    /\ phase \in {"terminating"} \cup Withdrawn => connector \in Ending
    /\ connector = "TERMINATED" => phase \in Withdrawn

\* What a late request does is still in order.
LateInOrder ==
    /\ "startAck" \in late =>
           phase \notin {"none", "authorized"} /\ (connector \in Ending \/ access \in Given)
    /\ "revoke" \in late => connector \in Ending
    /\ "terminationAck" \in late => phase \in Withdrawn

IInv == /\ TypeOK /\ Locked /\ RecordIsPhase /\ WhereStarting /\ WhereEnding
        /\ Evidence /\ LateInOrder /\ StartedHasEvidence

\* A revocation is answered only when the journal says so, and what was answered
\* stays so but for a late grant.
Revocation ==
    /\ phase \in Withdrawn => access \in Answered
    /\ \A p \in Workers : pc[p] = "writeRevoked" => access \in Answered
    /\ access \in Answered \/ "revoke" \in late => phase \in {"terminating"} \cup Withdrawn

-----------------------------------------------------------------------------
(* Every action keeps the invariant                                        *)

\* The lock was free: the worker is the only one.
LEMMA BeginKeeps ==
    ASSUME IInv, NEW p \in Workers, NEW action \in {"START", "TERMINATE"}, Begin(p, action)
    PROVE  IInv'
<1> USE DEF IInv
<1>1. TypeOK'
  BY WorkersAssumption, BoundAssumption
  DEF TypeOK, Phases, ConnectorStates, Places, Requests, Started, AccessStates, Given, Begin, Goto
<1>2. Locked'
  BY WorkersAssumption DEF TypeOK, Locked, Begin, Goto
<1>3. RecordIsPhase'
  BY WorkersAssumption DEF TypeOK, Locked, RecordIsPhase, Unread, Begin, Goto
<1>4. WhereStarting'
  BY WorkersAssumption
  DEF TypeOK, Locked, RecordIsPhase, WhereStarting, Evidence, Given, Unread, Started, Phases,
      Begin, Goto
<1>5. WhereEnding'
  BY WorkersAssumption
  DEF TypeOK, Locked, RecordIsPhase, WhereEnding, Evidence, Unread, Ending, Withdrawn,
      Started, Phases, ConnectorStates, Begin, Goto
<1>6. Evidence'
  BY WorkersAssumption
  DEF TypeOK, Locked, RecordIsPhase, WhereStarting, WhereEnding, Evidence, Given, Unread,
      Ending, Withdrawn, Started, Phases, StartedHasEvidence, Begin, Goto
<1>7. LateInOrder'
  BY WorkersAssumption
  DEF TypeOK, WhereStarting, WhereEnding, LateInOrder, Evidence, Given, Ending, Withdrawn,
      Phases, Started, StartedHasEvidence, Requests, Begin, Goto
<1>8. StartedHasEvidence'
  BY WorkersAssumption
  DEF TypeOK, WhereStarting, WhereEnding, Evidence, Given, LateInOrder, StartedHasEvidence,
      Ending, Withdrawn, Started, Begin, Goto
<1>q. QED BY <1>1, <1>2, <1>3, <1>4, <1>5, <1>6, <1>7, <1>8

\* What was read is what is there.
LEMMA ReadStatusKeeps ==
    ASSUME IInv, NEW p \in Workers, ReadStatus(p)
    PROVE  IInv'
<1> USE DEF IInv
<1>1. TypeOK'
  BY WorkersAssumption, BoundAssumption
  DEF TypeOK, Phases, ConnectorStates, Places, Requests, Started, AccessStates, Given, ReadStatus, Goto,
      Leave, Allowed
<1>2. Locked'
  BY WorkersAssumption DEF TypeOK, Locked, ReadStatus, Goto, Leave, Allowed
<1>3. RecordIsPhase'
  BY WorkersAssumption
  DEF TypeOK, Locked, RecordIsPhase, Unread, ReadStatus, Goto, Leave, Allowed
<1>4. WhereStarting'
  BY WorkersAssumption
  DEF TypeOK, Locked, RecordIsPhase, WhereStarting, Evidence, Given, Unread, Started, Phases,
      ReadStatus, Goto, Leave, Allowed
<1>5. WhereEnding'
  BY WorkersAssumption
  DEF TypeOK, Locked, RecordIsPhase, WhereEnding, Evidence, Unread, Ending, Withdrawn,
      Started, Phases, ConnectorStates, ReadStatus, Goto, Leave, Allowed
<1>6. Evidence'
  BY WorkersAssumption
  DEF TypeOK, Locked, RecordIsPhase, WhereStarting, WhereEnding, Evidence, Given, Unread,
      Ending, Withdrawn, Started, Phases, StartedHasEvidence, ReadStatus, Goto, Leave,
      Allowed
<1>7. LateInOrder'
  BY WorkersAssumption
  DEF TypeOK, WhereStarting, WhereEnding, LateInOrder, Evidence, Given, Ending, Withdrawn,
      Phases, Started, StartedHasEvidence, Requests, ReadStatus, Goto, Leave, Allowed
<1>8. StartedHasEvidence'
  BY WorkersAssumption
  DEF TypeOK, WhereStarting, WhereEnding, Evidence, Given, LateInOrder, StartedHasEvidence,
      Ending, Withdrawn, Started, ReadStatus, Goto, Leave, Allowed
<1>q. QED BY <1>1, <1>2, <1>3, <1>4, <1>5, <1>6, <1>7, <1>8

\* The record decides where a start goes on.
LEMMA StartChecksKeeps ==
    ASSUME IInv, NEW p \in Workers, StartChecks(p)
    PROVE  IInv'
<1> USE DEF IInv
<1>1. TypeOK'
  BY WorkersAssumption, BoundAssumption
  DEF TypeOK, Phases, ConnectorStates, Places, Requests, Started, AccessStates, Given, StartChecks,
      StartDecision, Decide, Goto, Leave
<1>2. Locked'
  BY WorkersAssumption DEF TypeOK, Locked, StartChecks, StartDecision, Decide, Goto, Leave
<1>3. RecordIsPhase'
  BY WorkersAssumption
  DEF TypeOK, Locked, RecordIsPhase, Unread, StartChecks, StartDecision, Decide, Goto,
      Leave
<1>4. WhereStarting'
  BY WorkersAssumption
  DEF TypeOK, Locked, RecordIsPhase, WhereStarting, Evidence, Given, Unread, Started, Phases,
      StartChecks, StartDecision, Decide, Goto, Leave
<1>5. WhereEnding'
  BY WorkersAssumption
  DEF TypeOK, Locked, RecordIsPhase, WhereEnding, Evidence, Unread, Ending, Withdrawn,
      Started, Phases, ConnectorStates, StartChecks, StartDecision, Decide, Goto, Leave
<1>6. Evidence'
  BY WorkersAssumption
  DEF TypeOK, Locked, RecordIsPhase, WhereStarting, WhereEnding, Evidence, Given, Unread,
      Ending, Withdrawn, Started, Phases, StartedHasEvidence, StartChecks,
      StartDecision, Decide, Goto, Leave
<1>7. LateInOrder'
  BY WorkersAssumption
  DEF TypeOK, WhereStarting, WhereEnding, LateInOrder, Evidence, Given, Ending, Withdrawn,
      Phases, Started, StartedHasEvidence, Requests, StartChecks, StartDecision, Decide,
      Goto, Leave
<1>8. StartedHasEvidence'
  BY WorkersAssumption
  DEF TypeOK, WhereStarting, WhereEnding, Evidence, Given, LateInOrder, StartedHasEvidence,
      Ending, Withdrawn, Started, StartChecks, StartDecision, Decide, Goto, Leave
<1>q. QED BY <1>1, <1>2, <1>3, <1>4, <1>5, <1>6, <1>7, <1>8

\* The first record of a transfer.
LEMMA AuthorizeKeeps ==
    ASSUME IInv, NEW p \in Workers, Authorize(p)
    PROVE  IInv'
<1> USE DEF IInv
<1>1. TypeOK'
  BY WorkersAssumption, BoundAssumption
  DEF TypeOK, Phases, ConnectorStates, Places, Requests, Started, AccessStates, Given, Authorize, Journal,
      Moved, Goto, Leave, Fault
<1>2. Locked'
  BY WorkersAssumption
  DEF TypeOK, Locked, Authorize, Journal, Moved, Goto, Leave, Fault, Started
<1>3. RecordIsPhase'
  BY WorkersAssumption
  DEF TypeOK, Locked, RecordIsPhase, Unread, Authorize, Journal, Moved, Goto, Leave,
      Fault, Started
<1>4. WhereStarting'
  BY WorkersAssumption
  DEF TypeOK, Locked, RecordIsPhase, WhereStarting, Evidence, Given, Unread, Started, Phases,
      Authorize, Journal, Moved, Goto, Leave, Fault
<1>5. WhereEnding'
  BY WorkersAssumption
  DEF TypeOK, Locked, RecordIsPhase, WhereEnding, Evidence, Unread, Ending, Withdrawn,
      Started, Phases, ConnectorStates, Authorize, Journal, Moved, Goto, Leave, Fault
<1>6. Evidence'
  BY WorkersAssumption
  DEF TypeOK, Locked, RecordIsPhase, WhereStarting, WhereEnding, Evidence, Given, Unread,
      Ending, Withdrawn, Started, Phases, StartedHasEvidence, Authorize, Journal, Moved,
      Goto, Leave, Fault
<1>7. LateInOrder'
  BY WorkersAssumption
  DEF TypeOK, WhereStarting, WhereEnding, LateInOrder, Evidence, Given, Ending, Withdrawn,
      Phases, Started, StartedHasEvidence, Requests, Authorize, Journal, Moved, Goto,
      Leave, Fault
<1>8. StartedHasEvidence'
  BY WorkersAssumption
  DEF TypeOK, WhereStarting, WhereEnding, Evidence, Given, LateInOrder, StartedHasEvidence,
      Ending, Withdrawn, Started, Authorize, Journal, Moved, Goto, Leave, Fault
<1>q. QED BY <1>1, <1>2, <1>3, <1>4, <1>5, <1>6, <1>7, <1>8

\* Access is granted to a transfer with a start record.
LEMMA ProvisionKeeps ==
    ASSUME IInv, NEW p \in Workers, Provision(p)
    PROVE  IInv'
<1> USE DEF IInv
<1>1. TypeOK'
  BY WorkersAssumption, BoundAssumption
  DEF TypeOK, Phases, ConnectorStates, Places, Requests, Started, AccessStates, Given, Provision, Call, Fits,
      Allowed, Effect, StillPending, Granted, Revoked, AfterStartAck,
      AfterTerminationAck, Goto, Leave, Fault
<1>2. Locked'
  BY WorkersAssumption
  DEF TypeOK, Locked, Provision, Call, Fits, Allowed, Effect, StillPending, Granted,
      Revoked, AfterStartAck, AfterTerminationAck, Goto, Leave, Fault
<1>3. RecordIsPhase'
  BY WorkersAssumption
  DEF TypeOK, Locked, RecordIsPhase, Unread, Provision, Call, Fits, Allowed, Effect,
      StillPending, Granted, Revoked, AfterStartAck, AfterTerminationAck, Goto, Leave,
      Fault
<1>4. WhereStarting'
  BY WorkersAssumption
  DEF TypeOK, Locked, RecordIsPhase, WhereStarting, Evidence, Given, Unread, Started, Phases,
      AccessStates, Provision, Call, Fits, Allowed, Effect, StillPending, Granted, Revoked,
      AfterStartAck, AfterTerminationAck, Goto, Leave, Fault
<1>5. WhereEnding'
  BY WorkersAssumption
  DEF TypeOK, Locked, RecordIsPhase, WhereEnding, Evidence, Unread, Ending, Withdrawn,
      Started, Phases, ConnectorStates, Provision, Call, Fits, Allowed, Effect,
      StillPending, Granted, Revoked, AfterStartAck, AfterTerminationAck, Goto, Leave,
      Fault
<1>6. Evidence'
  BY WorkersAssumption
  DEF TypeOK, Locked, RecordIsPhase, WhereStarting, WhereEnding, Evidence, Given, Unread,
      Ending, Withdrawn, Started, Phases, StartedHasEvidence, Provision, Call, Fits,
      Allowed, Effect, StillPending, Granted, Revoked, AfterStartAck,
      AfterTerminationAck, Goto, Leave, Fault
<1>7. LateInOrder'
  BY WorkersAssumption
  DEF TypeOK, WhereStarting, WhereEnding, LateInOrder, Evidence, Given, Ending, Withdrawn,
      Phases, Started, StartedHasEvidence, Requests, Provision, Call, Fits, Allowed,
      Effect, StillPending, Granted, Revoked, AfterStartAck, AfterTerminationAck, Goto,
      Leave, Fault
<1>8. StartedHasEvidence'
  BY WorkersAssumption
  DEF TypeOK, WhereStarting, WhereEnding, Evidence, Given, LateInOrder, StartedHasEvidence,
      Ending, Withdrawn, Started, Provision, Call, Fits, Allowed, Effect, StillPending,
      Granted, Revoked, AfterStartAck, AfterTerminationAck, Goto, Leave, Fault
<1>q. QED BY <1>1, <1>2, <1>3, <1>4, <1>5, <1>6, <1>7, <1>8

\* The evidence is written after the access was granted.
LEMMA WriteProvisionedKeeps ==
    ASSUME IInv, NEW p \in Workers, WriteProvisioned(p)
    PROVE  IInv'
<1> USE DEF IInv
<1>1. TypeOK'
  BY WorkersAssumption, BoundAssumption
  DEF TypeOK, Phases, ConnectorStates, Places, Requests, Started, AccessStates, Given, WriteProvisioned,
      Journal, Moved, Goto, Leave, Fault
<1>2. Locked'
  BY WorkersAssumption
  DEF TypeOK, Locked, WriteProvisioned, Journal, Moved, Goto, Leave, Fault, Started
<1>3. RecordIsPhase'
  BY WorkersAssumption
  DEF TypeOK, Locked, RecordIsPhase, Unread, WriteProvisioned, Journal, Moved, Goto,
      Leave, Fault, Started
<1>4. WhereStarting'
  BY WorkersAssumption
  DEF TypeOK, Locked, RecordIsPhase, WhereStarting, Evidence, Given, Unread, Started, Phases,
      WriteProvisioned, Journal, Moved, Goto, Leave, Fault
<1>5. WhereEnding'
  BY WorkersAssumption
  DEF TypeOK, Locked, RecordIsPhase, WhereEnding, Evidence, Unread, Ending, Withdrawn,
      Started, Phases, ConnectorStates, WriteProvisioned, Journal, Moved, Goto, Leave,
      Fault
<1>6. Evidence'
  BY WorkersAssumption
  DEF TypeOK, Locked, RecordIsPhase, WhereStarting, WhereEnding, Evidence, Given, Unread,
      Ending, Withdrawn, Started, Phases, StartedHasEvidence, WriteProvisioned, Journal,
      Moved, Goto, Leave, Fault
<1>7. LateInOrder'
  BY WorkersAssumption
  DEF TypeOK, WhereStarting, WhereEnding, LateInOrder, Evidence, Given, Ending, Withdrawn,
      Phases, Started, StartedHasEvidence, Requests, WriteProvisioned, Journal, Moved,
      Goto, Leave, Fault
<1>8. StartedHasEvidence'
  BY WorkersAssumption
  DEF TypeOK, WhereStarting, WhereEnding, Evidence, Given, LateInOrder, StartedHasEvidence,
      Ending, Withdrawn, Started, WriteProvisioned, Journal, Moved, Goto, Leave, Fault
<1>q. QED BY <1>1, <1>2, <1>3, <1>4, <1>5, <1>6, <1>7, <1>8

\* Without the evidence the start ends.
LEMMA CheckProvisionedKeeps ==
    ASSUME IInv, NEW p \in Workers, CheckProvisioned(p)
    PROVE  IInv'
<1> USE DEF IInv
<1>1. TypeOK'
  BY WorkersAssumption, BoundAssumption
  DEF TypeOK, Phases, ConnectorStates, Places, Requests, Started, AccessStates, Given, CheckProvisioned,
      Decide, Goto, Leave
<1>2. Locked'
  BY WorkersAssumption DEF TypeOK, Locked, CheckProvisioned, Decide, Goto, Leave
<1>3. RecordIsPhase'
  BY WorkersAssumption
  DEF TypeOK, Locked, RecordIsPhase, Unread, CheckProvisioned, Decide, Goto, Leave
<1>4. WhereStarting'
  BY WorkersAssumption
  DEF TypeOK, Locked, RecordIsPhase, WhereStarting, Evidence, Given, Unread, Started, Phases,
      CheckProvisioned, Decide, Goto, Leave
<1>5. WhereEnding'
  BY WorkersAssumption
  DEF TypeOK, Locked, RecordIsPhase, WhereEnding, Evidence, Unread, Ending, Withdrawn,
      Started, Phases, ConnectorStates, CheckProvisioned, Decide, Goto, Leave
<1>6. Evidence'
  BY WorkersAssumption
  DEF TypeOK, Locked, RecordIsPhase, WhereStarting, WhereEnding, Evidence, Given, Unread,
      Ending, Withdrawn, Started, Phases, StartedHasEvidence, CheckProvisioned, Decide,
      Goto, Leave
<1>7. LateInOrder'
  BY WorkersAssumption
  DEF TypeOK, WhereStarting, WhereEnding, LateInOrder, Evidence, Given, Ending, Withdrawn,
      Phases, Started, StartedHasEvidence, Requests, CheckProvisioned, Decide, Goto,
      Leave
<1>8. StartedHasEvidence'
  BY WorkersAssumption
  DEF TypeOK, WhereStarting, WhereEnding, Evidence, Given, LateInOrder, StartedHasEvidence,
      Ending, Withdrawn, Started, CheckProvisioned, Decide, Goto, Leave
<1>q. QED BY <1>1, <1>2, <1>3, <1>4, <1>5, <1>6, <1>7, <1>8

\* The connector is told once the evidence is there.
LEMMA AcknowledgeStartKeeps ==
    ASSUME IInv, NEW p \in Workers, AcknowledgeStart(p)
    PROVE  IInv'
<1> USE DEF IInv
<1>1. TypeOK'
  BY WorkersAssumption, BoundAssumption
  DEF TypeOK, Phases, ConnectorStates, Places, Requests, Started, AccessStates, Given, AcknowledgeStart,
      Call, Fits, Allowed, Effect, StillPending, Granted, Revoked, AfterStartAck,
      AfterTerminationAck, Goto, Leave, Fault
<1>2. Locked'
  BY WorkersAssumption
  DEF TypeOK, Locked, AcknowledgeStart, Call, Fits, Allowed, Effect, StillPending,
      Granted, Revoked, AfterStartAck, AfterTerminationAck, Goto, Leave, Fault
<1>3. RecordIsPhase'
  BY WorkersAssumption
  DEF TypeOK, Locked, RecordIsPhase, Unread, AcknowledgeStart, Call, Fits, Allowed,
      Effect, StillPending, Granted, Revoked, AfterStartAck, AfterTerminationAck, Goto,
      Leave, Fault
<1>4. WhereStarting'
  BY WorkersAssumption
  DEF TypeOK, Locked, RecordIsPhase, WhereStarting, Evidence, Given, Unread, Started, Phases,
      AcknowledgeStart, Call, Fits, Allowed, Effect, StillPending, Granted, Revoked,
      AfterStartAck, AfterTerminationAck, Goto, Leave, Fault
<1>5. WhereEnding'
  BY WorkersAssumption
  DEF TypeOK, Locked, RecordIsPhase, WhereEnding, Evidence, Unread, Ending, Withdrawn,
      Started, Phases, ConnectorStates, AcknowledgeStart, Call, Fits, Allowed, Effect,
      StillPending, Granted, Revoked, AfterStartAck, AfterTerminationAck, Goto, Leave,
      Fault
<1>6. Evidence'
  BY WorkersAssumption
  DEF TypeOK, Locked, RecordIsPhase, WhereStarting, WhereEnding, Evidence, Given, Unread,
      Ending, Withdrawn, Started, Phases, StartedHasEvidence, AcknowledgeStart, Call,
      Fits, Allowed, Effect, StillPending, Granted, Revoked, AfterStartAck,
      AfterTerminationAck, Goto, Leave, Fault
<1>7. LateInOrder'
  BY WorkersAssumption
  DEF TypeOK, WhereStarting, WhereEnding, LateInOrder, Evidence, Given, Ending, Withdrawn,
      Phases, Started, StartedHasEvidence, Requests, AcknowledgeStart, Call, Fits,
      Allowed, Effect, StillPending, Granted, Revoked, AfterStartAck,
      AfterTerminationAck, Goto, Leave, Fault
<1>8. StartedHasEvidence'
  BY WorkersAssumption
  DEF TypeOK, WhereStarting, WhereEnding, Evidence, Given, LateInOrder, StartedHasEvidence,
      Ending, Withdrawn, Started, AcknowledgeStart, Call, Fits, Allowed, Effect,
      StillPending, Granted, Revoked, AfterStartAck, AfterTerminationAck, Goto, Leave,
      Fault
<1>q. QED BY <1>1, <1>2, <1>3, <1>4, <1>5, <1>6, <1>7, <1>8

\* An acknowledged start is active.
LEMMA WriteActiveKeeps ==
    ASSUME IInv, NEW p \in Workers, WriteActive(p)
    PROVE  IInv'
<1> USE DEF IInv
<1>1. TypeOK'
  BY WorkersAssumption, BoundAssumption
  DEF TypeOK, Phases, ConnectorStates, Places, Requests, Started, AccessStates, Given, WriteActive, Journal,
      Moved, Goto, Leave, Fault
<1>2. Locked'
  BY WorkersAssumption
  DEF TypeOK, Locked, WriteActive, Journal, Moved, Goto, Leave, Fault, Started
<1>3. RecordIsPhase'
  BY WorkersAssumption
  DEF TypeOK, Locked, RecordIsPhase, Unread, WriteActive, Journal, Moved, Goto, Leave,
      Fault, Started
<1>4. WhereStarting'
  BY WorkersAssumption
  DEF TypeOK, Locked, RecordIsPhase, WhereStarting, Evidence, Given, Unread, Started, Phases,
      WriteActive, Journal, Moved, Goto, Leave, Fault
<1>5. WhereEnding'
  BY WorkersAssumption
  DEF TypeOK, Locked, RecordIsPhase, WhereEnding, Evidence, Unread, Ending, Withdrawn,
      Started, Phases, ConnectorStates, WriteActive, Journal, Moved, Goto, Leave, Fault
<1>6. Evidence'
  BY WorkersAssumption
  DEF TypeOK, Locked, RecordIsPhase, WhereStarting, WhereEnding, Evidence, Given, Unread,
      Ending, Withdrawn, Started, Phases, StartedHasEvidence, WriteActive, Journal,
      Moved, Goto, Leave, Fault
<1>7. LateInOrder'
  BY WorkersAssumption
  DEF TypeOK, WhereStarting, WhereEnding, LateInOrder, Evidence, Given, Ending, Withdrawn,
      Phases, Started, StartedHasEvidence, Requests, WriteActive, Journal, Moved, Goto,
      Leave, Fault
<1>8. StartedHasEvidence'
  BY WorkersAssumption
  DEF TypeOK, WhereStarting, WhereEnding, Evidence, Given, LateInOrder, StartedHasEvidence,
      Ending, Withdrawn, Started, WriteActive, Journal, Moved, Goto, Leave, Fault
<1>q. QED BY <1>1, <1>2, <1>3, <1>4, <1>5, <1>6, <1>7, <1>8

\* The record and the status decide where a termination goes on.
LEMMA TerminateChecksKeeps ==
    ASSUME IInv, NEW p \in Workers, TerminateChecks(p)
    PROVE  IInv'
<1> USE DEF IInv
<1>1. TypeOK'
  BY WorkersAssumption, BoundAssumption
  DEF TypeOK, Phases, ConnectorStates, Places, Requests, Started, AccessStates, Given, TerminateChecks,
      TerminateDecision, Decide, Goto, Leave
<1>2. Locked'
  BY WorkersAssumption
  DEF TypeOK, Locked, TerminateChecks, TerminateDecision, Decide, Goto, Leave
<1>3. RecordIsPhase'
  BY WorkersAssumption
  DEF TypeOK, Locked, RecordIsPhase, Unread, TerminateChecks, TerminateDecision, Decide,
      Goto, Leave
<1>4. WhereStarting'
  BY WorkersAssumption
  DEF TypeOK, Locked, RecordIsPhase, WhereStarting, Evidence, Given, Unread, Started, Phases,
      TerminateChecks, TerminateDecision, Decide, Goto, Leave
<1>5. WhereEnding'
  BY WorkersAssumption
  DEF TypeOK, Locked, RecordIsPhase, WhereEnding, Evidence, Unread, Ending, Withdrawn,
      Started, Phases, ConnectorStates, TerminateChecks, TerminateDecision, Decide,
      Goto, Leave
<1>6. Evidence'
  BY WorkersAssumption
  DEF TypeOK, Locked, RecordIsPhase, WhereStarting, WhereEnding, Evidence, Given, Unread,
      Ending, Withdrawn, Started, Phases, StartedHasEvidence, TerminateChecks,
      TerminateDecision, Decide, Goto, Leave
<1>7. LateInOrder'
  BY WorkersAssumption
  DEF TypeOK, WhereStarting, WhereEnding, LateInOrder, Evidence, Given, Ending, Withdrawn,
      Phases, Started, StartedHasEvidence, Requests, TerminateChecks, TerminateDecision,
      Decide, Goto, Leave
<1>8. StartedHasEvidence'
  BY WorkersAssumption
  DEF TypeOK, WhereStarting, WhereEnding, Evidence, Given, LateInOrder, StartedHasEvidence,
      Ending, Withdrawn, Started, TerminateChecks, TerminateDecision, Decide, Goto,
      Leave
<1>q. QED BY <1>1, <1>2, <1>3, <1>4, <1>5, <1>6, <1>7, <1>8

\* A repeated acknowledgement follows a complete revocation.
LEMMA RepeatAckKeeps ==
    ASSUME IInv, NEW p \in Workers, RepeatAck(p)
    PROVE  IInv'
<1> USE DEF IInv
<1>1. TypeOK'
  BY WorkersAssumption, BoundAssumption
  DEF TypeOK, Phases, ConnectorStates, Places, Requests, Started, AccessStates, Given, RepeatAck, Call, Fits,
      Allowed, Effect, StillPending, Granted, Revoked, AfterStartAck,
      AfterTerminationAck, Goto, Leave, Fault
<1>2. Locked'
  BY WorkersAssumption
  DEF TypeOK, Locked, RepeatAck, Call, Fits, Allowed, Effect, StillPending, Granted,
      Revoked, AfterStartAck, AfterTerminationAck, Goto, Leave, Fault
<1>3. RecordIsPhase'
  BY WorkersAssumption
  DEF TypeOK, Locked, RecordIsPhase, Unread, RepeatAck, Call, Fits, Allowed, Effect,
      StillPending, Granted, Revoked, AfterStartAck, AfterTerminationAck, Goto, Leave,
      Fault
<1>4. WhereStarting'
  BY WorkersAssumption
  DEF TypeOK, Locked, RecordIsPhase, WhereStarting, Evidence, Given, Unread, Started, Phases,
      RepeatAck, Call, Fits, Allowed, Effect, StillPending, Granted, Revoked,
      AfterStartAck, AfterTerminationAck, Goto, Leave, Fault
<1>5. WhereEnding'
  BY WorkersAssumption
  DEF TypeOK, Locked, RecordIsPhase, WhereEnding, Evidence, Unread, Ending, Withdrawn,
      Started, Phases, ConnectorStates, RepeatAck, Call, Fits, Allowed, Effect,
      StillPending, Granted, Revoked, AfterStartAck, AfterTerminationAck, Goto, Leave,
      Fault
<1>6. Evidence'
  BY WorkersAssumption
  DEF TypeOK, Locked, RecordIsPhase, WhereStarting, WhereEnding, Evidence, Given, Unread,
      Ending, Withdrawn, Started, Phases, StartedHasEvidence, RepeatAck, Call, Fits,
      Allowed, Effect, StillPending, Granted, Revoked, AfterStartAck,
      AfterTerminationAck, Goto, Leave, Fault
<1>7. LateInOrder'
  BY WorkersAssumption
  DEF TypeOK, WhereStarting, WhereEnding, LateInOrder, Evidence, Given, Ending, Withdrawn,
      Phases, Started, StartedHasEvidence, Requests, RepeatAck, Call, Fits, Allowed,
      Effect, StillPending, Granted, Revoked, AfterStartAck, AfterTerminationAck, Goto,
      Leave, Fault
<1>8. StartedHasEvidence'
  BY WorkersAssumption
  DEF TypeOK, WhereStarting, WhereEnding, Evidence, Given, LateInOrder, StartedHasEvidence,
      Ending, Withdrawn, Started, RepeatAck, Call, Fits, Allowed, Effect, StillPending,
      Granted, Revoked, AfterStartAck, AfterTerminationAck, Goto, Leave, Fault
<1>q. QED BY <1>1, <1>2, <1>3, <1>4, <1>5, <1>6, <1>7, <1>8

\* The repeated event is answered.
LEMMA ConfirmAckKeeps ==
    ASSUME IInv, NEW p \in Workers, ConfirmAck(p)
    PROVE  IInv'
<1> USE DEF IInv
<1>1. TypeOK'
  BY WorkersAssumption, BoundAssumption
  DEF TypeOK, Phases, ConnectorStates, Places, Requests, Started, AccessStates, Given, ConfirmAck, Decide,
      Goto, Leave
<1>2. Locked'
  BY WorkersAssumption DEF TypeOK, Locked, ConfirmAck, Decide, Goto, Leave
<1>3. RecordIsPhase'
  BY WorkersAssumption
  DEF TypeOK, Locked, RecordIsPhase, Unread, ConfirmAck, Decide, Goto, Leave
<1>4. WhereStarting'
  BY WorkersAssumption
  DEF TypeOK, Locked, RecordIsPhase, WhereStarting, Evidence, Given, Unread, Started, Phases,
      ConfirmAck, Decide, Goto, Leave
<1>5. WhereEnding'
  BY WorkersAssumption
  DEF TypeOK, Locked, RecordIsPhase, WhereEnding, Evidence, Unread, Ending, Withdrawn,
      Started, Phases, ConnectorStates, ConfirmAck, Decide, Goto, Leave
<1>6. Evidence'
  BY WorkersAssumption
  DEF TypeOK, Locked, RecordIsPhase, WhereStarting, WhereEnding, Evidence, Given, Unread,
      Ending, Withdrawn, Started, Phases, StartedHasEvidence, ConfirmAck, Decide, Goto,
      Leave
<1>7. LateInOrder'
  BY WorkersAssumption
  DEF TypeOK, WhereStarting, WhereEnding, LateInOrder, Evidence, Given, Ending, Withdrawn,
      Phases, Started, StartedHasEvidence, Requests, ConfirmAck, Decide, Goto, Leave
<1>8. StartedHasEvidence'
  BY WorkersAssumption
  DEF TypeOK, WhereStarting, WhereEnding, Evidence, Given, LateInOrder, StartedHasEvidence,
      Ending, Withdrawn, Started, ConfirmAck, Decide, Goto, Leave
<1>q. QED BY <1>1, <1>2, <1>3, <1>4, <1>5, <1>6, <1>7, <1>8

\* The journal turns to termination once the connector has.
LEMMA WriteTerminatingKeeps ==
    ASSUME IInv, NEW p \in Workers, WriteTerminating(p)
    PROVE  IInv'
<1> USE DEF IInv
<1>1. TypeOK'
  BY WorkersAssumption, BoundAssumption
  DEF TypeOK, Phases, ConnectorStates, Places, Requests, Started, AccessStates, Given, WriteTerminating,
      Journal, Moved, Goto, Leave, Fault
<1>2. Locked'
  BY WorkersAssumption
  DEF TypeOK, Locked, WriteTerminating, Journal, Moved, Goto, Leave, Fault, Started
<1>3. RecordIsPhase'
  BY WorkersAssumption
  DEF TypeOK, Locked, RecordIsPhase, Unread, WriteTerminating, Journal, Moved, Goto,
      Leave, Fault, Started
<1>4. WhereStarting'
  BY WorkersAssumption
  DEF TypeOK, Locked, RecordIsPhase, WhereStarting, Evidence, Given, Unread, Started, Phases,
      WriteTerminating, Journal, Moved, Goto, Leave, Fault
<1>5. WhereEnding'
  BY WorkersAssumption
  DEF TypeOK, Locked, RecordIsPhase, WhereEnding, Evidence, Unread, Ending, Withdrawn,
      Started, Phases, ConnectorStates, WriteTerminating, Journal, Moved, Goto, Leave,
      Fault
<1>6. Evidence'
  BY WorkersAssumption
  DEF TypeOK, Locked, RecordIsPhase, WhereStarting, WhereEnding, Evidence, Given, Unread,
      Ending, Withdrawn, Started, Phases, StartedHasEvidence, WriteTerminating, Journal,
      Moved, Goto, Leave, Fault
<1>7. LateInOrder'
  BY WorkersAssumption
  DEF TypeOK, WhereStarting, WhereEnding, LateInOrder, Evidence, Given, Ending, Withdrawn,
      Phases, Started, StartedHasEvidence, Requests, WriteTerminating, Journal, Moved,
      Goto, Leave, Fault
<1>8. StartedHasEvidence'
  BY WorkersAssumption
  DEF TypeOK, WhereStarting, WhereEnding, Evidence, Given, LateInOrder, StartedHasEvidence,
      Ending, Withdrawn, Started, WriteTerminating, Journal, Moved, Goto, Leave, Fault
<1>q. QED BY <1>1, <1>2, <1>3, <1>4, <1>5, <1>6, <1>7, <1>8

\* What has been revoked is not revoked again.
LEMMA RevokeOrSkipKeeps ==
    ASSUME IInv, NEW p \in Workers, RevokeOrSkip(p)
    PROVE  IInv'
<1> USE DEF IInv
<1>1. TypeOK'
  BY WorkersAssumption, BoundAssumption
  DEF TypeOK, Phases, ConnectorStates, Places, Requests, Started, AccessStates, Given, RevokeOrSkip, Decide,
      Goto, Leave
<1>2. Locked'
  BY WorkersAssumption DEF TypeOK, Locked, RevokeOrSkip, Decide, Goto, Leave
<1>3. RecordIsPhase'
  BY WorkersAssumption
  DEF TypeOK, Locked, RecordIsPhase, Unread, RevokeOrSkip, Decide, Goto, Leave
<1>4. WhereStarting'
  BY WorkersAssumption
  DEF TypeOK, Locked, RecordIsPhase, WhereStarting, Evidence, Given, Unread, Started, Phases,
      RevokeOrSkip, Decide, Goto, Leave
<1>5. WhereEnding'
  BY WorkersAssumption
  DEF TypeOK, Locked, RecordIsPhase, WhereEnding, Evidence, Unread, Ending, Withdrawn,
      Started, Phases, ConnectorStates, RevokeOrSkip, Decide, Goto, Leave
<1>6. Evidence'
  BY WorkersAssumption
  DEF TypeOK, Locked, RecordIsPhase, WhereStarting, WhereEnding, Evidence, Given, Unread,
      Ending, Withdrawn, Started, Phases, StartedHasEvidence, RevokeOrSkip, Decide,
      Goto, Leave
<1>7. LateInOrder'
  BY WorkersAssumption
  DEF TypeOK, WhereStarting, WhereEnding, LateInOrder, Evidence, Given, Ending, Withdrawn,
      Phases, Started, StartedHasEvidence, Requests, RevokeOrSkip, Decide, Goto, Leave
<1>8. StartedHasEvidence'
  BY WorkersAssumption
  DEF TypeOK, WhereStarting, WhereEnding, Evidence, Given, LateInOrder, StartedHasEvidence,
      Ending, Withdrawn, Started, RevokeOrSkip, Decide, Goto, Leave
<1>q. QED BY <1>1, <1>2, <1>3, <1>4, <1>5, <1>6, <1>7, <1>8

\* Access is revoked after its termination was journalled.
LEMMA RevokeAccessKeeps ==
    ASSUME IInv, NEW p \in Workers, RevokeAccess(p)
    PROVE  IInv'
<1> USE DEF IInv
<1>1. TypeOK'
  BY WorkersAssumption, BoundAssumption
  DEF TypeOK, Phases, ConnectorStates, Places, Requests, Started, AccessStates, Given, RevokeAccess, Call,
      Fits, Allowed, Effect, StillPending, Granted, Revoked, AfterStartAck,
      AfterTerminationAck, Goto, Leave, Fault
<1>2. Locked'
  BY WorkersAssumption
  DEF TypeOK, Locked, RevokeAccess, Call, Fits, Allowed, Effect, StillPending, Granted,
      Revoked, AfterStartAck, AfterTerminationAck, Goto, Leave, Fault
<1>3. RecordIsPhase'
  BY WorkersAssumption
  DEF TypeOK, Locked, RecordIsPhase, Unread, RevokeAccess, Call, Fits, Allowed, Effect,
      StillPending, Granted, Revoked, AfterStartAck, AfterTerminationAck, Goto, Leave,
      Fault
<1>4. WhereStarting'
  BY WorkersAssumption
  DEF TypeOK, Locked, RecordIsPhase, WhereStarting, Evidence, Given, Unread, Started, Phases,
      RevokeAccess, Call, Fits, Allowed, Effect, StillPending, Granted, Revoked,
      AfterStartAck, AfterTerminationAck, Goto, Leave, Fault
<1>5. WhereEnding'
  BY WorkersAssumption
  DEF TypeOK, Locked, RecordIsPhase, WhereEnding, Evidence, Unread, Ending, Withdrawn,
      Started, Phases, ConnectorStates, RevokeAccess, Call, Fits, Allowed, Effect,
      StillPending, Granted, Revoked, AfterStartAck, AfterTerminationAck, Goto, Leave,
      Fault
<1>6. Evidence'
  BY WorkersAssumption
  DEF TypeOK, Locked, RecordIsPhase, WhereStarting, WhereEnding, Evidence, Given, Unread,
      Ending, Withdrawn, Started, Phases, StartedHasEvidence, RevokeAccess, Call, Fits,
      Allowed, Effect, StillPending, Granted, Revoked, AfterStartAck,
      AfterTerminationAck, Goto, Leave, Fault
<1>7. LateInOrder'
  BY WorkersAssumption
  DEF TypeOK, WhereStarting, WhereEnding, LateInOrder, Evidence, Given, Ending, Withdrawn,
      Phases, Started, StartedHasEvidence, Requests, RevokeAccess, Call, Fits, Allowed,
      Effect, StillPending, Granted, Revoked, AfterStartAck, AfterTerminationAck, Goto,
      Leave, Fault
<1>8. StartedHasEvidence'
  BY WorkersAssumption
  DEF TypeOK, WhereStarting, WhereEnding, Evidence, Given, LateInOrder, StartedHasEvidence,
      Ending, Withdrawn, Started, RevokeAccess, Call, Fits, Allowed, Effect,
      StillPending, Granted, Revoked, AfterStartAck, AfterTerminationAck, Goto, Leave,
      Fault
<1>q. QED BY <1>1, <1>2, <1>3, <1>4, <1>5, <1>6, <1>7, <1>8

\* The revocation is journalled.
LEMMA WriteRevokedKeeps ==
    ASSUME IInv, NEW p \in Workers, WriteRevoked(p)
    PROVE  IInv'
<1> USE DEF IInv
<1>1. TypeOK'
  BY WorkersAssumption, BoundAssumption
  DEF TypeOK, Phases, ConnectorStates, Places, Requests, Started, AccessStates, Given, WriteRevoked, Journal,
      Moved, Goto, Leave, Fault
<1>2. Locked'
  BY WorkersAssumption
  DEF TypeOK, Locked, WriteRevoked, Journal, Moved, Goto, Leave, Fault, Started
<1>3. RecordIsPhase'
  BY WorkersAssumption
  DEF TypeOK, Locked, RecordIsPhase, Unread, WriteRevoked, Journal, Moved, Goto, Leave,
      Fault, Started
<1>4. WhereStarting'
  BY WorkersAssumption
  DEF TypeOK, Locked, RecordIsPhase, WhereStarting, Evidence, Given, Unread, Started, Phases,
      WriteRevoked, Journal, Moved, Goto, Leave, Fault
<1>5. WhereEnding'
  BY WorkersAssumption
  DEF TypeOK, Locked, RecordIsPhase, WhereEnding, Evidence, Unread, Ending, Withdrawn,
      Started, Phases, ConnectorStates, WriteRevoked, Journal, Moved, Goto, Leave, Fault
<1>6. Evidence'
  BY WorkersAssumption
  DEF TypeOK, Locked, RecordIsPhase, WhereStarting, WhereEnding, Evidence, Given, Unread,
      Ending, Withdrawn, Started, Phases, StartedHasEvidence, WriteRevoked, Journal,
      Moved, Goto, Leave, Fault
<1>7. LateInOrder'
  BY WorkersAssumption
  DEF TypeOK, WhereStarting, WhereEnding, LateInOrder, Evidence, Given, Ending, Withdrawn,
      Phases, Started, StartedHasEvidence, Requests, WriteRevoked, Journal, Moved, Goto,
      Leave, Fault
<1>8. StartedHasEvidence'
  BY WorkersAssumption
  DEF TypeOK, WhereStarting, WhereEnding, Evidence, Given, LateInOrder, StartedHasEvidence,
      Ending, Withdrawn, Started, WriteRevoked, Journal, Moved, Goto, Leave, Fault
<1>q. QED BY <1>1, <1>2, <1>3, <1>4, <1>5, <1>6, <1>7, <1>8

\* The connector is told after the revocation was journalled.
LEMMA AcknowledgeTerminationKeeps ==
    ASSUME IInv, NEW p \in Workers, AcknowledgeTermination(p)
    PROVE  IInv'
<1> USE DEF IInv
<1>1. TypeOK'
  BY WorkersAssumption, BoundAssumption
  DEF TypeOK, Phases, ConnectorStates, Places, Requests, Started, AccessStates, Given,
      AcknowledgeTermination, Call, Fits, Allowed, Effect, StillPending, Granted,
      Revoked, AfterStartAck, AfterTerminationAck, Goto, Leave, Fault
<1>2. Locked'
  BY WorkersAssumption
  DEF TypeOK, Locked, AcknowledgeTermination, Call, Fits, Allowed, Effect, StillPending,
      Granted, Revoked, AfterStartAck, AfterTerminationAck, Goto, Leave, Fault
<1>3. RecordIsPhase'
  BY WorkersAssumption
  DEF TypeOK, Locked, RecordIsPhase, Unread, AcknowledgeTermination, Call, Fits,
      Allowed, Effect, StillPending, Granted, Revoked, AfterStartAck,
      AfterTerminationAck, Goto, Leave, Fault
<1>4. WhereStarting'
  BY WorkersAssumption
  DEF TypeOK, Locked, RecordIsPhase, WhereStarting, Evidence, Given, Unread, Started, Phases,
      AcknowledgeTermination, Call, Fits, Allowed, Effect, StillPending, Granted,
      Revoked, AfterStartAck, AfterTerminationAck, Goto, Leave, Fault
<1>5. WhereEnding'
  BY WorkersAssumption
  DEF TypeOK, Locked, RecordIsPhase, WhereEnding, Evidence, Unread, Ending, Withdrawn,
      Started, Phases, ConnectorStates, AcknowledgeTermination, Call, Fits, Allowed,
      Effect, StillPending, Granted, Revoked, AfterStartAck, AfterTerminationAck, Goto,
      Leave, Fault
<1>6. Evidence'
  BY WorkersAssumption
  DEF TypeOK, Locked, RecordIsPhase, WhereStarting, WhereEnding, Evidence, Given, Unread,
      Ending, Withdrawn, Started, Phases, StartedHasEvidence, AcknowledgeTermination,
      Call, Fits, Allowed, Effect, StillPending, Granted, Revoked, AfterStartAck,
      AfterTerminationAck, Goto, Leave, Fault
<1>7. LateInOrder'
  BY WorkersAssumption
  DEF TypeOK, WhereStarting, WhereEnding, LateInOrder, Evidence, Given, Ending, Withdrawn,
      Phases, Started, StartedHasEvidence, Requests, AcknowledgeTermination, Call, Fits,
      Allowed, Effect, StillPending, Granted, Revoked, AfterStartAck,
      AfterTerminationAck, Goto, Leave, Fault
<1>8. StartedHasEvidence'
  BY WorkersAssumption
  DEF TypeOK, WhereStarting, WhereEnding, Evidence, Given, LateInOrder, StartedHasEvidence,
      Ending, Withdrawn, Started, AcknowledgeTermination, Call, Fits, Allowed, Effect,
      StillPending, Granted, Revoked, AfterStartAck, AfterTerminationAck, Goto, Leave,
      Fault
<1>q. QED BY <1>1, <1>2, <1>3, <1>4, <1>5, <1>6, <1>7, <1>8

\* The last phase.
LEMMA WriteTerminatedKeeps ==
    ASSUME IInv, NEW p \in Workers, WriteTerminated(p)
    PROVE  IInv'
<1> USE DEF IInv
<1>1. TypeOK'
  BY WorkersAssumption, BoundAssumption
  DEF TypeOK, Phases, ConnectorStates, Places, Requests, Started, AccessStates, Given, WriteTerminated,
      Journal, Moved, Goto, Leave, Fault
<1>2. Locked'
  BY WorkersAssumption
  DEF TypeOK, Locked, WriteTerminated, Journal, Moved, Goto, Leave, Fault, Started
<1>3. RecordIsPhase'
  BY WorkersAssumption
  DEF TypeOK, Locked, RecordIsPhase, Unread, WriteTerminated, Journal, Moved, Goto,
      Leave, Fault, Started
<1>4. WhereStarting'
  BY WorkersAssumption
  DEF TypeOK, Locked, RecordIsPhase, WhereStarting, Evidence, Given, Unread, Started, Phases,
      WriteTerminated, Journal, Moved, Goto, Leave, Fault
<1>5. WhereEnding'
  BY WorkersAssumption
  DEF TypeOK, Locked, RecordIsPhase, WhereEnding, Evidence, Unread, Ending, Withdrawn,
      Started, Phases, ConnectorStates, WriteTerminated, Journal, Moved, Goto, Leave,
      Fault
<1>6. Evidence'
  BY WorkersAssumption
  DEF TypeOK, Locked, RecordIsPhase, WhereStarting, WhereEnding, Evidence, Given, Unread,
      Ending, Withdrawn, Started, Phases, StartedHasEvidence, WriteTerminated, Journal,
      Moved, Goto, Leave, Fault
<1>7. LateInOrder'
  BY WorkersAssumption
  DEF TypeOK, WhereStarting, WhereEnding, LateInOrder, Evidence, Given, Ending, Withdrawn,
      Phases, Started, StartedHasEvidence, Requests, WriteTerminated, Journal, Moved,
      Goto, Leave, Fault
<1>8. StartedHasEvidence'
  BY WorkersAssumption
  DEF TypeOK, WhereStarting, WhereEnding, Evidence, Given, LateInOrder, StartedHasEvidence,
      Ending, Withdrawn, Started, WriteTerminated, Journal, Moved, Goto, Leave, Fault
<1>q. QED BY <1>1, <1>2, <1>3, <1>4, <1>5, <1>6, <1>7, <1>8

\* A dead process keeps its lock.
LEMMA CrashKeeps ==
    ASSUME IInv, NEW p \in Workers, Crash(p)
    PROVE  IInv'
<1> USE DEF IInv
<1>1. TypeOK'
  <2>1. late' \subseteq Requests
    BY DEF TypeOK, Crash, StillPending
  <2>2. pc' \in [Workers -> Places] /\ faults' \in 0..MaxFaults
    BY BoundAssumption DEF TypeOK, Crash, Goto, Fault, Places
  <2>3. QED BY <2>1, <2>2 DEF TypeOK, Crash
<1>2. Locked'
  BY WorkersAssumption
  DEF TypeOK, Locked, Crash, RequestAt, Requests, StillPending, Goto, Fault
<1>3. RecordIsPhase'
  BY WorkersAssumption
  DEF TypeOK, Locked, RecordIsPhase, Unread, Crash, RequestAt, Requests, StillPending,
      Goto, Fault
<1>4. WhereStarting'
  BY WorkersAssumption
  DEF TypeOK, Locked, RecordIsPhase, WhereStarting, Evidence, Given, Unread, Started, Phases,
      Crash, RequestAt, Requests, StillPending, Goto, Fault
<1>5. WhereEnding'
  BY WorkersAssumption
  DEF TypeOK, Locked, RecordIsPhase, WhereEnding, Evidence, Unread, Ending, Withdrawn,
      Started, Phases, ConnectorStates, Crash, RequestAt, Requests, StillPending, Goto,
      Fault
<1>6. Evidence'
  BY WorkersAssumption
  DEF TypeOK, Locked, RecordIsPhase, WhereStarting, WhereEnding, Evidence, Given, Unread,
      Ending, Withdrawn, Started, Phases, StartedHasEvidence, Crash, RequestAt,
      Requests, StillPending, Goto, Fault
<1>7. LateInOrder'
  BY WorkersAssumption
  DEF TypeOK, WhereStarting, WhereEnding, LateInOrder, Evidence, Given, Ending, Withdrawn,
      Phases, Started, StartedHasEvidence, Requests, Crash, RequestAt, StillPending,
      Goto, Fault
<1>8. StartedHasEvidence'
  BY WorkersAssumption
  DEF TypeOK, WhereStarting, WhereEnding, Evidence, Given, LateInOrder, StartedHasEvidence,
      Ending, Withdrawn, Started, Crash, RequestAt, Requests, StillPending, Goto, Fault
<1>q. QED BY <1>1, <1>2, <1>3, <1>4, <1>5, <1>6, <1>7, <1>8

\* A cleared lock is free.
LEMMA OperatorClearsKeeps ==
    ASSUME IInv, NEW p \in Workers, OperatorClears(p)
    PROVE  IInv'
<1> USE DEF IInv
<1>1. TypeOK'
  BY WorkersAssumption, BoundAssumption
  DEF TypeOK, Phases, ConnectorStates, Places, Requests, Started, AccessStates, Given, OperatorClears, Goto,
      Leave
<1>2. Locked'
  BY WorkersAssumption DEF TypeOK, Locked, OperatorClears, Goto, Leave
<1>3. RecordIsPhase'
  BY WorkersAssumption
  DEF TypeOK, Locked, RecordIsPhase, Unread, OperatorClears, Goto, Leave
<1>4. WhereStarting'
  BY WorkersAssumption
  DEF TypeOK, Locked, RecordIsPhase, WhereStarting, Evidence, Given, Unread, Started, Phases,
      OperatorClears, Goto, Leave
<1>5. WhereEnding'
  BY WorkersAssumption
  DEF TypeOK, Locked, RecordIsPhase, WhereEnding, Evidence, Unread, Ending, Withdrawn,
      Started, Phases, ConnectorStates, OperatorClears, Goto, Leave
<1>6. Evidence'
  BY WorkersAssumption
  DEF TypeOK, Locked, RecordIsPhase, WhereStarting, WhereEnding, Evidence, Given, Unread,
      Ending, Withdrawn, Started, Phases, StartedHasEvidence, OperatorClears, Goto,
      Leave
<1>7. LateInOrder'
  BY WorkersAssumption
  DEF TypeOK, WhereStarting, WhereEnding, LateInOrder, Evidence, Given, Ending, Withdrawn,
      Phases, Started, StartedHasEvidence, Requests, OperatorClears, Goto, Leave
<1>8. StartedHasEvidence'
  BY WorkersAssumption
  DEF TypeOK, WhereStarting, WhereEnding, Evidence, Given, LateInOrder, StartedHasEvidence,
      Ending, Withdrawn, Started, OperatorClears, Goto, Leave
<1>q. QED BY <1>1, <1>2, <1>3, <1>4, <1>5, <1>6, <1>7, <1>8

\* A late request takes effect in order.
LEMMA LateEffectKeeps ==
    ASSUME IInv, NEW request \in Requests, LateEffect(request)
    PROVE  IInv'
<1> USE DEF IInv
<1>1. TypeOK'
  BY
  DEF TypeOK, Phases, ConnectorStates, Places, Requests, Started, AccessStates, Given, LateInOrder,
      LateEffect, worker, Effect, Granted, Revoked, AfterStartAck, AfterTerminationAck
<1>2. Locked'
  BY
  DEF TypeOK, Locked, LateInOrder, LateEffect, worker, Effect, Granted, Revoked,
      AfterStartAck, AfterTerminationAck
<1>3. RecordIsPhase'
  BY
  DEF TypeOK, Locked, RecordIsPhase, Unread, LateInOrder, LateEffect, worker, Effect,
      Granted, Revoked, AfterStartAck, AfterTerminationAck
<1>4. WhereStarting'
  BY
  DEF TypeOK, Locked, RecordIsPhase, WhereStarting, Evidence, Given, Unread, Started, Phases,
      LateInOrder, LateEffect, worker, Effect, Granted, Revoked, AfterStartAck,
      AfterTerminationAck
<1>5. WhereEnding'
  BY
  DEF TypeOK, Locked, RecordIsPhase, WhereEnding, Evidence, Unread, Ending, Withdrawn,
      Started, Phases, ConnectorStates, LateInOrder, LateEffect, worker, Effect,
      Granted, Revoked, AfterStartAck, AfterTerminationAck
<1>6. Evidence'
  BY
  DEF TypeOK, Locked, RecordIsPhase, WhereStarting, WhereEnding, Evidence, Given, Unread,
      Ending, Withdrawn, Started, Phases, StartedHasEvidence, LateInOrder, LateEffect,
      worker, Effect, Granted, Revoked, AfterStartAck, AfterTerminationAck
<1>7. LateInOrder'
  BY
  DEF TypeOK, WhereStarting, WhereEnding, LateInOrder, Evidence, Given, Ending, Withdrawn,
      Phases, Started, StartedHasEvidence, Requests, LateEffect, worker, Effect,
      Granted, Revoked, AfterStartAck, AfterTerminationAck
<1>8. StartedHasEvidence'
  BY
  DEF TypeOK, WhereStarting, WhereEnding, Evidence, Given, LateInOrder, StartedHasEvidence,
      Ending, Withdrawn, Started, LateEffect, worker, Effect, Granted, Revoked,
      AfterStartAck, AfterTerminationAck
<1>q. QED BY <1>1, <1>2, <1>3, <1>4, <1>5, <1>6, <1>7, <1>8

\* The connector turns to termination: what it needed for a start is not needed.
LEMMA ConnectorEndsKeeps == ASSUME IInv, ConnectorEnds PROVE IInv'
<1> USE DEF IInv
<1>1. TypeOK'
  BY DEF TypeOK, Phases, ConnectorStates, Places, Requests, Started, AccessStates, Given, ConnectorEnds, worker
<1>2. Locked'
  BY DEF TypeOK, Locked, ConnectorEnds, worker
<1>3. RecordIsPhase'
  BY DEF TypeOK, Locked, RecordIsPhase, Unread, ConnectorEnds, worker
<1>4. WhereStarting'
  BY
  DEF TypeOK, Locked, RecordIsPhase, WhereStarting, Evidence, Given, Unread, Started, Phases,
      ConnectorEnds, worker
<1>5. WhereEnding'
  BY
  DEF TypeOK, Locked, RecordIsPhase, WhereEnding, Evidence, Unread, Ending, Withdrawn,
      Started, Phases, ConnectorStates, ConnectorEnds, worker
<1>6. Evidence'
  BY
  DEF TypeOK, Locked, RecordIsPhase, WhereStarting, WhereEnding, Evidence, Given, Unread,
      Ending, Withdrawn, Started, Phases, StartedHasEvidence, ConnectorEnds, worker
<1>7. LateInOrder'
  BY
  DEF TypeOK, WhereStarting, WhereEnding, LateInOrder, Evidence, Given, Ending, Withdrawn,
      Phases, Started, StartedHasEvidence, Requests, ConnectorEnds, worker
<1>8. StartedHasEvidence'
  BY
  DEF TypeOK, WhereStarting, WhereEnding, Evidence, Given, LateInOrder, StartedHasEvidence,
      Ending, Withdrawn, Started, ConnectorEnds, worker
<1>q. QED BY <1>1, <1>2, <1>3, <1>4, <1>5, <1>6, <1>7, <1>8

-----------------------------------------------------------------------------
(* The theorems for any requests                                           *)

\* A new transfer has the invariant.
LEMMA InitIInv == Init => IInv
BY WorkersAssumption, BoundAssumption
   DEF Init, IInv, TypeOK, Locked, RecordIsPhase, WhereStarting, WhereEnding, Evidence,
       LateInOrder, StartedHasEvidence, Phases, ConnectorStates, Places, Requests, AccessStates, Unread,
       Started, Ending, Withdrawn

\* Every step keeps the invariant.
LEMMA NextKeeps == IInv /\ [Next]_vars => IInv'
<1> SUFFICES ASSUME IInv, [Next]_vars PROVE IInv'
  OBVIOUS
<1>1. CASE UNCHANGED vars
  BY <1>1 DEF vars, worker, IInv, TypeOK, Locked, RecordIsPhase, WhereStarting, WhereEnding,
      Evidence, LateInOrder, StartedHasEvidence
<1>2. ASSUME NEW w \in Workers,
             \/ \E action \in {"START", "TERMINATE"} : Begin(w, action)
             \/ Step(w) \/ Crash(w) \/ OperatorClears(w)
      PROVE  IInv'
  BY <1>2, BeginKeeps, ReadStatusKeeps, StartChecksKeeps, AuthorizeKeeps, ProvisionKeeps,
      WriteProvisionedKeeps, CheckProvisionedKeeps, AcknowledgeStartKeeps, WriteActiveKeeps,
      TerminateChecksKeeps, RepeatAckKeeps, ConfirmAckKeeps, WriteTerminatingKeeps,
      RevokeOrSkipKeeps, RevokeAccessKeeps, WriteRevokedKeeps, AcknowledgeTerminationKeeps,
      WriteTerminatedKeeps, CrashKeeps, OperatorClearsKeeps DEF Step
<1>3. ASSUME NEW request \in Requests, LateEffect(request) PROVE IInv'
  BY <1>3, LateEffectKeeps
<1>4. CASE ConnectorEnds
  BY <1>4, ConnectorEndsKeeps
<1>5. QED BY <1>1, <1>2, <1>3, <1>4 DEF Next

\* The invariant holds in every reachable state.
THEOREM InvariantHolds == Spec => []IInv
BY InitIInv, NextKeeps, PTL DEF Spec

\* The journal, the workers, the connector and the platform keep their types.
THEOREM TypeCorrect == Spec => []TypeOK
<1>1. IInv => TypeOK BY DEF IInv
<1>2. QED BY <1>1, InvariantHolds, PTL

\* Whatever crashed, failed or came late, a transfer that the connector reports as
\* started has its evidence in the journal and had its access granted.
THEOREM StartedIsBacked == Spec => []StartedHasEvidence
<1>1. IInv => StartedHasEvidence BY DEF IInv
<1>2. QED BY <1>1, InvariantHolds, PTL

-----------------------------------------------------------------------------
(* The end of access, whatever comes late                                  *)

\* Every step keeps the revocation: the platform call of a START grants access, and
\* its place implies a phase before the revocation; when it comes late the access is
\* revived.
LEMMA RevocationKept ==
    ASSUME IInv, Revocation, [Next]_vars
    PROVE  Revocation'
<1> USE DEF IInv, Revocation, Withdrawn, Answered
<1>1. CASE UNCHANGED vars
  BY <1>1 DEF vars, worker
<1>2. CASE ConnectorEnds
  BY <1>2 DEF ConnectorEnds, worker
<1>3. ASSUME NEW request \in Requests, LateEffect(request) PROVE Revocation'
  BY <1>3 DEF LateEffect, worker, Effect, Granted, Revoked
<1>4. ASSUME NEW w \in Workers PROVE Step(w) => Revocation'
  <2> USE DEF TypeOK
  <2>1. ReadStatus(w) => Revocation' BY DEF ReadStatus, Goto, Leave
  <2>2. StartChecks(w) => Revocation' BY DEF StartChecks, StartDecision, Decide, Goto, Leave
  <2>3. Authorize(w) => Revocation' BY DEF Authorize, Journal, Goto, Leave, WhereStarting
  <2>4. Provision(w) => Revocation'
    BY DEF Provision, Call, Fits, Effect, StillPending, Goto, Leave, Granted, WhereStarting,
        Started, Locked
  <2>5. WriteProvisioned(w) => Revocation'
    BY DEF WriteProvisioned, Journal, Moved, Goto, Leave
  <2>6. CheckProvisioned(w) => Revocation' BY DEF CheckProvisioned, Decide, Goto, Leave
  <2>7. AcknowledgeStart(w) => Revocation'
    BY DEF AcknowledgeStart, Call, Effect, StillPending, Goto, Leave
  <2>8. WriteActive(w) => Revocation' BY DEF WriteActive, Journal, Moved, Goto, Leave
  <2>9. TerminateChecks(w) => Revocation'
    BY DEF TerminateChecks, TerminateDecision, Decide, Goto, Leave
  <2>10. RepeatAck(w) => Revocation'
    BY DEF RepeatAck, Call, Effect, StillPending, Goto, Leave
  <2>11. ConfirmAck(w) => Revocation' BY DEF ConfirmAck, Decide, Goto, Leave
  <2>12. WriteTerminating(w) => Revocation'
    BY DEF WriteTerminating, Journal, Moved, Goto, Leave
  <2>13. RevokeOrSkip(w) => Revocation' BY DEF RevokeOrSkip, Decide, Goto, Leave
  <2>14. RevokeAccess(w) => Revocation'
    BY DEF RevokeAccess, Call, Fits, Effect, StillPending, Goto, Leave, Revoked,
        WhereEnding, AccessStates
  <2>15. WriteRevoked(w) => Revocation' BY DEF WriteRevoked, Journal, Moved, Goto, Leave
  <2>16. AcknowledgeTermination(w) => Revocation'
    BY DEF AcknowledgeTermination, Call, Effect, StillPending, Goto, Leave
  <2>17. WriteTerminated(w) => Revocation'
    BY DEF WriteTerminated, Journal, Moved, Goto, Leave
  <2>18. QED
    BY <2>1, <2>2, <2>3, <2>4, <2>5, <2>6, <2>7, <2>8, <2>9, <2>10, <2>11, <2>12, <2>13,
        <2>14, <2>15, <2>16, <2>17 DEF Step
<1>5. ASSUME NEW w \in Workers,
             \/ \E action \in {"START", "TERMINATE"} : Begin(w, action)
             \/ Crash(w) \/ OperatorClears(w)
      PROVE  Revocation'
  BY <1>5
  DEF TypeOK, Begin, Crash, OperatorClears, StillPending, RequestAt, WhereEnding, Goto, Leave
<1>6. QED BY <1>1, <1>2, <1>3, <1>4, <1>5 DEF Next

\* Both invariants hold in every reachable state.
LEMMA RevocationHolds == Spec => [](IInv /\ Revocation)
<1>1. Init => IInv /\ Revocation
  BY InitIInv DEF Init, Revocation, Withdrawn, Answered
<1>2. IInv /\ Revocation /\ [Next]_vars => (IInv /\ Revocation)'
  BY NextKeeps, RevocationKept
<1>3. QED BY <1>1, <1>2, PTL DEF Spec

\* Whatever crashed, failed or came late, the platform has answered a revocation of
\* a transfer that the connector reports as terminated, and only a request that came
\* late granted access after it.
THEOREM NoAccessOutlives == Spec => []TerminatedIsRevoked
<1>1. IInv /\ Revocation => TerminatedIsRevoked
  BY DEF IInv, Evidence, Revocation, TerminatedIsRevoked, Answered
<1>2. QED BY <1>1, RevocationHolds, PTL

-----------------------------------------------------------------------------
(* The worker keeps its promise                                            *)

\* A call has the effect of its request or none.
LEMMA CallEffect ==
    ASSUME NEW w, NEW from, NEW request, NEW l, Call(w, from, request, l)
    PROVE  \/ Effect(request) /\ pc[w] = from
           \/ UNCHANGED <<connector, access>>
BY DEF Call

\* Every step of the worker is a step of the promise or does not show.
LEMMA StepKeepsPromise ==
    ASSUME IInv, Revocation, [Next]_vars
    PROVE  [Promise!Next]_<<connector, access>>
<1> USE DEF IInv, Promise!Next
<1>1. CASE UNCHANGED vars
  BY <1>1 DEF vars
<1>2. CASE ConnectorEnds
  BY <1>2 DEF ConnectorEnds, Promise!AuthorizeTermination
<1>3. ASSUME NEW request \in Requests, LateEffect(request)
      PROVE  [Promise!Next]_<<connector, access>>
  <2> USE DEF TypeOK, AccessStates, Requests, Revocation, Withdrawn, Answered, Evidence, Ending
  <2>1. request \in late /\ "terminationAck" \in late => phase \in Withdrawn
    BY <1>3 DEF LateEffect, LateInOrder
  <2>2. CASE request = "provision"
    BY <1>3, <2>2 DEF LateEffect, Effect, Granted, Promise!Grant, Promise!Revive
  <2>3. CASE request = "startAck"
    BY <1>3, <2>3 DEF LateEffect, LateInOrder, Given, Effect, AfterStartAck, Promise!Start
  <2>4. CASE request = "revoke"
    BY <1>3, <2>4 DEF LateEffect, Effect, Revoked, Promise!Revoke
  <2>5. CASE request = "terminationAck"
    BY <1>3, <2>1, <2>5 DEF LateEffect, Effect, AfterTerminationAck, Promise!Terminate
  <2>q. QED BY <2>2, <2>3, <2>4, <2>5
<1>4. ASSUME NEW w \in Workers, Step(w) PROVE [Promise!Next]_<<connector, access>>
  <2>1. CASE UNCHANGED <<connector, access>>
    BY <2>1
  <2>2. CASE Provision(w)
    BY <2>2, CallEffect DEF Provision, Effect, Granted, WhereStarting, Evidence, Started,
        Withdrawn, Revocation, Answered, TypeOK, Promise!Grant
  <2>3. CASE AcknowledgeStart(w)
    <3>1. CASE Effect("startAck") /\ pc[w] = "startAck"
      BY <3>1 DEF Effect, AfterStartAck, WhereStarting, Evidence, Given, Answered, Withdrawn,
          Revocation, Promise!Start
    <3>2. QED BY <2>1, <2>3, <3>1, CallEffect DEF AcknowledgeStart
  <2>4. CASE RevokeAccess(w)
    BY <2>4, CallEffect DEF RevokeAccess, Effect, Revoked, WhereEnding, Ending,
        TypeOK, AccessStates, Promise!Revoke
  <2>5. CASE AcknowledgeTermination(w) \/ RepeatAck(w)
    <3>1. CASE Effect("terminationAck") /\ pc[w] \in {"terminationAck", "repeatAck"}
      BY <3>1 DEF Effect, AfterTerminationAck, WhereEnding, Revocation, Answered,
          Promise!Terminate
    <3>2. QED BY <2>1, <2>5, <3>1, CallEffect DEF AcknowledgeTermination, RepeatAck
  <2>6. QED
    BY <1>4, <2>1, <2>2, <2>3, <2>4, <2>5
       DEF Step, ReadStatus, StartChecks, Authorize, WriteProvisioned, CheckProvisioned,
           WriteActive, TerminateChecks, ConfirmAck, WriteTerminating, RevokeOrSkip,
           WriteRevoked, WriteTerminated, Decide, Journal
<1>5. ASSUME NEW w \in Workers,
             \/ \E action \in {"START", "TERMINATE"} : Begin(w, action)
             \/ Crash(w) \/ OperatorClears(w)
      PROVE  UNCHANGED <<connector, access>>
  BY <1>5 DEF Begin, Crash, OperatorClears
<1>6. QED BY <1>1, <1>2, <1>3, <1>4, <1>5 DEF Next

\* Whatever crashed, failed or came late, what the connector and the platform see of
\* the worker is what TransferPromise allows.
THEOREM KeepsThePromise == Spec => ImplementsPromise
<1>1. Init => Promise!Init
  BY DEF Init, Promise!Init
<1>2. IInv /\ Revocation /\ [Next]_vars => [Promise!Next]_<<connector, access>>
  BY StepKeepsPromise
<1>3. QED BY <1>1, <1>2, RevocationHolds, PTL DEF Spec, ImplementsPromise, Promise!Spec

-----------------------------------------------------------------------------
(* The usage meter.  What a transaction has found holds until it commits,  *)
(* because it holds the advisory lock.                                     *)

MeterPlaces == {"idle", "begun", "locked", "inserted", "replayed", "refused",
                "failed", "recorded", "lost", "reported"}

MeterTyped ==
    /\ Meter!TypeOK
    /\ hour \in [UsageRequests -> Hours]
    /\ tally \in [Rebuilds -> [Hours -> Nat]]
    /\ IsFiniteSet(entries)

EntryOf(r) == [id |-> Meter!Identity(r), hour |-> hour[r]]

EventsAreWhole == \A e \in entries : e.id.request \in UsageRequests /\ e = EntryOf(e.id.request)

Inside == {"locked", "inserted", "replayed"}

OneTransaction == \A c \in Meter!Callers : step[c] \in Inside => meterLock = c

RequestFinds(r) ==
    /\ step[r] = "inserted" => EntryOf(r) \notin entries
    /\ step[r] \in {"replayed", "recorded", "reported"} => EntryOf(r) \in entries
    /\ r \in outboxed <=> EntryOf(r) \in entries

RebuildFinds(b) ==
    /\ step[b] = "inserted" => tally[b] = Meter!Counted(entries) /\ rebuilt[OperationOf[b]] = {}
    /\ step[b] \in {"replayed", "recorded"} => rebuilt[OperationOf[b]] = RangeOf[b]

CallersFind ==
    /\ \A r \in UsageRequests : RequestFinds(r)
    /\ \A b \in Rebuilds : RebuildFinds(b)

RollupIsCounted == rollup = Meter!Counted(entries)

MeterInv ==
    /\ MeterTyped /\ EventsAreWhole /\ OneTransaction
    /\ CallersFind /\ RollupIsCounted

LEMMA MeterCardinality == \A S : Meter!Cardinality(S) = Cardinality(S)
  BY DEF Meter!Cardinality, Cardinality

LEMMA MeterStarts == Meter!Init => MeterInv
<1> SUFFICES ASSUME Meter!Init PROVE MeterInv
  OBVIOUS
<1> USE DEF Meter!Init
<1>1. IsFiniteSet(entries) /\ Cardinality(entries) = 0
  BY FS_EmptySet
<1>2. Meter!TypeOK
  <2>1. attempt \in [UsageRequests -> 1..MaxAttempts]
    BY UsageAssumption
  <2>2. rebuilt \in [Meter!Operations -> SUBSET Hours]
    OBVIOUS
  <2>q. QED BY <2>1, <2>2 DEF Meter!TypeOK, Meter!Callers
<1>3. MeterTyped
  BY <1>1, <1>2 DEF MeterTyped
<1>4. RollupIsCounted
  <2>1. \A h \in Hours : {e \in entries : e.hour = h} = entries
    OBVIOUS
  <2>2. \A h \in Hours : Cardinality({e \in entries : e.hour = h}) = 0
    BY <2>1, <1>1
  <2>3. Meter!Counted(entries) = [h \in Hours |-> 0]
    BY <2>2, MeterCardinality DEF Meter!Counted
  <2>q. QED BY <2>3 DEF RollupIsCounted
<1>5. EventsAreWhole /\ OneTransaction
  BY DEF EventsAreWhole, OneTransaction, Inside
<1>6. CallersFind
  BY DEF CallersFind, RequestFinds, RebuildFinds, Meter!Callers
<1>q. QED BY <1>3, <1>4, <1>5, <1>6 DEF MeterInv

\* One more event counts for its hour.
LEMMA OneMoreCounts ==
    ASSUME NEW old, IsFiniteSet(old), NEW new, new \notin old, new.hour \in Hours
    PROVE  /\ Meter!Counted(old) \in [Hours -> Nat]
           /\ Meter!Counted(old \cup {new}) = [Meter!Counted(old) EXCEPT ![new.hour] = @ + 1]
<1> DEFINE Of(events, h) == {e \in events : e.hour = h}
<1>1. \A h \in Hours : IsFiniteSet(Of(old, h)) /\ Cardinality(Of(old, h)) \in Nat
  <2> TAKE h \in Hours
  <2>1. Of(old, h) \subseteq old
    OBVIOUS
  <2>q. QED BY <2>1, FS_Subset, FS_CardinalityType
<1>2. \A h \in Hours : h # new.hour => Of(old \cup {new}, h) = Of(old, h)
  OBVIOUS
<1>3. Of(old \cup {new}, new.hour) = Of(old, new.hour) \cup {new} /\ new \notin Of(old, new.hour)
  OBVIOUS
<1>5. Meter!Counted(old) = [h \in Hours |-> Cardinality(Of(old, h))]
  BY MeterCardinality DEF Meter!Counted
<1>6. Meter!Counted(old \cup {new}) = [h \in Hours |-> Cardinality(Of(old \cup {new}, h))]
  BY MeterCardinality DEF Meter!Counted
<1> HIDE DEF Of
<1>4. Cardinality(Of(old \cup {new}, new.hour)) = Cardinality(Of(old, new.hour)) + 1
  BY <1>1, <1>3, FS_AddElement
<1>q. QED BY <1>1, <1>2, <1>4, <1>5, <1>6

\* Nothing is written and nobody takes the lock; a caller that moves leaves its
\* transaction or reports what was recorded.
LEMMA MeterQuiet ==
    ASSUME MeterInv, UNCHANGED <<entries, rollup, outboxed, rebuilt, hour, tally>>,
           recorder' \in {"open", "draining", "closed", "expired"},
           attempt' \in [UsageRequests -> 1..MaxAttempts],
           NEW c \in Meter!Callers, NEW spot \in MeterPlaces,
           step' = [step EXCEPT ![c] = spot] \/ step' = step,
           step' = step \/ spot \notin Inside \cup {"recorded"},
           spot = "reported" => c \in UsageRequests /\ step[c] = "recorded",
           meterLock' = meterLock \/ (meterLock = c /\ meterLock' = None /\ step'[c] \notin Inside)
    PROVE  MeterInv'
<1> USE DEF MeterInv
<1>1. /\ step \in [Meter!Callers -> MeterPlaces]
      /\ step' \in [Meter!Callers -> MeterPlaces]
      /\ \A d \in Meter!Callers : step'[d] = step[d] \/ (d = c /\ step'[d] = spot /\ spot \notin Inside \cup {"recorded"})
  BY DEF MeterTyped, Meter!TypeOK, MeterPlaces
<1>2. MeterTyped'
  BY <1>1 DEF MeterTyped, Meter!TypeOK, MeterPlaces
<1>3. EventsAreWhole' /\ RollupIsCounted'
  BY DEF EventsAreWhole, EntryOf, Meter!Identity, RollupIsCounted, Meter!Counted
<1>4. OneTransaction'
  BY <1>1 DEF OneTransaction
<1>5. ASSUME NEW r \in UsageRequests PROVE RequestFinds(r)'
  <2>1. r \in Meter!Callers /\ EntryOf(r)' = EntryOf(r)
    BY DEF Meter!Callers, EntryOf, Meter!Identity
  <2>2. step'[r] = "inserted" => step[r] = "inserted"
    BY <1>1, <2>1 DEF Inside
  <2>3. step'[r] \in {"replayed", "recorded", "reported"} => step[r] \in {"replayed", "recorded", "reported"}
    BY <1>1, <2>1 DEF Inside
  <2>q. QED BY <2>1, <2>2, <2>3 DEF CallersFind, RequestFinds
<1>6. ASSUME NEW b \in Rebuilds PROVE RebuildFinds(b)'
  <2>1. b \in Meter!Callers /\ Meter!Counted(entries)' = Meter!Counted(entries)
    BY DEF Meter!Callers, Meter!Counted
  <2>2. step'[b] \in {"inserted", "replayed", "recorded"} => step'[b] = step[b]
    BY <1>1, <2>1, UsageAssumption DEF Inside
  <2>q. QED BY <2>1, <2>2 DEF CallersFind, RebuildFinds
<1>q. QED BY <1>2, <1>3, <1>4, <1>5, <1>6 DEF CallersFind

LEMMA MeterLocks ==
    ASSUME MeterInv, NEW c \in Meter!Callers, Meter!Lock(c)
    PROVE  MeterInv'
<1> USE DEF MeterInv
<1>1. /\ step \in [Meter!Callers -> MeterPlaces] /\ step[c] = "begun"
      /\ step' = [step EXCEPT ![c] = "locked"] /\ meterLock = None /\ meterLock' = c
      /\ UNCHANGED <<entries, rollup, outboxed, rebuilt, hour, attempt, tally, recorder>>
  BY DEF Meter!Lock, Meter!Moves, Meter!tables, MeterTyped, Meter!TypeOK, MeterPlaces
<1>2. MeterTyped'
  BY <1>1 DEF MeterTyped, Meter!TypeOK, MeterPlaces
<1>3. EventsAreWhole' /\ RollupIsCounted'
  BY <1>1 DEF EventsAreWhole, EntryOf, Meter!Identity, RollupIsCounted, Meter!Counted
<1>4. OneTransaction'
  BY <1>1, UsageAssumption DEF OneTransaction, Meter!Callers, Inside
<1>5. ASSUME NEW r \in UsageRequests PROVE RequestFinds(r)'
  <2>1. r \in Meter!Callers /\ EntryOf(r)' = EntryOf(r)
    BY <1>1 DEF Meter!Callers, EntryOf, Meter!Identity
  <2>q. QED BY <1>1, <2>1 DEF CallersFind, RequestFinds
<1>6. ASSUME NEW b \in Rebuilds PROVE RebuildFinds(b)'
  <2>1. b \in Meter!Callers /\ Meter!Counted(entries)' = Meter!Counted(entries)
    BY <1>1 DEF Meter!Callers, Meter!Counted
  <2>q. QED BY <1>1, <2>1 DEF CallersFind, RebuildFinds
<1>q. QED BY <1>2, <1>3, <1>4, <1>5, <1>6 DEF CallersFind

LEMMA MeterInserts ==
    ASSUME MeterInv, NEW r \in UsageRequests, Meter!InsertEvent(r)
    PROVE  MeterInv'
<1> USE DEF MeterInv
<1> DEFINE spot == IF EntryOf(r) \in entries THEN "replayed" ELSE "inserted"
<1>0. (\E e \in entries : e.id = Meter!Identity(r)) <=> EntryOf(r) \in entries
  BY DEF EventsAreWhole, EntryOf, Meter!Identity
<1>1. /\ step \in [Meter!Callers -> MeterPlaces] /\ step[r] = "locked" /\ r \in Meter!Callers
      /\ step' = [step EXCEPT ![r] = spot]
      /\ UNCHANGED <<meterLock, entries, rollup, outboxed, rebuilt, hour, attempt, tally, recorder>>
  BY <1>0 DEF Meter!InsertEvent, Meter!Moves, Meter!tables, MeterTyped, Meter!TypeOK, MeterPlaces, Meter!Callers
<1>2. MeterTyped'
  BY <1>1 DEF MeterTyped, Meter!TypeOK, MeterPlaces
<1>3. EventsAreWhole' /\ RollupIsCounted'
  BY <1>1 DEF EventsAreWhole, EntryOf, Meter!Identity, RollupIsCounted, Meter!Counted
<1>4. OneTransaction'
  BY <1>1 DEF OneTransaction, Inside
<1>5. ASSUME NEW q \in UsageRequests PROVE RequestFinds(q)'
  <2>1. q \in Meter!Callers /\ EntryOf(q)' = EntryOf(q)
    BY <1>1 DEF Meter!Callers, EntryOf, Meter!Identity
  <2>q. QED BY <1>1, <2>1 DEF CallersFind, RequestFinds
<1>6. ASSUME NEW b \in Rebuilds PROVE RebuildFinds(b)'
  <2>1. b \in Meter!Callers /\ b # r /\ Meter!Counted(entries)' = Meter!Counted(entries)
    BY <1>1, UsageAssumption DEF Meter!Callers, Meter!Counted
  <2>q. QED BY <1>1, <2>1 DEF CallersFind, RebuildFinds
<1>q. QED BY <1>2, <1>3, <1>4, <1>5, <1>6 DEF CallersFind

LEMMA CountsAreNumbers ==
    ASSUME NEW events, IsFiniteSet(events)
    PROVE  Meter!Counted(events) \in [Hours -> Nat]
<1>1. ASSUME NEW h \in Hours PROVE Cardinality({e \in events : e.hour = h}) \in Nat
  <2>1. {e \in events : e.hour = h} \subseteq events
    OBVIOUS
  <2>q. QED BY <2>1, FS_Subset, FS_CardinalityType
<1>q. QED BY <1>1, MeterCardinality DEF Meter!Counted

LEMMA MeterRebuilds ==
    ASSUME MeterInv, NEW b \in Rebuilds, Meter!Rebuild(b)
    PROVE  MeterInv'
<1> USE DEF MeterInv
<1> DEFINE before == rebuilt[OperationOf[b]]
           spot  == IF before = {} THEN "inserted"
                     ELSE IF before = RangeOf[b] THEN "replayed" ELSE "refused"
<1>1. /\ step \in [Meter!Callers -> MeterPlaces] /\ step[b] = "locked" /\ b \in Meter!Callers
      /\ b \notin UsageRequests
      /\ step' = [step EXCEPT ![b] = spot]
      /\ meterLock' = meterLock \/ (meterLock' = None /\ spot = "refused")
      /\ tally' = IF before = {} THEN [tally EXCEPT ![b] = Meter!Counted(entries)] ELSE tally
      /\ UNCHANGED <<entries, rollup, outboxed, rebuilt, hour, attempt, recorder>>
  BY UsageAssumption DEF Meter!Rebuild, Meter!Moves, Meter!tables, MeterTyped, Meter!TypeOK, MeterPlaces, Meter!Callers
<1>0. tally' \in [Rebuilds -> [Hours -> Nat]]
  BY <1>1, CountsAreNumbers DEF MeterTyped
<1>2. MeterTyped'
  BY <1>0, <1>1 DEF MeterTyped, Meter!TypeOK, MeterPlaces
<1>3. EventsAreWhole' /\ RollupIsCounted'
  BY <1>1 DEF EventsAreWhole, EntryOf, Meter!Identity, RollupIsCounted, Meter!Counted
<1>4. OneTransaction'
  BY <1>1 DEF OneTransaction, Inside
<1>5. ASSUME NEW r \in UsageRequests PROVE RequestFinds(r)'
  <2>1. r \in Meter!Callers /\ r # b /\ EntryOf(r)' = EntryOf(r)
    BY <1>1 DEF Meter!Callers, EntryOf, Meter!Identity
  <2>q. QED BY <1>1, <2>1 DEF CallersFind, RequestFinds
<1>6. ASSUME NEW c \in Rebuilds PROVE RebuildFinds(c)'
  <2>1. c \in Meter!Callers /\ Meter!Counted(entries)' = Meter!Counted(entries)
    BY <1>1 DEF Meter!Callers, Meter!Counted
  <2>2. c = b => tally'[c] = Meter!Counted(entries) \/ step'[c] # "inserted"
    BY <1>1 DEF MeterTyped
  <2>3. c # b => tally'[c] = tally[c] /\ step'[c] = step[c]
    BY <1>1, <2>1 DEF MeterTyped
  <2>4. c = b => step'[c] = spot
    BY <1>1
  <2>q. QED BY <1>1, <2>1, <2>2, <2>3, <2>4 DEF CallersFind, RebuildFinds
<1>q. QED BY <1>2, <1>3, <1>4, <1>5, <1>6 DEF CallersFind

\* The commit of a request: one event more, one more in the rollup of its hour.
LEMMA MeterCommitsARequest ==
    ASSUME MeterInv, NEW r \in UsageRequests, Meter!Commit(r), step[r] = "inserted"
    PROVE  MeterInv'
<1> USE DEF MeterInv
<1>1. PICK spot \in {"recorded", "failed"} : step' = [step EXCEPT ![r] = spot]
  BY DEF Meter!Commit, Meter!Moves
<1>2. /\ step \in [Meter!Callers -> MeterPlaces] /\ r \in Meter!Callers /\ r \notin Rebuilds
      /\ meterLock = r /\ meterLock' = None /\ hour[r] \in Hours
      /\ entries' = entries \cup {EntryOf(r)} /\ EntryOf(r) \notin entries
      /\ rollup' = [rollup EXCEPT ![hour[r]] = @ + 1]
      /\ outboxed' = outboxed \cup {r}
      /\ UNCHANGED <<rebuilt, hour, attempt, tally, recorder>>
  BY UsageAssumption DEF Meter!Commit, Meter!Written, Meter!Announced, MeterTyped, Meter!TypeOK,
     MeterPlaces, Meter!Callers, EntryOf, CallersFind, RequestFinds, OneTransaction, Inside
<1>3. EntryOf(r) \in [id : Meter!Ids, hour : Hours] /\ EntryOf(r).hour = hour[r]
  BY <1>2, UsageAssumption DEF EntryOf, Meter!Identity, Meter!Ids
<1>4. Meter!Counted(entries') = rollup'
  <2>1. PICK new : new = EntryOf(r)
    OBVIOUS
  <2>2. new \notin entries /\ new.hour \in Hours /\ IsFiniteSet(entries)
    BY <1>2, <1>3, <2>1 DEF MeterTyped
  <2>3. Meter!Counted(entries \cup {new}) = [rollup EXCEPT ![new.hour] = @ + 1]
    BY <2>2, OneMoreCounts DEF RollupIsCounted
  <2>4. entries' = entries \cup {new} /\ rollup' = [rollup EXCEPT ![new.hour] = @ + 1]
    BY <1>2, <1>3, <2>1
  <2>q. QED BY <2>3, <2>4
<1>5. rollup' \in [Hours -> Nat] /\ IsFiniteSet(entries')
  <2>1. IsFiniteSet(entries')
    BY <1>2, FS_AddElement DEF MeterTyped
  <2>q. QED BY <2>1, <1>4, CountsAreNumbers
<1>6. MeterTyped'
  BY <1>1, <1>2, <1>3, <1>5 DEF MeterTyped, Meter!TypeOK, MeterPlaces
<1>7. \A q \in UsageRequests : EntryOf(q)' = EntryOf(q) /\ q \in Meter!Callers /\ EntryOf(q).id.request = q
  BY <1>2 DEF EntryOf, Meter!Identity, Meter!Callers
<1>8. EventsAreWhole'
  BY <1>2, <1>7 DEF EventsAreWhole
<1>9. RollupIsCounted'
  BY <1>4 DEF RollupIsCounted, Meter!Counted
<1>10. OneTransaction'
  BY <1>1, <1>2 DEF OneTransaction, Inside
<1>11. ASSUME NEW q \in UsageRequests PROVE RequestFinds(q)'
  <2>1. EntryOf(q)' = EntryOf(q) /\ (q # r => EntryOf(q) # EntryOf(r))
    BY <1>7
  <2>2. q # r => step'[q] = step[q]
    BY <1>1, <1>2, <1>7
  <2>3. q = r => step'[q] = spot
    BY <1>1, <1>2
  <2>q. QED BY <1>2, <2>1, <2>2, <2>3 DEF CallersFind, RequestFinds
<1>12. ASSUME NEW b \in Rebuilds PROVE RebuildFinds(b)'
  <2>1. b \in Meter!Callers /\ b # r
    BY <1>2 DEF Meter!Callers
  <2>2. step'[b] = step[b] /\ step[b] # "inserted"
    BY <1>1, <1>2, <2>1, UsageAssumption DEF OneTransaction, Inside
  <2>q. QED BY <1>2, <2>2 DEF CallersFind, RebuildFinds
<1>q. QED BY <1>6, <1>8, <1>9, <1>10, <1>11, <1>12 DEF CallersFind

\* The commit of a rebuild writes what the rollups already say.
LEMMA MeterCommitsARebuild ==
    ASSUME MeterInv, NEW b \in Rebuilds, Meter!Commit(b), step[b] = "inserted"
    PROVE  MeterInv'
<1> USE DEF MeterInv
<1>1. PICK spot \in {"recorded", "failed"} : step' = [step EXCEPT ![b] = spot]
  BY DEF Meter!Commit, Meter!Moves
<1>2. /\ step \in [Meter!Callers -> MeterPlaces] /\ b \in Meter!Callers /\ b \notin UsageRequests
      /\ meterLock = b /\ meterLock' = None
      /\ rollup' = [h \in Hours |-> IF h \in RangeOf[b] THEN tally[b][h] ELSE rollup[h]]
      /\ tally[b] = Meter!Counted(entries)
      /\ rebuilt' = [rebuilt EXCEPT ![OperationOf[b]] = RangeOf[b]]
      /\ rebuilt[OperationOf[b]] = {}
      /\ outboxed' = outboxed \cup {OperationOf[b]}
      /\ UNCHANGED <<entries, hour, attempt, tally, recorder>>
  BY UsageAssumption DEF Meter!Commit, Meter!Written, Meter!Announced, MeterTyped, Meter!TypeOK,
     MeterPlaces, Meter!Callers, CallersFind, RebuildFinds, OneTransaction, Inside
<1>3. rollup' = rollup
  BY <1>2 DEF RollupIsCounted, MeterTyped, Meter!TypeOK
<1>4. OperationOf[b] \in Meter!Operations /\ RangeOf[b] \in SUBSET Hours /\ RangeOf[b] # {}
  BY UsageAssumption DEF Meter!Operations
<1>5. MeterTyped'
  BY <1>1, <1>2, <1>3, <1>4 DEF MeterTyped, Meter!TypeOK, MeterPlaces
<1>6. EventsAreWhole' /\ RollupIsCounted'
  BY <1>2, <1>3 DEF EventsAreWhole, EntryOf, Meter!Identity, RollupIsCounted, Meter!Counted
<1>7. OneTransaction'
  BY <1>1, <1>2 DEF OneTransaction, Inside
<1>8. ASSUME NEW r \in UsageRequests PROVE RequestFinds(r)'
  <2>1. r \in Meter!Callers /\ r # b /\ EntryOf(r)' = EntryOf(r) /\ r # OperationOf[b]
    BY <1>2, <1>4, UsageAssumption DEF Meter!Callers, EntryOf, Meter!Identity, Meter!Operations
  <2>q. QED BY <1>1, <1>2, <2>1 DEF CallersFind, RequestFinds
<1>9. ASSUME NEW c \in Rebuilds PROVE RebuildFinds(c)'
  <2>1. c \in Meter!Callers /\ OperationOf[c] \in Meter!Operations
    BY DEF Meter!Callers, Meter!Operations
  <2>2. c # b => step'[c] = step[c] /\ step[c] # "inserted"
    BY <1>1, <1>2, <2>1 DEF OneTransaction, Inside
  <2>3. c = b => step'[c] = spot
    BY <1>1, <1>2
  <2>4. rebuilt'[OperationOf[c]] = IF OperationOf[c] = OperationOf[b] THEN RangeOf[b] ELSE rebuilt[OperationOf[c]]
    BY <1>2, <2>1 DEF MeterTyped, Meter!TypeOK
  <2>5. c # b /\ step[c] \in {"replayed", "recorded"} => OperationOf[c] # OperationOf[b]
    BY <1>2, UsageAssumption DEF CallersFind, RebuildFinds
  <2>q. QED BY <2>2, <2>3, <2>4, <2>5 DEF CallersFind, RebuildFinds
<1>q. QED BY <1>5, <1>6, <1>7, <1>8, <1>9 DEF CallersFind

\* The commit of a replay writes nothing.
LEMMA MeterCommitsAReplay ==
    ASSUME MeterInv, NEW c \in Meter!Callers, Meter!Commit(c), step[c] = "replayed"
    PROVE  MeterInv'
<1> USE DEF MeterInv
<1>1. PICK spot \in {"recorded", "failed"} : step' = [step EXCEPT ![c] = spot]
  BY DEF Meter!Commit, Meter!Moves
<1>2. /\ step \in [Meter!Callers -> MeterPlaces]
      /\ meterLock = c /\ meterLock' = None
      /\ UNCHANGED <<entries, rollup, outboxed, rebuilt, hour, attempt, tally, recorder>>
  BY DEF Meter!Commit, Meter!tables, MeterTyped, Meter!TypeOK, MeterPlaces, OneTransaction, Inside
<1>3. MeterTyped'
  BY <1>1, <1>2 DEF MeterTyped, Meter!TypeOK, MeterPlaces
<1>4. EventsAreWhole' /\ RollupIsCounted'
  BY <1>2 DEF EventsAreWhole, EntryOf, Meter!Identity, RollupIsCounted, Meter!Counted
<1>5. OneTransaction'
  BY <1>1, <1>2 DEF OneTransaction, Inside
<1>6. ASSUME NEW r \in UsageRequests PROVE RequestFinds(r)'
  <2>1. r \in Meter!Callers /\ EntryOf(r)' = EntryOf(r)
    BY <1>2 DEF Meter!Callers, EntryOf, Meter!Identity
  <2>q. QED BY <1>1, <1>2, <2>1 DEF CallersFind, RequestFinds
<1>7. ASSUME NEW b \in Rebuilds PROVE RebuildFinds(b)'
  <2>1. b \in Meter!Callers /\ Meter!Counted(entries)' = Meter!Counted(entries)
    BY <1>2 DEF Meter!Callers, Meter!Counted
  <2>q. QED BY <1>1, <1>2, <2>1 DEF CallersFind, RebuildFinds
<1>q. QED BY <1>3, <1>4, <1>5, <1>6, <1>7 DEF CallersFind

LEMMA MeterRestKeeps ==
    ASSUME MeterInv,
           \/ Meter!Close \/ Meter!Drained
           \/ \E r \in UsageRequests : Meter!Complete(r) \/ Meter!Retry(r) \/ Meter!Report(r)
           \/ \E b \in Rebuilds : Meter!Ask(b) \/ Meter!AskAgain(b)
           \/ \E c \in Meter!Callers : Meter!Rollback(c)
    PROVE  MeterInv'
<1> USE DEF Meter!Moves, Meter!tables, MeterPlaces, Inside
<1>0. attempt \in [UsageRequests -> 1..MaxAttempts] /\ recorder \in {"open", "draining", "closed", "expired"}
      /\ step \in [Meter!Callers -> MeterPlaces]
  BY DEF MeterInv, MeterTyped, Meter!TypeOK
<1>1. CASE Meter!Close \/ Meter!Drained
  <2>1. recorder' \in {"open", "draining", "closed", "expired"}
        /\ UNCHANGED <<entries, rollup, outboxed, rebuilt, meterLock, step, hour, attempt, tally>>
    BY <1>1 DEF Meter!Close, Meter!Drained
  <2>2. CASE Meter!Callers = {}
    <3>1. MeterTyped'
      BY <2>1 DEF MeterInv, MeterTyped, Meter!TypeOK
    <3>2. EventsAreWhole' /\ OneTransaction' /\ CallersFind' /\ RollupIsCounted'
      BY <2>1, <2>2 DEF MeterInv, EventsAreWhole, EntryOf, Meter!Identity, RollupIsCounted, Meter!Counted,
         OneTransaction, CallersFind, Meter!Callers
    <3>q. QED BY <3>1, <3>2 DEF MeterInv
  <2>3. CASE \E c \in Meter!Callers : TRUE
    <3>1. PICK c \in Meter!Callers : TRUE
      BY <2>3
    <3>q. QED BY <1>0, <2>1, <3>1, MeterQuiet
  <2>q. QED BY <2>2, <2>3
<1>2. ASSUME NEW r \in UsageRequests, Meter!Complete(r) PROVE MeterInv'
  <2>1. r \in Meter!Callers
    BY DEF Meter!Callers
  <2>q. QED BY <1>0, <1>2, <2>1, MeterQuiet DEF Meter!Complete
<1>3. ASSUME NEW r \in UsageRequests, Meter!Retry(r) PROVE MeterInv'
  <2>1. r \in Meter!Callers
    BY DEF Meter!Callers
  <2>2. attempt' \in [UsageRequests -> 1..MaxAttempts]
    BY <1>0, <1>3, UsageAssumption DEF Meter!Retry
  <2>q. QED BY <1>0, <1>3, <2>1, <2>2, MeterQuiet DEF Meter!Retry
<1>4. ASSUME NEW r \in UsageRequests, Meter!Report(r) PROVE MeterInv'
  <2>1. r \in Meter!Callers
    BY DEF Meter!Callers
  <2>q. QED BY <1>0, <1>4, <2>1, MeterQuiet DEF Meter!Report
<1>5. ASSUME NEW b \in Rebuilds, Meter!Ask(b) \/ Meter!AskAgain(b) PROVE MeterInv'
  <2>1. b \in Meter!Callers
    BY DEF Meter!Callers
  <2>q. QED BY <1>0, <1>5, <2>1, MeterQuiet DEF Meter!Ask, Meter!AskAgain
<1>6. ASSUME NEW c \in Meter!Callers, Meter!Rollback(c) PROVE MeterInv'
  BY <1>0, <1>6, MeterQuiet DEF Meter!Rollback
<1>q. QED BY <1>1, <1>2, <1>3, <1>4, <1>5, <1>6

LEMMA MeterStays == MeterInv /\ [Meter!Next]_meter_vars => MeterInv'
<1> SUFFICES ASSUME MeterInv, [Meter!Next]_meter_vars PROVE MeterInv'
  OBVIOUS
<1>1. CASE UNCHANGED meter_vars
  BY <1>1 DEF meter_vars, MeterInv, MeterTyped, Meter!TypeOK, EventsAreWhole, EntryOf, Meter!Identity,
     OneTransaction, CallersFind, RequestFinds, RebuildFinds, RollupIsCounted, Meter!Counted
<1>2. ASSUME NEW c \in Meter!Callers, Meter!Commit(c) PROVE MeterInv'
  <2>1. step[c] \in {"inserted", "replayed"} /\ (c \in UsageRequests \/ c \in Rebuilds)
    BY <1>2 DEF Meter!Commit, Meter!Callers
  <2>q. QED BY <1>2, <2>1, MeterCommitsARequest, MeterCommitsARebuild, MeterCommitsAReplay
<1>q. QED BY <1>1, <1>2, MeterRestKeeps, MeterLocks, MeterInserts, MeterRebuilds DEF Meter!Next

\* A request has at most one event, its own.
LEMMA MeterImplies == MeterInv => Meter!TypeOK /\ Meter!RollupAgrees
<1> SUFFICES ASSUME MeterInv PROVE Meter!RollupAgrees
  BY DEF MeterInv, MeterTyped
<1>1. ASSUME NEW r \in UsageRequests
      PROVE  LET own == {e \in entries : e.id.request = r}
             IN  /\ Cardinality(own) <= 1
                 /\ r \in outboxed <=> own # {}
                 /\ step[r] \in {"recorded", "reported"} => own # {}
  <2> DEFINE own == {e \in entries : e.id.request = r}
  <2>1. \A e \in own : e = EntryOf(r)
    BY DEF MeterInv, EventsAreWhole
  <2>2. EntryOf(r) \in entries => EntryOf(r) \in own
    BY DEF EntryOf, Meter!Identity
  <2>3. CASE EntryOf(r) \in entries
    <3>1. own = {EntryOf(r)}
      BY <2>1, <2>2, <2>3
    <3>2. Cardinality(own) = 1
      BY <3>1, FS_Singleton
    <3>q. QED BY <3>1, <3>2, <2>3 DEF MeterInv, CallersFind, RequestFinds
  <2>4. CASE EntryOf(r) \notin entries
    <3>1. own = {}
      BY <2>1, <2>4
    <3>2. Cardinality(own) = 0
      BY <3>1, FS_EmptySet
    <3>q. QED BY <3>1, <3>2, <2>4 DEF MeterInv, CallersFind, RequestFinds
  <2>q. QED BY <2>3, <2>4
<1>2. \A b \in Rebuilds : step[b] = "recorded" => rebuilt[OperationOf[b]] = RangeOf[b]
  BY DEF MeterInv, CallersFind, RebuildFinds
<1>q. QED BY <1>1, <1>2, MeterCardinality DEF Meter!RollupAgrees, MeterInv, RollupIsCounted

-----------------------------------------------------------------------------
(* The control servers.  Whatever start was overtaken by a shutdown finds  *)
(* out before it makes the server ready, and no request enters a server    *)
(* that has closed.                                                        *)

ShutdownIsSeen ==
    Server!Closing => ~listening /\ ~up /\ ~ticking /\ (life # "down" => cancelled)

NobodyComesIn ==
    /\ closer = "closed"  => \A r \in HttpRequests : ~Server!Handled(r)
    /\ closer = "expired" => \A r \in HttpRequests : Server!Handled(r) => severed[r]

\* Where a request is says what has been established about it.
RequestIsJudged(r) ==
    /\ r \in known => Server!Authenticated(r)
    /\ place[r] \in {"operating", "answering"} => r \in known /\ Server!Authorized(r)
    /\ place[r] = "answering" => r \in applied
    /\ r \in applied => Server!Authorized(r) /\ Server!Authenticated(r)
    /\ reply[r] = 200 => r \in applied
    /\ reply[r] = 403 => r \in denied
    /\ metered[r] # None => r \in known
    /\ metered[r] = TenantOf[r] => r \in applied

Accounts == {None, "platform"} \cup {TenantOf[r] : r \in HttpRequests}

ServerTyped ==
    /\ Server!TypeOK
    /\ known \subseteq HttpRequests /\ applied \subseteq HttpRequests /\ denied \subseteq HttpRequests
    /\ severed \in [HttpRequests -> BOOLEAN]
    /\ metered \in [HttpRequests -> Accounts]

ServerInv ==
    /\ ServerTyped /\ ShutdownIsSeen /\ NobodyComesIn
    /\ \A r \in HttpRequests : RequestIsJudged(r)

LEMMA ServerStarts == Server!Init => ServerInv
<1> SUFFICES ASSUME Server!Init PROVE ServerInv
  OBVIOUS
<1> USE DEF Server!Init
<1>1. ServerTyped
  BY DEF ServerTyped, Server!TypeOK, Accounts
<1>2. ShutdownIsSeen /\ NobodyComesIn
  BY DEF ShutdownIsSeen, NobodyComesIn, Server!Closing
<1>3. \A r \in HttpRequests : RequestIsJudged(r)
  BY AccountsAssumption DEF RequestIsJudged
<1>q. QED BY <1>1, <1>2, <1>3 DEF ServerInv

\* A step of the server itself, or of its close.
LEMMA ServerTurns ==
    ASSUME ServerInv,
           \/ Server!Start \/ Server!Listen \/ Server!StartScheduler \/ Server!BecomeReady
           \/ Server!StartFails \/ Server!Close \/ Server!Drained \/ Server!Expire
           \/ Server!CloseRuntime
    PROVE  ServerInv'
<1> USE DEF ServerInv, Server!life_vars, Server!close_vars, Server!request_vars
<1>1. /\ UNCHANGED <<who, place, known, reply, applied, denied, metered>>
      /\ severed' = severed \/ (Server!Expire /\ severed' = [r \in HttpRequests |-> severed[r] \/ Server!Handled(r)])
  BY DEF Server!Start, Server!Listen, Server!StartScheduler, Server!BecomeReady, Server!StartFails,
     Server!Close, Server!Drained, Server!Expire, Server!CloseRuntime
<1>2. ServerTyped'
  <2>1. severed' \in [HttpRequests -> BOOLEAN]
    BY <1>1 DEF ServerTyped, Server!Handled
  <2>2. /\ life' \in {"down", "starting", "listening", "ticking", "up", "failing"}
        /\ closer' \in {"none", "draining", "closed", "expired"}
        /\ stores' \in {"open", "recorderClosed", "closed"}
    BY DEF ServerTyped, Server!TypeOK, Server!Start, Server!Listen, Server!StartScheduler, Server!BecomeReady,
       Server!StartFails, Server!Close, Server!Drained, Server!Expire, Server!CloseRuntime
  <2>3. cancelled' \in BOOLEAN /\ listening' \in BOOLEAN /\ up' \in BOOLEAN /\ ticking' \in BOOLEAN
    BY DEF ServerTyped, Server!TypeOK, Server!Start, Server!Listen, Server!StartScheduler, Server!BecomeReady,
       Server!StartFails, Server!Close, Server!Drained, Server!Expire, Server!CloseRuntime
  <2>4. Server!TypeOK'
    BY <1>1, <2>2, <2>3 DEF ServerTyped, Server!TypeOK
  <2>5. metered' \in [HttpRequests -> Accounts]
    BY <1>1 DEF ServerTyped
  <2>q. QED BY <1>1, <2>1, <2>4, <2>5 DEF ServerTyped
<1>3. ShutdownIsSeen'
  BY DEF ShutdownIsSeen, Server!Closing, ServerTyped, Server!TypeOK, Server!Start, Server!Listen,
     Server!StartScheduler, Server!BecomeReady, Server!StartFails, Server!Close, Server!Drained,
     Server!Expire, Server!CloseRuntime
<1>4. NobodyComesIn'
  <2>1. \A r \in HttpRequests : Server!Handled(r)' = Server!Handled(r)
    BY <1>1 DEF Server!Handled
  <2>2. closer' = closer \/ closer' \in {"none", "draining"}
        \/ (closer' = "closed" /\ \A r \in HttpRequests : ~Server!Handled(r))
        \/ (closer' = "expired" /\ Server!Expire)
    <3>1. CASE Server!Drained
      BY <3>1 DEF Server!Drained
    <3>2. CASE Server!Start \/ Server!Close
      BY <3>2 DEF Server!Start, Server!Close
    <3>3. CASE Server!Expire
      BY <3>3 DEF Server!Expire
    <3>4. CASE \/ Server!Listen \/ Server!StartScheduler \/ Server!BecomeReady
               \/ Server!StartFails \/ Server!CloseRuntime
      BY <3>4 DEF Server!Listen, Server!StartScheduler, Server!BecomeReady, Server!StartFails, Server!CloseRuntime
    <3>q. QED BY <3>1, <3>2, <3>3, <3>4
  <2>3. Server!Expire => closer # "expired" /\ severed' = [r \in HttpRequests |-> severed[r] \/ Server!Handled(r)]
    BY DEF Server!Expire
  <2>4. ~Server!Expire => severed' = severed
    BY <1>1
  <2>q. QED BY <2>1, <2>2, <2>3, <2>4 DEF NobodyComesIn
<1>5. ASSUME NEW r \in HttpRequests PROVE RequestIsJudged(r)'
  BY <1>1 DEF RequestIsJudged, Server!Authenticated, Server!Authorized
<1>q. QED BY <1>2, <1>3, <1>4, <1>5

\* A step of the request r: the others, and the server, stay as they are.
RequestStep(r) ==
    \/ Server!Arrive(r) \/ Server!Admit(r) \/ Server!Authenticate(r) \/ Server!Operate(r)
    \/ Server!Deny(r) \/ Server!Answer(r) \/ Server!Account(r) \/ Server!CutOff(r)

ServerPlaces == {"out", "arrived", "authenticating", "operating", "denying",
                 "answering", "finishing", "gone"}

LEMMA RequestsAreApart ==
    ASSUME ServerInv, NEW r \in HttpRequests, RequestStep(r)
    PROVE  /\ UNCHANGED <<life, starts, cancelled, listening, up, ticking, closer, stores, who>>
           /\ \E spot \in ServerPlaces : place' = [place EXCEPT ![r] = spot]
           /\ reply' = [reply EXCEPT ![r] = reply'[r]] /\ reply'[r] \in {0, 200, 403, 503}
           /\ known' \in {known, known \cup {r}} /\ applied' \in {applied, applied \cup {r}}
           /\ denied' \in {denied, denied \cup {r}}
           /\ \E flag \in BOOLEAN : severed' = [severed EXCEPT ![r] = flag] /\ (severed[r] => flag)
           /\ \E account \in Accounts : metered' = [metered EXCEPT ![r] = account]
           /\ (place[r] = "out" /\ place'[r] # "out") => listening \/ closer = "draining"
           /\ place[r] = "gone" => place'[r] = "gone"
<1> USE DEF Server!life_vars, Server!close_vars, Server!request_vars, ServerInv, ServerTyped, Server!TypeOK, ServerPlaces
<1>1. /\ place = [place EXCEPT ![r] = place[r]] /\ place[r] \in ServerPlaces
      /\ reply = [reply EXCEPT ![r] = reply[r]] /\ reply[r] \in {0, 200, 403, 503}
  OBVIOUS
<1>2. severed = [severed EXCEPT ![r] = severed[r]] /\ severed[r] \in BOOLEAN
  OBVIOUS
<1>3. metered = [metered EXCEPT ![r] = metered[r]] /\ metered[r] \in Accounts
  OBVIOUS
<1>a. UNCHANGED <<life, starts, cancelled, listening, up, ticking, closer, stores, who>>
  BY DEF RequestStep, Server!Arrive, Server!Admit, Server!Authenticate, Server!Operate,
     Server!Deny, Server!Answer, Server!Account, Server!CutOff
<1>b. \E spot \in ServerPlaces : place' = [place EXCEPT ![r] = spot]
  <2>1. place' = place \/ \E spot \in ServerPlaces : Server!Goes(r, spot)
    <3>1. CASE Server!Authenticate(r)
      BY <3>1 DEF Server!Authenticate
    <3>2. CASE Server!Operate(r)
      BY <3>2 DEF Server!Operate
    <3>3. CASE Server!Deny(r) \/ Server!Answer(r)
      BY <3>3 DEF Server!Deny, Server!Answer
    <3>4. CASE Server!Arrive(r) \/ Server!Admit(r)
      BY <3>4 DEF Server!Arrive, Server!Admit
    <3>5. CASE Server!Account(r) \/ Server!CutOff(r)
      BY <3>5 DEF Server!Account, Server!CutOff
    <3>q. QED BY <3>1, <3>2, <3>3, <3>4, <3>5 DEF RequestStep
  <2>2. CASE place' = place
    <3>1. place' = [place EXCEPT ![r] = place[r]]
      BY <1>1, <2>2
    <3>2. place[r] \in ServerPlaces
      BY <1>1
    <3>q. WITNESS place[r] \in ServerPlaces
    <3> QED BY <3>1
  <2>q. QED BY <2>1, <2>2 DEF Server!Goes
<1>c. reply' = [reply EXCEPT ![r] = reply'[r]] /\ reply'[r] \in {0, 200, 403, 503}
  <2>1. reply' = reply \/ Server!Reply(r, 200) \/ Server!Reply(r, 403) \/ Server!Reply(r, 503)
    <3>1. CASE Server!Authenticate(r)
      BY <3>1 DEF Server!Authenticate
    <3>2. CASE Server!Operate(r)
      BY <3>2 DEF Server!Operate
    <3>3. CASE Server!Deny(r) \/ Server!Answer(r)
      BY <3>3 DEF Server!Deny, Server!Answer
    <3>4. CASE Server!Arrive(r) \/ Server!Admit(r)
      BY <3>4 DEF Server!Arrive, Server!Admit
    <3>5. CASE Server!Account(r) \/ Server!CutOff(r)
      BY <3>5 DEF Server!Account, Server!CutOff
    <3>q. QED BY <3>1, <3>2, <3>3, <3>4, <3>5 DEF RequestStep
  <2>2. CASE reply' = reply
    BY <1>1, <2>2
  <2>3. CASE Server!Reply(r, 200) \/ Server!Reply(r, 403) \/ Server!Reply(r, 503)
    BY <2>3 DEF Server!Reply
  <2>q. QED BY <2>1, <2>2, <2>3
<1>d. /\ known' \in {known, known \cup {r}} /\ applied' \in {applied, applied \cup {r}}
      /\ denied' \in {denied, denied \cup {r}}
  BY DEF RequestStep, Server!Arrive, Server!Admit, Server!Authenticate, Server!Operate,
     Server!Deny, Server!Answer, Server!Account, Server!CutOff
<1>e. \E flag \in BOOLEAN : severed' = [severed EXCEPT ![r] = flag] /\ (severed[r] => flag)
  <2>1. severed' = severed \/ severed' = [severed EXCEPT ![r] = TRUE]
    BY DEF RequestStep, Server!Arrive, Server!Admit, Server!Authenticate, Server!Operate,
       Server!Deny, Server!Answer, Server!Account, Server!CutOff
  <2>q. QED BY <1>2, <2>1
<1>f. \E account \in Accounts : metered' = [metered EXCEPT ![r] = account]
  <2>1. metered' = metered \/ metered' = [metered EXCEPT ![r] = Server!AccountingTenant(r)]
    BY DEF RequestStep, Server!Arrive, Server!Admit, Server!Authenticate, Server!Operate,
       Server!Deny, Server!Answer, Server!Account, Server!CutOff
  <2>2. Server!AccountingTenant(r) \in Accounts
    BY DEF Server!AccountingTenant, Accounts
  <2>q. QED BY <1>3, <2>1, <2>2
<1>g. (place[r] = "out" /\ place'[r] # "out") => listening \/ closer = "draining"
  BY DEF RequestStep, Server!Arrive, Server!Admit, Server!Authenticate, Server!Operate,
     Server!Deny, Server!Answer, Server!Account, Server!CutOff
<1>h. place[r] = "gone" => place'[r] = "gone"
  BY DEF RequestStep, Server!Arrive, Server!Admit, Server!Authenticate, Server!Operate,
     Server!Deny, Server!Answer, Server!Account, Server!CutOff
<1>q. QED BY <1>a, <1>b, <1>c, <1>d, <1>e, <1>f, <1>g, <1>h

LEMMA RequestsKeepTheRest ==
    ASSUME ServerInv, NEW r \in HttpRequests, RequestStep(r)
    PROVE  /\ ServerTyped' /\ ShutdownIsSeen' /\ NobodyComesIn'
           /\ \A q \in HttpRequests : q # r => RequestIsJudged(q)'
<1> USE RequestsAreApart
<1>1. ServerTyped'
  <2>1. place' \in [HttpRequests -> ServerPlaces] /\ reply' \in [HttpRequests -> {0, 200, 403, 503}]
    BY DEF ServerInv, ServerTyped, Server!TypeOK, ServerPlaces
  <2>2. severed' \in [HttpRequests -> BOOLEAN]
    BY DEF ServerInv, ServerTyped
  <2>3. metered' \in [HttpRequests -> Accounts]
    BY DEF ServerInv, ServerTyped
  <2>4. known' \subseteq HttpRequests /\ applied' \subseteq HttpRequests /\ denied' \subseteq HttpRequests
    BY DEF ServerInv, ServerTyped
  <2>5. Server!TypeOK'
    BY <2>1, <2>4 DEF ServerInv, ServerTyped, Server!TypeOK, ServerPlaces
  <2>q. QED BY <2>2, <2>3, <2>4, <2>5 DEF ServerTyped
<1>2. ShutdownIsSeen'
  BY DEF ServerInv, ShutdownIsSeen, Server!Closing
<1>3. NobodyComesIn'
  <2>1. PICK flag \in BOOLEAN : severed' = [severed EXCEPT ![r] = flag] /\ (severed[r] => flag)
    OBVIOUS
  <2>2. \A q \in HttpRequests : severed[q] => severed'[q]
    BY <2>1 DEF ServerInv, ServerTyped
  <2>3. ASSUME NEW q \in HttpRequests, closer \in {"closed", "expired"}
        PROVE  Server!Handled(q)' => Server!Handled(q)
    <3>1. CASE q # r
      BY <3>1 DEF ServerInv, ServerTyped, Server!TypeOK, Server!Handled
    <3>2. CASE q = r
      BY <2>3, <3>2 DEF ServerInv, ShutdownIsSeen, Server!Closing, Server!Handled
    <3>q. QED BY <3>1, <3>2
  <2>4. closer' = closer
    OBVIOUS
  <2>q. QED BY <2>2, <2>3, <2>4 DEF ServerInv, NobodyComesIn
<1>4. ASSUME NEW q \in HttpRequests, q # r PROVE RequestIsJudged(q)'
  <2>1. /\ place'[q] = place[q] /\ reply'[q] = reply[q] /\ metered'[q] = metered[q]
        /\ (q \in known' <=> q \in known) /\ (q \in applied' <=> q \in applied)
        /\ (q \in denied' <=> q \in denied)
    BY <1>4 DEF ServerInv, ServerTyped, Server!TypeOK
  <2>2. Server!Authenticated(q)' = Server!Authenticated(q) /\ Server!Authorized(q)' = Server!Authorized(q)
    BY DEF Server!Authenticated, Server!Authorized
  <2>q. QED BY <2>1, <2>2 DEF ServerInv, RequestIsJudged
<1>q. QED BY <1>1, <1>2, <1>3, <1>4

\* What has been established about the request that moves.
LEMMA RequestsAreJudged ==
    ASSUME ServerInv, NEW r \in HttpRequests, RequestStep(r)
    PROVE  RequestIsJudged(r)'
<1> USE DEF ServerInv, ServerTyped, Server!TypeOK, RequestIsJudged, Server!Goes, Server!Reply
<1>0. Server!Authenticated(r)' = Server!Authenticated(r) /\ Server!Authorized(r)' = Server!Authorized(r)
  BY RequestsAreApart DEF Server!Authenticated, Server!Authorized
<1>1. CASE Server!Arrive(r) \/ Server!CutOff(r)
  BY <1>0, <1>1 DEF Server!Arrive, Server!CutOff
<1>2. CASE Server!Admit(r)
  BY <1>0, <1>2 DEF Server!Admit
<1>3. CASE Server!Authenticate(r)
  BY <1>0, <1>3 DEF Server!Authenticate
<1>4. CASE Server!Operate(r)
  <2>1. Server!Authorized(r) /\ Server!Authenticated(r) /\ place[r] = "operating"
    BY <1>4 DEF Server!Operate
  <2>q. QED BY <1>0, <1>4, <2>1 DEF Server!Operate
<1>5. CASE Server!Deny(r)
  BY <1>0, <1>5 DEF Server!Deny
<1>6. CASE Server!Answer(r)
  BY <1>0, <1>6 DEF Server!Answer
<1>7. CASE Server!Account(r)
  <2>1. metered'[r] = metered[r] \/ metered'[r] = Server!AccountingTenant(r)
    BY <1>7 DEF Server!Account
  <2>2. /\ Server!AccountingTenant(r) # None => r \in known
        /\ Server!AccountingTenant(r) = TenantOf[r] => reply[r] = 200
    BY AccountsAssumption DEF Server!AccountingTenant
  <2>3. place'[r] = "gone" /\ UNCHANGED <<known, reply, applied, denied>>
    BY <1>7 DEF Server!Account
  <2>q. QED BY <1>0, <2>1, <2>2, <2>3
<1>q. QED BY <1>1, <1>2, <1>3, <1>4, <1>5, <1>6, <1>7 DEF RequestStep

LEMMA ServerStays == ServerInv /\ [Server!Next]_server_vars => ServerInv'
<1> SUFFICES ASSUME ServerInv, [Server!Next]_server_vars PROVE ServerInv'
  OBVIOUS
<1>1. CASE UNCHANGED server_vars
  BY <1>1 DEF server_vars, ServerInv, ServerTyped, Server!TypeOK, ShutdownIsSeen, Server!Closing,
     NobodyComesIn, Server!Handled, RequestIsJudged, Server!Authenticated, Server!Authorized
<1>2. ASSUME NEW r \in HttpRequests, RequestStep(r) PROVE ServerInv'
  BY <1>2, RequestsKeepTheRest, RequestsAreJudged DEF ServerInv
<1>q. QED BY <1>1, <1>2, ServerTurns DEF Server!Next, RequestStep

LEMMA ServerImplies == ServerInv => Server!TypeOK /\ Server!ClosedIsQuiet /\ Server!RefusalsAreAudited
<1> SUFFICES ASSUME ServerInv PROVE Server!ClosedIsQuiet /\ Server!RefusalsAreAudited
  BY DEF ServerInv, ServerTyped
<1>1. Server!ClosedIsQuiet
  BY DEF ServerInv, ShutdownIsSeen, NobodyComesIn, Server!Closing, Server!ClosedIsQuiet
<1>2. Server!RefusalsAreAudited
  BY DEF ServerInv, RequestIsJudged, Server!RefusalsAreAudited
<1>q. QED BY <1>1, <1>2

-----------------------------------------------------------------------------
(* The tenant store.  A request that is answered was judged in the step    *)
(* that answers it, and audit chains only grow.                            *)

Answers == {None, "served", "refused", "denied", "auditFailed", "unavailable"}

TenantCallRecords ==
    [at : {"idle", "checked", "allowed", "open", "denying", "done"},
     session : Tenants \cup {None}, mode : Store!Modes \cup {None}, expires : Nat,
     of : Tenants \cup {None}, op : Store!Operations \cup {None}, expected : Nat,
     content : Consumers \cup {None}, clean : BOOLEAN, answer : Answers, when : Nat]

Rows    == [rev : 0..MaxRev, key : Consumers \cup {None}, last : Consumers \cup {None}]
Entries == [by : TenantCalls, decision : {"PERMIT", "DENY"}, of : Tenants]

StoreTyped ==
    /\ now \in 0..MaxTime
    /\ binding \subseteq Tenants \X Store!Modes
    /\ rows \in [Tenants -> Rows]
    /\ chain \in [Tenants -> Seq(Entries)]
    /\ call \in [TenantCalls -> TenantCallRecords]

\* A request that has arrived names a tenant, its session another or the same.
HasArrived(c) == c.session \in Tenants /\ c.of \in Tenants /\ c.content \in Consumers

Noted(t, entry) == \E i \in DOMAIN chain[t] : chain[t][i] = entry

CallIsAudited(id) ==
    /\ call[id].at # "idle" => HasArrived(call[id])
    /\ call[id].at # "done" => call[id].answer = None
    /\ call[id].answer = "served" =>
          /\ call[id].of # call[id].session =>
                call[id].mode = "break-glass" /\ call[id].when < call[id].expires
          /\ call[id].mode # "tenant" => Noted(call[id].session, Store!Entry(id, call[id], "PERMIT"))
    /\ call[id].answer = "denied" => Noted(call[id].session, Store!Entry(id, call[id], "DENY"))

StoreInv == StoreTyped /\ \A id \in TenantCalls : CallIsAudited(id)

-----------------------------------------------------------------------------

LEMMA StoreStarts == Store!Init => StoreInv
<1> SUFFICES ASSUME Store!Init PROVE StoreInv
  OBVIOUS
<1> USE DEF Store!Init
<1>1. Store!Blank \in TenantCallRecords
  BY DEF Store!Blank, TenantCallRecords, Answers
<1>2. [rev |-> 0, key |-> None, last |-> None] \in Rows
  BY TenantAssumption DEF Rows
<1>3. StoreTyped
  BY <1>1, <1>2, TenantAssumption DEF StoreTyped
<1>4. \A id \in TenantCalls : CallIsAudited(id)
  BY TenantAssumption DEF CallIsAudited, Store!Blank
<1>q. QED BY <1>3, <1>4 DEF StoreInv

\* An entry that is in a chain stays in it, and an appended one is in it.
LEMMA ChainsGrow ==
    ASSUME chain \in [Tenants -> Seq(Entries)], NEW s \in Tenants, NEW e \in Entries,
           chain' = [chain EXCEPT ![s] = Append(@, e)]
    PROVE  /\ chain' \in [Tenants -> Seq(Entries)]
           /\ \A t \in Tenants : \A entry : Noted(t, entry) => Noted(t, entry)'
           /\ Noted(s, e)'
<1>1. chain[s] \in Seq(Entries) /\ Append(chain[s], e) \in Seq(Entries)
  OBVIOUS
<1>2. chain' \in [Tenants -> Seq(Entries)]
  BY <1>1
<1>3. /\ Len(chain'[s]) = Len(chain[s]) + 1 /\ chain'[s][Len(chain[s]) + 1] = e
      /\ \A i \in 1..Len(chain[s]) : chain'[s][i] = chain[s][i]
  BY <1>1
<1>4. ASSUME NEW t \in Tenants, NEW entry, Noted(t, entry) PROVE Noted(t, entry)'
  <2>1. CASE t = s
    <3>1. PICK i \in DOMAIN chain[t] : chain[t][i] = entry
      BY <1>4 DEF Noted
    <3>2. i \in 1..Len(chain[s]) /\ i \in 1..Len(chain'[s]) /\ chain'[s][i] = entry
      BY <1>1, <1>3, <2>1, <3>1
    <3>3. i \in DOMAIN chain'[s]
      BY <1>2, <3>2
    <3>q. QED BY <2>1, <3>2, <3>3 DEF Noted
  <2>2. CASE t # s
    <3>1. chain'[t] = chain[t]
      BY <2>2
    <3>q. QED BY <1>4, <3>1 DEF Noted
  <2>q. QED BY <2>1, <2>2
<1>5. Noted(s, e)'
  <2>1. Len(chain[s]) + 1 \in DOMAIN chain'[s]
    BY <1>1, <1>2, <1>3
  <2>q. QED BY <1>3, <2>1 DEF Noted
<1>q. QED BY <1>2, <1>4, <1>5

\* The other calls are audited as before.
LEMMA OthersStayAudited ==
    ASSUME StoreInv, NEW id \in TenantCalls, NEW o \in TenantCalls, call'[o] = call[o],
           \A t \in Tenants : \A entry : Noted(t, entry) => Noted(t, entry)'
    PROVE  CallIsAudited(o)'
<1>1. /\ CallIsAudited(o) /\ HasArrived(call[o])' = HasArrived(call[o])
      /\ Store!Entry(o, call[o], "PERMIT")' = Store!Entry(o, call[o], "PERMIT")
      /\ Store!Entry(o, call[o], "DENY")' = Store!Entry(o, call[o], "DENY")
  BY DEF StoreInv, HasArrived, Store!Entry
<1>2. call[o].answer \in {"served", "denied"} => call[o].session \in Tenants
  BY <1>1, TenantAssumption DEF CallIsAudited, HasArrived
<1>q. QED BY <1>1, <1>2 DEF CallIsAudited

LEMMA RecordsChange ==
    ASSUME NEW c \in TenantCallRecords,
           NEW where \in {"idle", "checked", "allowed", "open", "denying", "done"},
           NEW said \in Answers, NEW time \in Nat
    PROVE  /\ [c EXCEPT !.at = where] \in TenantCallRecords
           /\ [c EXCEPT !.at = where, !.answer = said, !.when = time] \in TenantCallRecords
  BY DEF TenantCallRecords

\* A step of a call that is answered nothing new, and is where it was or further.
LEMMA CallMovesOn ==
    ASSUME StoreInv, NEW id \in TenantCalls,
           NEW where \in {"allowed", "open", "denying"},
           call[id].at \in {"checked", "allowed", "open"},
           call' = [call EXCEPT ![id] = [@ EXCEPT !.at = where]],
           UNCHANGED <<now, binding, rows, chain>>
    PROVE  StoreInv'
<1>1. call[id] \in TenantCallRecords /\ CallIsAudited(id)
  BY DEF StoreInv, StoreTyped
<1>2. PICK d : d = [call[id] EXCEPT !.at = where]
  OBVIOUS
<1>a. d \in TenantCallRecords
  <2>1. None \in Answers /\ 0 \in Nat
    BY DEF Answers
  <2>q. QED BY <1>1, <1>2, <2>1, RecordsChange
<1>3. /\ d \in TenantCallRecords /\ d.at = where /\ d.session = call[id].session /\ d.of = call[id].of
      /\ d.content = call[id].content /\ d.answer = call[id].answer
  BY <1>1, <1>2, <1>a DEF TenantCallRecords
<1>4. call' = [call EXCEPT ![id] = d] /\ call'[id] = d
  BY <1>2 DEF StoreInv, StoreTyped
<1>5. StoreTyped'
  BY <1>3, <1>4 DEF StoreInv, StoreTyped
<1>6. CallIsAudited(id)'
  BY <1>1, <1>3, <1>4, TenantAssumption DEF CallIsAudited, HasArrived
<1>7. ASSUME NEW o \in TenantCalls, o # id PROVE CallIsAudited(o)'
  <2>1. call'[o] = call[o] /\ \A t \in Tenants : \A entry : Noted(t, entry) => Noted(t, entry)'
    BY <1>4, <1>7 DEF StoreInv, StoreTyped, Noted
  <2>q. QED BY <2>1, OthersStayAudited
<1>q. QED BY <1>5, <1>6, <1>7 DEF StoreInv

\* A call is answered: with what it reports the chain agrees.
LEMMA CallIsAnswered ==
    ASSUME StoreInv, NEW id \in TenantCalls, NEW said \in Answers, Store!Finish(id, said),
           call[id].at \in {"open", "denying"},
           UNCHANGED <<now, binding>>, rows' \in [Tenants -> Rows],
           \/ chain' = chain
           \/ \E decision \in {"PERMIT", "DENY"} :
                chain' = [chain EXCEPT ![call[id].session] = Append(@, Store!Entry(id, call[id], decision))],
           said = "served" => Store!Visible(call[id], call[id].of),
           said = "served" /\ call[id].mode # "tenant" =>
                chain' = [chain EXCEPT ![call[id].session] = Append(@, Store!Entry(id, call[id], "PERMIT"))],
           said = "denied" =>
                chain' = [chain EXCEPT ![call[id].session] = Append(@, Store!Entry(id, call[id], "DENY"))]
    PROVE  StoreInv'
<1>1. call[id] \in TenantCallRecords /\ CallIsAudited(id) /\ now \in Nat
  BY TenantAssumption DEF StoreInv, StoreTyped
<1>2. HasArrived(call[id]) /\ call[id].answer = None
  BY <1>1 DEF CallIsAudited
<1>3. PICK d : d = [call[id] EXCEPT !.at = "done", !.answer = said, !.when = now]
  OBVIOUS
<1>a. d \in TenantCallRecords
  BY <1>1, <1>3, RecordsChange
<1>4. /\ d \in TenantCallRecords /\ d.at = "done" /\ d.session = call[id].session /\ d.of = call[id].of
      /\ d.content = call[id].content /\ d.answer = said /\ d.when = now
      /\ d.mode = call[id].mode /\ d.expires = call[id].expires
  BY <1>1, <1>3, <1>a DEF TenantCallRecords
<1>5. call' = [call EXCEPT ![id] = d] /\ call'[id] = d
  BY <1>3 DEF Store!Finish, StoreInv, StoreTyped
<1>6. \A decision \in {"PERMIT", "DENY"} :
         /\ Store!Entry(id, call[id], decision) \in Entries
         /\ Store!Entry(id, d, decision) = Store!Entry(id, call[id], decision)
  BY <1>2, <1>4 DEF Store!Entry, Entries, HasArrived
<1>7. /\ chain' \in [Tenants -> Seq(Entries)]
      /\ \A t \in Tenants : \A entry : Noted(t, entry) => Noted(t, entry)'
      /\ said = "served" /\ d.mode # "tenant" => Noted(d.session, Store!Entry(id, d, "PERMIT"))'
      /\ said = "denied" => Noted(d.session, Store!Entry(id, d, "DENY"))'
  <2>0. PICK s \in Tenants : s = call[id].session
    BY <1>2 DEF HasArrived
  <2>1. chain \in [Tenants -> Seq(Entries)]
    BY DEF StoreInv, StoreTyped
  <2>2. ASSUME NEW decision \in {"PERMIT", "DENY"},
               chain' = [chain EXCEPT ![call[id].session] = Append(@, Store!Entry(id, call[id], decision))]
        PROVE  /\ chain' \in [Tenants -> Seq(Entries)]
               /\ \A t \in Tenants : \A entry : Noted(t, entry) => Noted(t, entry)'
               /\ Noted(d.session, Store!Entry(id, d, decision))'
    <3>1. PICK e : e = Store!Entry(id, call[id], decision)
      OBVIOUS
    <3>2. e \in Entries /\ chain' = [chain EXCEPT ![s] = Append(@, e)]
      BY <1>6, <2>0, <2>2, <3>1
    <3>3. Store!Entry(id, d, decision) = e
      BY <1>6, <3>1
    <3>4. Noted(s, e)' /\ chain' \in [Tenants -> Seq(Entries)]
          /\ \A t \in Tenants : \A entry : Noted(t, entry) => Noted(t, entry)'
      BY <2>1, <3>2, ChainsGrow
    <3>5. Noted(d.session, Store!Entry(id, d, decision))'
      BY <1>4, <2>0, <3>3, <3>4 DEF Store!Entry
    <3>q. QED BY <3>4, <3>5
  <2>3. CASE chain' = chain
    BY <2>1, <2>2, <2>3, <1>4 DEF Noted
  <2>q. QED BY <1>4, <2>2, <2>3
<1>8. StoreTyped'
  BY <1>4, <1>5, <1>7 DEF StoreInv, StoreTyped
<1>9. CallIsAudited(id)'
  <2>1. said = "served" /\ d.of # d.session => d.mode = "break-glass" /\ d.when < d.expires
    BY <1>1, <1>4 DEF Store!Visible, Store!GlassActive, TenantCallRecords
  <2>2. HasArrived(d) /\ said \in Answers
    BY <1>2, <1>4 DEF HasArrived
  <2>3. call[id]' = d
    BY <1>5
  <2>4. /\ said = "served" /\ d.mode # "tenant" => Noted(call[id].session, Store!Entry(id, call[id], "PERMIT"))'
        /\ said = "denied" => Noted(call[id].session, Store!Entry(id, call[id], "DENY"))'
    BY <1>7, <2>3 DEF Noted, Store!Entry
  <2>q. QED BY <1>4, <2>1, <2>2, <2>3, <2>4 DEF CallIsAudited, HasArrived
<1>10. ASSUME NEW o \in TenantCalls, o # id PROVE CallIsAudited(o)'
  <2>1. call'[o] = call[o]
    BY <1>5, <1>10 DEF StoreInv, StoreTyped
  <2>q. QED BY <1>7, <2>1, OthersStayAudited
<1>q. QED BY <1>8, <1>9, <1>10 DEF StoreInv

LEMMA RequestsArrive ==
    ASSUME StoreInv, NEW id \in TenantCalls, NEW request \in TenantRequests, Store!Arrive(id, request)
    PROVE  StoreInv'
<1>0. /\ request.at = "idle" /\ request.session \in Tenants /\ request.mode \in Store!Modes
      /\ request.expires \in Nat /\ request.of \in Tenants /\ request.op \in Store!Operations
      /\ request.expected \in Nat /\ request.content \in Consumers /\ request.answer = None
      /\ request.when \in Nat
  BY TenantAssumption DEF Store!Modes, Store!Operations
<1>a. request.clean \in BOOLEAN
  BY TenantAssumption
<1>1. PICK d : d = [request EXCEPT !.at = "checked"]
  OBVIOUS
<1>b. request \in TenantCallRecords
  BY <1>0, <1>a, TenantAssumption DEF TenantCallRecords, Answers, Store!Modes, Store!Operations
<1>c. d \in TenantCallRecords
  <2>1. None \in Answers /\ 0 \in Nat
    BY DEF Answers
  <2>q. QED BY <1>b, <1>1, <2>1, RecordsChange
<1>2. /\ d \in TenantCallRecords /\ d.at = "checked" /\ d.session = request.session /\ d.of = request.of
      /\ d.content = request.content /\ d.answer = None
  BY <1>0, <1>b, <1>c, <1>1 DEF TenantCallRecords
<1>3. call' = [call EXCEPT ![id] = d] /\ call'[id] = d /\ UNCHANGED <<now, binding, rows, chain>>
  BY <1>1 DEF Store!Arrive, StoreInv, StoreTyped
<1>4. StoreTyped'
  BY <1>2, <1>3 DEF StoreInv, StoreTyped
<1>5. CallIsAudited(id)'
  BY <1>0, <1>2, <1>3, TenantAssumption DEF CallIsAudited, HasArrived
<1>6. ASSUME NEW o \in TenantCalls, o # id PROVE CallIsAudited(o)'
  <2>1. call'[o] = call[o] /\ \A t \in Tenants : \A entry : Noted(t, entry) => Noted(t, entry)'
    BY <1>3, <1>6 DEF StoreInv, StoreTyped, Noted
  <2>q. QED BY <2>1, OthersStayAudited
<1>q. QED BY <1>4, <1>5, <1>6 DEF StoreInv

\* A row that a transaction changes is a row.
LEMMA RowsStayRows ==
    ASSUME StoreInv, NEW id \in TenantCalls, call[id].at = "open", Store!Applies(call[id])
    PROVE  Store!RowsAfter(call[id]) \in [Tenants -> Rows]
<1> PICK c \in TenantCallRecords : c = call[id]
  BY DEF StoreInv, StoreTyped
<1>1. c.of \in Tenants /\ c.content \in Consumers
  BY DEF StoreInv, CallIsAudited, HasArrived
<1>2. rows \in [Tenants -> Rows] /\ rows[c.of] \in Rows
  BY <1>1 DEF StoreInv, StoreTyped
<1>3. c.op = "put" => rows[c.of].rev + 1 \in 0..MaxRev
  BY <1>2, TenantAssumption DEF Store!Applies, Rows
<1>4. c.op = "put" => [rows EXCEPT ![c.of].rev = @ + 1] \in [Tenants -> Rows]
  BY <1>1, <1>2, <1>3 DEF Rows
<1>5. /\ [rows EXCEPT ![c.of].key = c.content] \in [Tenants -> Rows]
      /\ [rows EXCEPT ![c.of].last = c.content] \in [Tenants -> Rows]
  BY <1>1, <1>2 DEF Rows
<1>q. QED BY <1>2, <1>4, <1>5 DEF Store!RowsAfter

LEMMA StoreStays == StoreInv /\ [Store!Next]_store_vars => StoreInv'
<1> SUFFICES ASSUME StoreInv, [Store!Next]_store_vars PROVE StoreInv'
  OBVIOUS
<1>0. rows \in [Tenants -> Rows]
  BY DEF StoreInv, StoreTyped
<1>1. CASE UNCHANGED <<now, binding, rows, chain, call>> \/ Store!Revoke \/ Store!Tick
  <2>1. UNCHANGED <<rows, chain, call>> /\ now' \in 0..MaxTime /\ binding' \subseteq Tenants \X Store!Modes
    BY <1>1, TenantAssumption DEF Store!Revoke, Store!Tick, StoreInv, StoreTyped
  <2>2. StoreTyped'
    BY <2>1 DEF StoreInv, StoreTyped
  <2>3. ASSUME NEW o \in TenantCalls PROVE CallIsAudited(o)'
    <3>1. call'[o] = call[o] /\ \A t \in Tenants : \A entry : Noted(t, entry) => Noted(t, entry)'
      BY <2>1 DEF Noted
    <3>q. QED BY <3>1, OthersStayAudited
  <2>q. QED BY <2>2, <2>3 DEF StoreInv
<1>2. ASSUME NEW id \in TenantCalls, Store!Check(id) \/ Store!Reauthorize(id) \/ Store!PolicyDenies(id)
      PROVE  StoreInv'
  BY <1>2, CallMovesOn DEF Store!Check, Store!Reauthorize, Store!PolicyDenies
<1>3. ASSUME NEW id \in TenantCalls, Store!Execute(id) PROVE StoreInv'
  <2>1. rows' \in [Tenants -> Rows] /\ call[id].at = "open"
    BY <1>3, RowsStayRows DEF Store!Execute
  <2>q. QED BY <1>3, <2>1, CallIsAnswered DEF Store!Execute, Store!Audited, Answers
<1>4. ASSUME NEW id \in TenantCalls, Store!Refuse(id) \/ Store!Fail(id) PROVE StoreInv'
  BY <1>0, <1>4, CallIsAnswered DEF Store!Refuse, Store!Fail, Answers
<1>5. ASSUME NEW id \in TenantCalls, Store!RecordDenial(id) PROVE StoreInv'
  BY <1>0, <1>5, CallIsAnswered DEF Store!RecordDenial, Answers
<1>q. QED BY <1>1, <1>2, <1>3, <1>4, <1>5, RequestsArrive DEF Store!Next, store_vars

LEMMA StoreImplies == StoreInv => Store!TypeOK /\ Store!AccessIsAudited
<1> SUFFICES ASSUME StoreInv PROVE Store!TypeOK /\ Store!AccessIsAudited
  OBVIOUS
<1>1. Store!TypeOK
  <2>1. \A t \in Tenants : rows[t] \in Rows
    BY DEF StoreInv, StoreTyped
  <2>2. \A id \in TenantCalls : call[id] \in TenantCallRecords
    BY DEF StoreInv, StoreTyped
  <2>3. \A t \in Tenants : rows[t].rev \in 0..MaxRev /\ rows[t].key \in Consumers \cup {None}
    BY <2>1 DEF Rows
  <2>4. \A id \in TenantCalls : call[id].at \in {"idle", "checked", "allowed", "open", "denying", "done"}
    BY <2>2 DEF TenantCallRecords
  <2>q. QED BY <2>3, <2>4 DEF Store!TypeOK, StoreInv, StoreTyped
<1>2. Store!AccessIsAudited
  BY DEF StoreInv, CallIsAudited, Noted, Store!AccessIsAudited, Store!InChain
<1>q. QED BY <1>1, <1>2

-----------------------------------------------------------------------------
(* ManagementClient: a circuit counts no failure twice, what is at the     *)
(* connector stays, and a publication moves on over objects it has met     *)
(* there.                                                                  *)

\* Failures of the streak are kept apart by the circuit that counted them
\* and by the count it came to.
CircuitInv ==
    /\ circuit \in Publishers \cup {Nothing}
    /\ held \in [Publishers -> Publishers]
    /\ counts \in [Publishers -> [failures : 0..Threshold, open : BOOLEAN]]
    /\ streak \in Nat
    /\ circuit = Nothing => streak = 0
    /\ \E S \in SUBSET (Publishers \X (1..(Threshold - 1))) :
         /\ Cardinality(S) = streak
         /\ \A x \in S : x[2] <= counts[x[1]].failures

\* The objects before the i-th are at the connector as p makes them.
MadeBefore(p, i) ==
    \A j \in 1..(i - 1) : remote[Resources[p][j]] = ContentOf[p][Resources[p][j]]

Contents == {Nothing, Foreign} \cup {ContentOf[p][o] : p \in Publishers, o \in Objects}

\* Content that is no administrator's was made by a publication that had made
\* everything before it.
Sourced(o) ==
    remote[o] \notin {Nothing, Foreign} =>
        \E p \in Publishers : \E i \in 1..Len(Resources[p]) :
            /\ Resources[p][i] = o /\ remote[o] = ContentOf[p][o]
            /\ MadeBefore(p, i)

\* So was what may still be created.
Grounded(c) ==
    /\ c[1] \in Publishers
    /\ \E i \in 1..Len(Resources[c[1]]) : Resources[c[1]][i] = c[2] /\ MadeBefore(c[1], i)

Placed(p) ==
    /\ index[p] \in 1..Len(Resources[p])
    /\ doing[p] \notin {"idle", "failed", "published"} => MadeBefore(p, index[p])
    /\ doing[p] = "published" => MadeBefore(p, Len(Resources[p]) + 1)
    /\ Client!Reads(p) /\ response[p] \notin {Nothing, "unanswered"} =>
         remote[Client!Target(p)] = response[p]
    /\ doing[p] = "creating" /\ response[p] = "created" =>
         remote[Client!Target(p)] = ContentOf[p][Client!Target(p)]

RemoteInv ==
    /\ remote \in [Objects -> Contents]
    /\ doing \in [Publishers -> {"idle", "get", "reading", "create", "creating", "getAgain",
                                 "readingAgain", "published", "failed"}]
    /\ DOMAIN index = Publishers /\ DOMAIN response = Publishers
    /\ \A o \in Objects : Sourced(o)
    /\ \A c \in overdue : Grounded(c)
    /\ \A p \in Publishers : Placed(p)

ClientInv == CircuitInv /\ RemoteInv

LEMMA CircuitStarts == Client!Init => CircuitInv
<1> SUFFICES ASSUME Client!Init PROVE CircuitInv
  OBVIOUS
<1>1. /\ circuit = Nothing /\ streak = 0
      /\ held = [p \in Publishers |-> p]
      /\ counts = [p \in Publishers |-> [failures |-> 0, open |-> FALSE]]
  BY DEF Client!Init
<1>2. counts \in [Publishers -> [failures : 0..Threshold, open : BOOLEAN]]
  BY <1>1, ClientAssumption
<1>3. Cardinality({}) = 0
  BY FS_EmptySet
<1>q. QED BY <1>1, <1>2, <1>3 DEF CircuitInv

\* An empty streak needs no failures.
LEMMA NoStreak ==
    ASSUME streak' = 0
    PROVE  \E S \in SUBSET (Publishers \X (1..(Threshold - 1))) :
             /\ Cardinality(S) = streak'
             /\ \A x \in S : x[2] <= counts'[x[1]].failures
<1>1. Cardinality({}) = 0
  BY FS_EmptySet
<1>q. QED BY <1>1

LEMMA TakenCircuit ==
    ASSUME CircuitInv, NEW p \in Publishers, Client!TakeCircuit(p)
    PROVE  CircuitInv'
<1>1. CASE circuit = Nothing
  <2>1. /\ held' = [held EXCEPT ![p] = p]
        /\ counts' = [counts EXCEPT ![p] = [failures |-> 0, open |-> FALSE]]
        /\ circuit' = circuit /\ streak' = streak
    BY <1>1 DEF Client!TakeCircuit
  <2>2. streak' = 0
    BY <1>1, <2>1 DEF CircuitInv
  <2>3. [failures |-> 0, open |-> FALSE] \in [failures : 0..Threshold, open : BOOLEAN]
    BY ClientAssumption
  <2>4. counts' \in [Publishers -> [failures : 0..Threshold, open : BOOLEAN]]
    BY <2>1, <2>3 DEF CircuitInv
  <2>q. QED BY <2>1, <2>2, <2>4, NoStreak DEF CircuitInv
<1>2. CASE circuit # Nothing
  <2>1. /\ held' = [held EXCEPT ![p] = circuit]
        /\ counts' = counts /\ circuit' = circuit /\ streak' = streak
    BY <1>2 DEF Client!TakeCircuit
  <2>q. QED BY <1>2, <2>1 DEF CircuitInv
<1>q. QED BY <1>1, <1>2

LEMMA CountedSuccess ==
    ASSUME CircuitInv, NEW p \in Publishers, Client!CountSuccess(p)
    PROVE  CircuitInv'
<1>1. /\ counts' = [counts EXCEPT ![held[p]].failures = 0]
      /\ circuit' = held[p] /\ streak' = 0 /\ held' = held
  BY DEF Client!CountSuccess
<1>2. held[p] \in Publishers /\ held[p] # Nothing
  BY ClientAssumption DEF CircuitInv
<1>3. PICK r \in [failures : 0..Threshold, open : BOOLEAN] : r = [counts[held[p]] EXCEPT !.failures = 0]
  <2>1. PICK c \in [failures : 0..Threshold, open : BOOLEAN] : c = counts[held[p]]
    BY <1>2 DEF CircuitInv
  <2>2. [c EXCEPT !.failures = 0] \in [failures : 0..Threshold, open : BOOLEAN]
    BY ClientAssumption
  <2>q. QED BY <2>1, <2>2
<1>4. counts' = [counts EXCEPT ![held[p]] = r]
  BY <1>1, <1>3
<1>5. counts' \in [Publishers -> [failures : 0..Threshold, open : BOOLEAN]]
  BY <1>2, <1>4 DEF CircuitInv
<1>q. QED BY <1>1, <1>2, <1>5, NoStreak DEF CircuitInv

LEMMA CountedFailure ==
    ASSUME CircuitInv, NEW p \in Publishers, Client!CountFailure(p)
    PROVE  CircuitInv'
<1>1. held[p] \in Publishers /\ held[p] # Nothing
  BY ClientAssumption DEF CircuitInv
<1>2. PICK n \in 0..Threshold :
        n = IF counts[held[p]].failures < Threshold THEN counts[held[p]].failures + 1 ELSE Threshold
  BY <1>1, ClientAssumption DEF CircuitInv
<1>3. PICK b \in BOOLEAN : b = (counts[held[p]].open \/ n >= Threshold)
  OBVIOUS
<1>4. PICK r \in [failures : 0..Threshold, open : BOOLEAN] : r = [failures |-> n, open |-> b]
  OBVIOUS
<1>5. /\ counts' = [counts EXCEPT ![held[p]] = r]
      /\ circuit' = held[p] /\ held' = held
      /\ streak' = IF n >= Threshold THEN 0 ELSE streak + 1
  BY <1>2, <1>3, <1>4 DEF Client!CountFailure
<1>6. counts' \in [Publishers -> [failures : 0..Threshold, open : BOOLEAN]]
  BY <1>1, <1>5 DEF CircuitInv
<1>7. CASE n >= Threshold
  BY <1>1, <1>5, <1>6, <1>7, NoStreak DEF CircuitInv
<1>8. CASE n < Threshold
  <2>1. /\ streak' = streak + 1
        /\ counts[held[p]].failures \in 0..Threshold
        /\ n = counts[held[p]].failures + 1
    BY <1>1, <1>2, <1>5, <1>8, ClientAssumption DEF CircuitInv
  <2>2. PICK S \in SUBSET (Publishers \X (1..(Threshold - 1))) :
          /\ Cardinality(S) = streak
          /\ \A x \in S : x[2] <= counts[x[1]].failures
    BY DEF CircuitInv
  <2>3. n \in 1..(Threshold - 1)
    BY <1>8, <2>1, ClientAssumption
  <2> DEFINE T == S \cup {<<held[p], n>>}
  <2>4. T \in SUBSET (Publishers \X (1..(Threshold - 1)))
    BY <1>1, <2>2, <2>3
  <2>5. <<held[p], n>> \notin S
    BY <2>1, <2>2
  <2>6. IsFiniteSet(S)
    <3>1. IsFiniteSet(1..(Threshold - 1))
      BY FS_Interval, ClientAssumption
    <3>2. IsFiniteSet(Publishers \X (1..(Threshold - 1)))
      BY <3>1, FS_Product, ClientAssumption
    <3>q. QED BY <2>2, <3>2, FS_Subset
  <2>7. Cardinality(T) = streak'
    BY <2>1, <2>2, <2>5, <2>6, FS_AddElement
  <2>8. \A x \in T : x[2] <= counts'[x[1]].failures
    <3> SUFFICES ASSUME NEW x \in T PROVE x[2] <= counts'[x[1]].failures
      OBVIOUS
    <3>1. r.failures = n /\ n \in 0..Threshold
      BY <1>4
    <3>2. CASE x[1] = held[p]
      BY <1>1, <1>5, <2>1, <2>2, <2>3, <3>1, <3>2 DEF CircuitInv
    <3>3. CASE x[1] # held[p]
      <4>1. x \in S /\ x[1] \in Publishers
        BY <2>2, <3>3
      <4>2. counts'[x[1]] = counts[x[1]]
        BY <1>5, <3>3, <4>1 DEF CircuitInv
      <4>q. QED BY <2>2, <4>1, <4>2
    <3>q. QED BY <3>2, <3>3
  <2>9. streak' \in Nat
    BY <2>1 DEF CircuitInv
  <2>q. QED BY <1>1, <1>5, <1>6, <2>4, <2>7, <2>8, <2>9 DEF CircuitInv
<1>q. QED BY <1>2, <1>7, <1>8, ClientAssumption

LEMMA HalfOpened ==
    ASSUME CircuitInv, NEW p \in Publishers, Client!HalfOpen(p)
    PROVE  CircuitInv'
<1>1. /\ counts' = [counts EXCEPT ![p].open = FALSE]
      /\ circuit' = circuit /\ held' = held /\ streak' = streak
  BY DEF Client!HalfOpen
<1>2. PICK r \in [failures : 0..Threshold, open : BOOLEAN] : r = [counts[p] EXCEPT !.open = FALSE]
  BY DEF CircuitInv
<1>3. counts' = [counts EXCEPT ![p] = r]
  BY <1>1, <1>2
<1>4. counts' \in [Publishers -> [failures : 0..Threshold, open : BOOLEAN]]
  BY <1>3 DEF CircuitInv
<1>5. r.failures = counts[p].failures
  BY <1>2 DEF CircuitInv
<1>6. \A q \in Publishers : counts'[q].failures = counts[q].failures
  BY <1>3, <1>5 DEF CircuitInv
<1>7. PICK S \in SUBSET (Publishers \X (1..(Threshold - 1))) :
        /\ Cardinality(S) = streak
        /\ \A x \in S : x[2] <= counts[x[1]].failures
  BY DEF CircuitInv
<1>8. \A x \in S : x[2] <= counts'[x[1]].failures
  BY <1>6, <1>7
<1>q. QED BY <1>1, <1>4, <1>7, <1>8 DEF CircuitInv

LEMMA CircuitRests ==
    ASSUME CircuitInv, UNCHANGED <<circuit, counts, held, streak>>
    PROVE  CircuitInv'
  BY DEF CircuitInv

\* The circuit opens: failures on a circuit of its own for every publisher.
LEMMA CircuitOpens == CircuitInv => Client!BreakerOpens
<1> SUFFICES ASSUME CircuitInv PROVE Client!BreakerOpens
  OBVIOUS
<1>1. \A S : Client!Cardinality(S) = Cardinality(S)
  BY DEF Client!Cardinality, Cardinality
<1>2. PICK S \in SUBSET (Publishers \X (1..(Threshold - 1))) : Cardinality(S) = streak
  BY DEF CircuitInv
<1>3. IsFiniteSet(1..(Threshold - 1)) /\ Cardinality(1..(Threshold - 1)) = Threshold - 1
  BY FS_Interval, ClientAssumption
<1>4. /\ IsFiniteSet(Publishers \X (1..(Threshold - 1)))
      /\ Cardinality(Publishers \X (1..(Threshold - 1))) = Cardinality(Publishers) * (Threshold - 1)
  BY <1>3, FS_Product, ClientAssumption
<1>5. Cardinality(S) <= Cardinality(Publishers \X (1..(Threshold - 1)))
  BY <1>2, <1>4, FS_Subset
<1>q. QED BY <1>1, <1>2, <1>4, <1>5 DEF Client!BreakerOpens

LEMMA Publications ==
    ASSUME NEW p \in Publishers
    PROVE  /\ Len(Resources[p]) \in Nat \ {0}
           /\ \A i \in 1..Len(Resources[p]) : Resources[p][i] \in Objects
           /\ \A o \in Objects : ContentOf[p][o] \notin {Nothing, Foreign}
           /\ \A o \in Objects : ContentOf[p][o] \in Contents
  BY ClientAssumption DEF Contents

\* What is at the connector stays there, and with it what has been made.
LEMMA MadeStays ==
    ASSUME \A o \in Objects : remote[o] # Nothing => remote'[o] = remote[o],
           NEW p \in Publishers, NEW i \in 1..(Len(Resources[p]) + 1), MadeBefore(p, i)
    PROVE  MadeBefore(p, i)'
  BY Publications DEF MadeBefore

LEMMA SourceStays ==
    ASSUME \A o \in Objects : remote[o] # Nothing => remote'[o] = remote[o],
           NEW o \in Objects, Sourced(o), remote'[o] = remote[o]
    PROVE  Sourced(o)'
<1> SUFFICES ASSUME remote'[o] \notin {Nothing, Foreign}
             PROVE  \E p \in Publishers : \E i \in 1..Len(Resources[p]) :
                      /\ Resources[p][i] = o /\ remote'[o] = ContentOf[p][o]
                      /\ MadeBefore(p, i)'
  BY DEF Sourced
<1>1. PICK p \in Publishers : \E i \in 1..Len(Resources[p]) :
        /\ Resources[p][i] = o /\ remote[o] = ContentOf[p][o]
        /\ MadeBefore(p, i)
  BY DEF Sourced
<1>2. PICK i \in 1..Len(Resources[p]) :
        /\ Resources[p][i] = o /\ remote[o] = ContentOf[p][o]
        /\ MadeBefore(p, i)
  BY <1>1
<1>3. i \in 1..(Len(Resources[p]) + 1)
  BY Publications
<1>4. MadeBefore(p, i)'
  BY <1>2, <1>3, MadeStays
<1>q. QED BY <1>2, <1>4

LEMMA GroundStays ==
    ASSUME \A o \in Objects : remote[o] # Nothing => remote'[o] = remote[o],
           NEW c, Grounded(c)
    PROVE  Grounded(c)'
<1>1. PICK i \in 1..Len(Resources[c[1]]) : Resources[c[1]][i] = c[2] /\ MadeBefore(c[1], i)
  BY DEF Grounded
<1>2. c[1] \in Publishers /\ i \in 1..(Len(Resources[c[1]]) + 1)
  BY <1>1, Publications DEF Grounded
<1>3. MadeBefore(c[1], i)'
  BY <1>1, <1>2, MadeStays
<1>q. QED BY <1>1, <1>2, <1>3 DEF Grounded

LEMMA PlacedStays ==
    ASSUME \A o \in Objects : remote[o] # Nothing => remote'[o] = remote[o],
           NEW p \in Publishers, Placed(p),
           index'[p] = index[p], doing'[p] = doing[p], response'[p] = response[p]
    PROVE  Placed(p)'
<1>1. /\ index[p] \in 1..Len(Resources[p]) /\ index[p] \in 1..(Len(Resources[p]) + 1)
      /\ Len(Resources[p]) + 1 \in 1..(Len(Resources[p]) + 1)
      /\ Client!Target(p) \in Objects /\ Client!Target(p)' = Client!Target(p)
  BY Publications DEF Placed, Client!Target
<1>2. doing[p] \notin {"idle", "failed", "published"} => MadeBefore(p, index[p])'
  <2> SUFFICES ASSUME doing[p] \notin {"idle", "failed", "published"}
               PROVE  MadeBefore(p, index[p])'
    OBVIOUS
  <2>1. PICK i \in 1..(Len(Resources[p]) + 1) : i = index[p]
    BY <1>1
  <2>2. MadeBefore(p, i)
    BY <2>1 DEF Placed
  <2>3. MadeBefore(p, i)'
    BY <2>2, MadeStays
  <2>q. QED BY <2>1, <2>3 DEF MadeBefore
<1>3. doing[p] = "published" => MadeBefore(p, Len(Resources[p]) + 1)'
  <2> SUFFICES ASSUME doing[p] = "published" PROVE MadeBefore(p, Len(Resources[p]) + 1)'
    OBVIOUS
  <2>1. MadeBefore(p, Len(Resources[p]) + 1)
    BY DEF Placed
  <2>q. QED BY <1>1, <2>1, MadeStays
<1>4. Client!Reads(p)' = Client!Reads(p)
  BY DEF Client!Reads
<1>5. Client!Reads(p) /\ response[p] \notin {Nothing, "unanswered"} =>
        remote'[Client!Target(p)] = response[p]
  BY <1>1 DEF Placed
<1>6. doing[p] = "creating" /\ response[p] = "created" =>
        remote'[Client!Target(p)] = ContentOf[p][Client!Target(p)]
  BY <1>1, Publications DEF Placed
<1>q. QED BY <1>1, <1>2, <1>3, <1>4, <1>5, <1>6 DEF Placed, MadeBefore

LEMMA OneMoves ==
    ASSUME RemoteInv, remote' = remote, NEW p \in Publishers,
           doing' \in [Publishers -> {"idle", "get", "reading", "create", "creating", "getAgain",
                                      "readingAgain", "published", "failed"}],
           DOMAIN index' = Publishers, DOMAIN response' = Publishers,
           \A q \in Publishers \ {p} :
             index'[q] = index[q] /\ doing'[q] = doing[q] /\ response'[q] = response[q],
           \A c \in overdue' : c \in overdue \/ Grounded(c),
           Placed(p)'
    PROVE  RemoteInv'
<1>1. \A o \in Objects : remote[o] # Nothing => remote'[o] = remote[o]
  OBVIOUS
<1>2. \A o \in Objects : Sourced(o)'
  BY <1>1, SourceStays DEF RemoteInv
<1>3. \A c \in overdue' : Grounded(c)'
  <2> SUFFICES ASSUME NEW c \in overdue' PROVE Grounded(c)'
    OBVIOUS
  <2>1. Grounded(c)
    BY DEF RemoteInv
  <2>q. QED BY <1>1, <2>1, GroundStays
<1>4. \A q \in Publishers \ {p} : Placed(q)'
  BY <1>1, PlacedStays DEF RemoteInv
<1>q. QED BY <1>2, <1>3, <1>4 DEF RemoteInv

LEMMA OneIsMade ==
    ASSUME RemoteInv, NEW o \in Objects, remote[o] = Nothing, NEW content,
           remote' = [remote EXCEPT ![o] = content],
           \/ content = Foreign
           \/ \E p \in Publishers : Grounded(<<p, o>>) /\ content = ContentOf[p][o],
           doing' = doing, index' = index, overdue' \subseteq overdue,
           DOMAIN response' = Publishers,
           \A q \in Publishers : response'[q] = response[q] \/ Placed(q)'
    PROVE  RemoteInv'
<1>1. content \in Contents \ {Nothing}
  <2>1. CASE content = Foreign
    BY <2>1, ClientAssumption DEF Contents
  <2>2. CASE \E p \in Publishers : content = ContentOf[p][o]
    BY <2>2, Publications
  <2>q. QED BY <2>1, <2>2
<1>2. /\ remote' \in [Objects -> Contents] /\ remote'[o] = content
      /\ \A other \in Objects \ {o} : remote'[other] = remote[other]
      /\ \A other \in Objects : remote[other] # Nothing => remote'[other] = remote[other]
  BY <1>1 DEF RemoteInv
<1>3. Sourced(o)'
  <2>1. CASE content = Foreign
    BY <1>2, <2>1 DEF Sourced
  <2>2. CASE \E p \in Publishers : Grounded(<<p, o>>) /\ content = ContentOf[p][o]
    <3>1. PICK p \in Publishers : Grounded(<<p, o>>) /\ content = ContentOf[p][o]
      BY <2>2
    <3>2. PICK i \in 1..Len(Resources[p]) : Resources[p][i] = o /\ MadeBefore(p, i)
      BY <3>1 DEF Grounded
    <3>3. i \in 1..(Len(Resources[p]) + 1)
      BY Publications
    <3>4. MadeBefore(p, i)'
      BY <1>2, <3>2, <3>3, MadeStays
    <3>q. QED BY <1>2, <3>1, <3>2, <3>4 DEF Sourced
  <2>q. QED BY <2>1, <2>2
<1>4. \A other \in Objects \ {o} : Sourced(other)'
  BY <1>2, SourceStays DEF RemoteInv
<1>5. \A c \in overdue' : Grounded(c)'
  BY <1>2, GroundStays DEF RemoteInv
<1>6. \A q \in Publishers : Placed(q)'
  BY <1>2, PlacedStays DEF RemoteInv
<1>q. QED BY <1>2, <1>3, <1>4, <1>5, <1>6 DEF RemoteInv

LEMMA RemoteStarts == Client!Init => RemoteInv
<1> SUFFICES ASSUME Client!Init PROVE RemoteInv
  OBVIOUS
<1>1. /\ remote = [o \in Objects |-> Nothing] /\ doing = [p \in Publishers |-> "idle"]
      /\ index = [p \in Publishers |-> 1] /\ response = [p \in Publishers |-> Nothing]
      /\ overdue = {}
  BY DEF Client!Init
<1>2. \A p \in Publishers : Placed(p)
  BY <1>1, Publications DEF Placed, Client!Reads
<1>q. QED BY <1>1, <1>2 DEF RemoteInv, Sourced, Contents

\* A publication starts from its first object, before which there is none.
LEMMA PublishKeeps ==
    ASSUME RemoteInv, NEW p \in Publishers, Client!Publish(p)
    PROVE  RemoteInv'
<1>1. PICK w \in {"failed", "get"} : w = IF Client!Refused(p) THEN "failed" ELSE "get"
  OBVIOUS
<1>2. /\ remote' = remote /\ doing' = [doing EXCEPT ![p] = w]
      /\ index' = [index EXCEPT ![p] = 1] /\ response' = response /\ overdue' = overdue
  BY <1>1 DEF Client!Publish, Client!Goes
<1>3. doing'[p] = w /\ index'[p] = 1
  BY <1>2 DEF RemoteInv
<1>4. Placed(p)'
  BY <1>1, <1>3, Publications DEF Placed, MadeBefore, Client!Reads
<1>q. QED BY <1>1, <1>2, <1>4, OneMoves DEF RemoteInv

LEMMA SendKeeps ==
    ASSUME RemoteInv, NEW p \in Publishers, Client!Send(p)
    PROVE  RemoteInv'
<1>1. /\ doing[p] \in {"get", "create", "getAgain"}
      /\ remote' = remote /\ index' = index /\ overdue' = overdue
  BY DEF Client!Send, Client!Asks
<1>2. Placed(p) /\ MadeBefore(p, index[p])
  BY <1>1 DEF RemoteInv, Placed
<1>3. CASE Client!Open
  <2>1. doing' = [doing EXCEPT ![p] = "failed"] /\ response' = response
    BY <1>3 DEF Client!Send, Client!Goes
  <2>2. Placed(p)'
    BY <1>1, <1>2, <2>1 DEF RemoteInv, Placed, Client!Reads
  <2>q. QED BY <1>1, <2>1, <2>2, OneMoves DEF RemoteInv
<1>4. CASE ~ Client!Open
  <2>1. PICK w \in {"reading", "creating", "readingAgain"} : doing' = [doing EXCEPT ![p] = w]
    BY <1>1, <1>4 DEF Client!Send, Client!Goes
  <2>2. response' = [response EXCEPT ![p] = "unanswered"]
    BY <1>4 DEF Client!Send
  <2>3. response'[p] = "unanswered" /\ doing'[p] = w
    BY <2>1, <2>2 DEF RemoteInv
  <2>4. Placed(p)'
    BY <1>1, <1>2, <2>3 DEF Placed, MadeBefore
  <2>q. QED BY <1>1, <2>1, <2>2, <2>4, OneMoves DEF RemoteInv
<1>q. QED BY <1>3, <1>4

LEMMA ServeKeeps ==
    ASSUME RemoteInv, NEW p \in Publishers, Client!Serve(p)
    PROVE  RemoteInv'
<1>1. /\ doing[p] \in {"reading", "creating", "readingAgain"}
      /\ doing' = doing /\ index' = index /\ overdue' = overdue
  BY DEF Client!Serve, Client!Waits
<1>2. /\ Placed(p) /\ MadeBefore(p, index[p]) /\ index[p] \in 1..Len(Resources[p])
      /\ Client!Target(p) \in Objects /\ Client!Target(p)' = Client!Target(p)
  BY <1>1, Publications DEF RemoteInv, Placed, Client!Target
<1>3. CASE Client!Reads(p)
  <2>1. remote' = remote /\ response' = [response EXCEPT ![p] = remote[Client!Target(p)]]
    BY <1>3 DEF Client!Serve
  <2>2. doing[p] # "creating" /\ response'[p] = remote'[Client!Target(p)]
    BY <1>3, <2>1 DEF Client!Reads, RemoteInv
  <2>3. Placed(p)'
    BY <1>1, <1>2, <2>1, <2>2 DEF Placed, MadeBefore
  <2>q. QED BY <1>1, <2>1, <2>3, OneMoves DEF RemoteInv
<1>4. CASE ~ Client!Reads(p) /\ remote[Client!Target(p)] = Nothing
  <2>1. /\ remote' = [remote EXCEPT ![Client!Target(p)] = ContentOf[p][Client!Target(p)]]
        /\ response' = [response EXCEPT ![p] = "created"]
    BY <1>4 DEF Client!Serve, Client!Own
  <2>2. /\ remote'[Client!Target(p)] = ContentOf[p][Client!Target(p)]
        /\ response'[p] = "created"
    BY <1>2, <2>1 DEF RemoteInv
  <2>3. \A o \in Objects : remote[o] # Nothing => remote'[o] = remote[o]
    BY <1>2, <1>4, <2>1 DEF RemoteInv
  <2>4. Grounded(<<p, Client!Target(p)>>)
    BY <1>2 DEF Grounded, Client!Target
  <2>5. MadeBefore(p, index[p])'
    <3>1. PICK i \in 1..(Len(Resources[p]) + 1) : i = index[p]
      BY <1>2, Publications
    <3>2. MadeBefore(p, i)'
      BY <1>2, <2>3, <3>1, MadeStays
    <3>q. QED BY <1>1, <3>1, <3>2 DEF MadeBefore
  <2>6. Placed(p)'
    BY <1>1, <1>2, <1>4, <2>2, <2>5 DEF Placed, Client!Reads
  <2>7. \A q \in Publishers : response'[q] = response[q] \/ Placed(q)'
    BY <2>1, <2>6 DEF RemoteInv
  <2>8. DOMAIN response' = Publishers
    BY <2>1 DEF RemoteInv
  <2>q. QED BY <1>1, <1>2, <1>4, <2>1, <2>4, <2>7, <2>8, OneIsMade
<1>5. CASE ~ Client!Reads(p) /\ remote[Client!Target(p)] # Nothing
  <2>1. remote' = remote /\ response' = [response EXCEPT ![p] = "exists"]
    BY <1>5 DEF Client!Serve
  <2>2. Placed(p)'
    BY <1>1, <1>2, <1>5, <2>1 DEF Placed, MadeBefore, Client!Reads, RemoteInv
  <2>q. QED BY <1>1, <2>1, <2>2, OneMoves DEF RemoteInv
<1>q. QED BY <1>3, <1>4, <1>5

LEMMA SendAgainKeeps ==
    ASSUME RemoteInv, NEW p \in Publishers, Client!SendAgain(p)
    PROVE  RemoteInv'
<1>1. /\ doing[p] \in {"reading", "readingAgain"}
      /\ remote' = remote /\ doing' = doing /\ index' = index /\ overdue' = overdue
      /\ response' = [response EXCEPT ![p] = "unanswered"]
  BY DEF Client!SendAgain, Client!Reads
<1>2. response'[p] = "unanswered"
  BY <1>1 DEF RemoteInv
<1>3. Placed(p)'
  BY <1>1, <1>2 DEF RemoteInv, Placed, MadeBefore
<1>q. QED BY <1>1, <1>3, OneMoves DEF RemoteInv

\* A creation that is given up was of the object the publication had come to.
LEMMA GiveUpKeeps ==
    ASSUME RemoteInv, NEW p \in Publishers, Client!GiveUp(p)
    PROVE  RemoteInv'
<1>1. /\ doing[p] \in {"reading", "creating", "readingAgain"}
      /\ remote' = remote /\ index' = index
      /\ doing' = [doing EXCEPT ![p] = "failed"]
      /\ response' = [response EXCEPT ![p] = Nothing]
  BY DEF Client!GiveUp, Client!Goes, Client!Waits, Client!Settled
<1>2. overdue' = overdue \/ overdue' = overdue \cup {<<p, Client!Target(p)>>}
  BY DEF Client!GiveUp
<1>3. Placed(p) /\ MadeBefore(p, index[p]) /\ index[p] \in 1..Len(Resources[p])
  BY <1>1 DEF RemoteInv, Placed
<1>4. Grounded(<<p, Client!Target(p)>>)
  BY <1>3 DEF Grounded, Client!Target
<1>5. \A c \in overdue' : c \in overdue \/ Grounded(c)
  BY <1>2, <1>4
<1>6. Placed(p)'
  BY <1>1, <1>3 DEF RemoteInv, Placed, Client!Reads
<1>q. QED BY <1>1, <1>5, <1>6, OneMoves DEF RemoteInv

LEMMA CarryOutKeeps == ASSUME RemoteInv, Client!CarryOut PROVE RemoteInv'
<1>1. PICK c \in overdue :
        /\ overdue' = overdue \ {c}
        /\ remote' = IF remote[c[2]] = Nothing
                     THEN [remote EXCEPT ![c[2]] = ContentOf[c[1]][c[2]]] ELSE remote
  BY DEF Client!CarryOut, Client!Own
<1>2. doing' = doing /\ index' = index /\ response' = response
  BY DEF Client!CarryOut, Client!client_vars
<1>3. Grounded(c) /\ c[1] \in Publishers
  BY <1>1 DEF RemoteInv, Grounded
<1>4. c[2] \in Objects /\ Grounded(<<c[1], c[2]>>)
  BY <1>3, Publications DEF Grounded
<1>5. CASE remote[c[2]] = Nothing
  <2>1. PICK o \in Objects : o = c[2]
    BY <1>4
  <2>2. PICK content : content = ContentOf[c[1]][o]
    OBVIOUS
  <2>3. remote[o] = Nothing /\ remote' = [remote EXCEPT ![o] = content]
    BY <1>1, <1>5, <2>1, <2>2
  <2>4. \E p \in Publishers : Grounded(<<p, o>>) /\ content = ContentOf[p][o]
    BY <1>3, <1>4, <2>1, <2>2
  <2>q. QED BY <1>1, <1>2, <2>3, <2>4, OneIsMade DEF RemoteInv
<1>6. CASE remote[c[2]] # Nothing
  <2>1. remote' = remote
    BY <1>1, <1>6
  <2>2. Placed(c[1])'
    BY <1>2, <1>3, <2>1, PlacedStays DEF RemoteInv
  <2>q. QED BY <1>1, <1>2, <1>3, <2>1, <2>2, OneMoves DEF RemoteInv
<1>q. QED BY <1>5, <1>6

LEMMA AdministerKeeps == ASSUME RemoteInv, Client!Administer PROVE RemoteInv'
<1>1. PICK o \in Objects : remote[o] = Nothing /\ remote' = [remote EXCEPT ![o] = Foreign]
  BY DEF Client!Administer
<1>2. doing' = doing /\ index' = index /\ response' = response /\ overdue' = overdue
  BY DEF Client!Administer, Client!client_vars
<1>q. QED BY <1>1, <1>2, OneIsMade DEF RemoteInv

\* An answer that is the publication's own, or a creation, is of an object that
\* is at the connector.
LEMMA ReceiveKeeps ==
    ASSUME RemoteInv, NEW p \in Publishers, Client!Receive(p)
    PROVE  RemoteInv'
<1>1. /\ doing[p] \in {"reading", "creating", "readingAgain"} /\ response[p] # "unanswered"
      /\ remote' = remote /\ overdue' = overdue
      /\ response' = [response EXCEPT ![p] = Nothing]
  BY DEF Client!Receive, Client!Settled, Client!Waits
<1>2. response'[p] = Nothing
  BY <1>1 DEF RemoteInv
<1>3. /\ Placed(p) /\ MadeBefore(p, index[p]) /\ index[p] \in 1..Len(Resources[p])
      /\ Client!Target(p) \in Objects
  BY <1>1, Publications DEF RemoteInv, Placed, Client!Target
<1>4. \/ /\ Client!Advance(p) /\ remote[Client!Target(p)] = ContentOf[p][Client!Target(p)]
      \/ /\ index' = index
         /\ \E w \in {"create", "getAgain", "failed"} : doing' = [doing EXCEPT ![p] = w]
  <2>1. CASE Client!Reads(p) /\ Client!Owned(p, response[p])
    <3>1. Client!Advance(p)
      <4>1. doing[p] # "creating"
        BY <2>1 DEF Client!Reads
      <4>2. response[p] # Nothing
        BY <1>3, <2>1, Publications DEF Client!Owned, Client!Own
      <4>q. QED BY <2>1, <4>1, <4>2 DEF Client!Receive
    <3>2. response[p] = ContentOf[p][Client!Target(p)]
      BY <2>1 DEF Client!Owned, Client!Own
    <3>3. response[p] # Nothing
      BY <1>3, <3>2, Publications
    <3>q. QED BY <1>1, <1>3, <2>1, <3>1, <3>2, <3>3 DEF Placed
  <2>2. CASE ~ (Client!Reads(p) /\ Client!Owned(p, response[p])) /\ doing[p] = "creating"
    BY <1>3, <2>2 DEF Client!Receive, Client!Reads, Client!Goes, Placed
  <2>3. CASE ~ (Client!Reads(p) /\ Client!Owned(p, response[p])) /\ doing[p] # "creating"
    BY <2>3 DEF Client!Receive, Client!Goes
  <2>q. QED BY <2>1, <2>2, <2>3
<1>5. CASE index' = index /\ \E w \in {"create", "getAgain", "failed"} : doing' = [doing EXCEPT ![p] = w]
  <2>1. PICK w \in {"create", "getAgain", "failed"} : doing' = [doing EXCEPT ![p] = w]
    BY <1>5
  <2>2. Placed(p)'
    BY <1>1, <1>2, <1>3, <1>5, <2>1 DEF RemoteInv, Placed, MadeBefore, Client!Reads
  <2>q. QED BY <1>1, <1>5, <2>1, <2>2, OneMoves DEF RemoteInv
<1>6. CASE Client!Advance(p) /\ remote[Client!Target(p)] = ContentOf[p][Client!Target(p)]
  <2>1. MadeBefore(p, index[p] + 1)
    BY <1>3, <1>6, Publications DEF MadeBefore, Client!Target
  <2>2. CASE index[p] = Len(Resources[p])
    <3>1. index' = index /\ doing' = [doing EXCEPT ![p] = "published"]
      BY <1>6, <2>2 DEF Client!Advance, Client!Goes
    <3>2. Placed(p)'
      BY <1>1, <1>2, <1>3, <2>1, <2>2, <3>1 DEF RemoteInv, Placed, MadeBefore, Client!Reads
    <3>q. QED BY <1>1, <3>1, <3>2, OneMoves DEF RemoteInv
  <2>3. CASE index[p] # Len(Resources[p])
    <3>1. index' = [index EXCEPT ![p] = @ + 1] /\ doing' = [doing EXCEPT ![p] = "get"]
      BY <1>6, <2>3 DEF Client!Advance, Client!Goes
    <3>2. index'[p] = index[p] + 1 /\ doing'[p] = "get"
      BY <3>1 DEF RemoteInv
    <3>3. index'[p] \in 1..Len(Resources[p])
      BY <1>3, <2>3, <3>2, Publications
    <3>4. MadeBefore(p, index[p])'
      BY <1>1, <2>1, <3>2 DEF MadeBefore
    <3>5. Placed(p)'
      BY <3>2, <3>3, <3>4 DEF Placed, Client!Reads
    <3>q. QED BY <1>1, <3>1, <3>5, OneMoves DEF RemoteInv
  <2>q. QED BY <2>2, <2>3
<1>q. QED BY <1>4, <1>5, <1>6

LEMMA ClientStarts == Client!Init => ClientInv
  BY CircuitStarts, RemoteStarts DEF ClientInv

LEMMA ClientStays == ClientInv /\ [Client!Next]_client_vars => ClientInv'
<1> SUFFICES ASSUME ClientInv, [Client!Next]_client_vars PROVE ClientInv'
  OBVIOUS
<1> USE DEF ClientInv
<1>1. ASSUME NEW p \in Publishers, Client!Publish(p) PROVE ClientInv'
  BY <1>1, PublishKeeps, CircuitRests DEF Client!Publish, Client!circuit_vars
<1>2. ASSUME NEW p \in Publishers, Client!Send(p) PROVE ClientInv'
  <2>1. RemoteInv'
    BY <1>2, SendKeeps
  <2>2. CASE Client!Open
    BY <1>2, <2>1, <2>2, CircuitRests DEF Client!Send, Client!circuit_vars
  <2>3. CASE ~ Client!Open
    BY <1>2, <2>1, <2>3, TakenCircuit DEF Client!Send
  <2>q. QED BY <2>2, <2>3
<1>3. ASSUME NEW p \in Publishers, Client!Serve(p) PROVE ClientInv'
  BY <1>3, ServeKeeps, CircuitRests DEF Client!Serve, Client!circuit_vars
<1>4. ASSUME NEW p \in Publishers, Client!SendAgain(p) PROVE ClientInv'
  BY <1>4, SendAgainKeeps, CircuitRests DEF Client!SendAgain, Client!circuit_vars
<1>5. ASSUME NEW p \in Publishers, Client!GiveUp(p) PROVE ClientInv'
  BY <1>5, GiveUpKeeps, CountedFailure, CircuitRests DEF Client!GiveUp, Client!circuit_vars
<1>6. ASSUME NEW p \in Publishers, Client!Receive(p) PROVE ClientInv'
  BY <1>6, ReceiveKeeps, CountedSuccess DEF Client!Receive
<1>7. ASSUME NEW p \in Publishers, Client!HalfOpen(p) PROVE ClientInv'
  <2>1. /\ remote' = remote /\ doing' = doing /\ index' = index /\ response' = response
        /\ overdue' = overdue
    BY <1>7 DEF Client!HalfOpen, Client!client_vars
  <2>2. Placed(p)'
    BY <2>1, PlacedStays DEF RemoteInv
  <2>3. RemoteInv'
    BY <2>1, <2>2, OneMoves DEF RemoteInv
  <2>q. QED BY <1>7, <2>3, HalfOpened
<1>8. ASSUME Client!CarryOut PROVE ClientInv'
  BY <1>8, CarryOutKeeps, CircuitRests DEF Client!CarryOut, Client!circuit_vars
<1>9. ASSUME Client!Administer PROVE ClientInv'
  BY <1>9, AdministerKeeps, CircuitRests DEF Client!Administer, Client!circuit_vars
<1>10. ASSUME UNCHANGED client_vars PROVE ClientInv'
  <2>1. CircuitInv'
    BY <1>10, CircuitRests DEF client_vars
  <2>2. RemoteInv'
    BY <1>10 DEF client_vars, RemoteInv, Sourced, Grounded, Placed, MadeBefore, Client!Reads,
                 Client!Target
  <2>q. QED BY <2>1, <2>2
<1>q. QED BY <1>1, <1>2, <1>3, <1>4, <1>5, <1>6, <1>7, <1>8, <1>9, <1>10 DEF Client!Next

LEMMA ClientImplies == ClientInv => Client!TypeOK /\ Client!OffersAreWhole /\ Client!BreakerOpens
<1> SUFFICES ASSUME ClientInv
             PROVE  Client!TypeOK /\ Client!OffersAreWhole /\ Client!BreakerOpens
  OBVIOUS
<1>1. Client!TypeOK
  BY DEF ClientInv, CircuitInv, RemoteInv, Placed, Client!TypeOK
<1>2. ASSUME NEW p \in Publishers, MadeBefore(p, Len(Resources[p]) + 1)
      PROVE  Client!Whole(p)
  BY <1>2, ClientAssumption DEF MadeBefore, Client!Whole, Client!Own
<1>3. ASSUME NEW p \in Publishers, doing[p] = "published"
      PROVE  Client!Whole(p)
  BY <1>2, <1>3 DEF ClientInv, RemoteInv, Placed
<1>4. ASSUME NEW p \in Publishers, remote[Client!Last(p)] = Client!Own(p, Client!Last(p))
      PROVE  \E q \in Publishers :
               /\ Client!Last(q) = Client!Last(p)
               /\ Client!Own(q, Client!Last(q)) = Client!Own(p, Client!Last(p))
               /\ Client!Whole(q)
  <2>1. PICK o \in Objects : o = Client!Last(p)
    BY Publications DEF Client!Last
  <2>2. remote[o] \notin {Nothing, Foreign}
    BY <1>4, <2>1, Publications DEF Client!Own
  <2>3. PICK q \in Publishers : \E i \in 1..Len(Resources[q]) :
          Resources[q][i] = o /\ remote[o] = ContentOf[q][o] /\ MadeBefore(q, i)
    BY <2>2 DEF ClientInv, RemoteInv, Sourced
  <2>4. PICK i \in 1..Len(Resources[q]) :
          Resources[q][i] = o /\ remote[o] = ContentOf[q][o] /\ MadeBefore(q, i)
    BY <2>3
  <2>5. i = Len(Resources[q])
    BY <2>1, <2>4, ClientAssumption DEF Client!Last
  <2>6. Client!Last(q) = o /\ Client!Own(q, o) = Client!Own(p, o)
    BY <1>4, <2>1, <2>4, <2>5 DEF Client!Last, Client!Own
  <2>7. MadeBefore(q, Len(Resources[q]) + 1)
    BY <2>4, <2>5, Publications DEF MadeBefore
  <2>8. Client!Whole(q)
    BY <1>2, <2>7
  <2>q. QED BY <2>1, <2>6, <2>8
<1>5. Client!OffersAreWhole
  BY <1>3, <1>4 DEF Client!OffersAreWhole
<1>6. Client!BreakerOpens
  BY CircuitOpens DEF ClientInv
<1>q. QED BY <1>1, <1>5, <1>6

-----------------------------------------------------------------------------
(* FileState: the call that runs holds the lock file, and every state that *)
(* is written goes on from the one before.                                 *)

Extends(old, new) ==
    /\ old.value \subseteq new.value
    /\ Len(old.audit) <= Len(new.audit)
    /\ \A i \in 1..Len(old.audit) : new.audit[i] = old.audit[i]

FileCallInv(c) ==
    /\ File!Running(c) => lockFile = c /\ answer[c] # "locked"
    /\ at[c] \in {"idle", "loading", "saving", "syncing"} => answer[c] = "none"
    /\ at[c] = "saving" =>
         /\ File!Valid(draft[c]) /\ Extends(onDisk, draft[c])
         /\ draft[c].value \subseteq onDisk.value \cup {c}
    /\ at[c] = "syncing" => onDisk = draft[c]
    /\ c \in onDisk.value =>
         at[c] \in {"syncing", "unlocking", "done", "dead"} /\ answer[c] # "aborted"
    /\ answer[c] = "committed" => Extends(draft[c], durable)

FileInv ==
    /\ File!TypeOK
    /\ File!Valid(onDisk) /\ File!Valid(durable) /\ Extends(durable, onDisk)
    /\ \A c \in FileCalls : FileCallInv(c)

LEMMA ExtendsItself == ASSUME NEW s \in File!States PROVE Extends(s, s)
  BY DEF File!States, Extends

LEMMA ExtendsOn ==
    ASSUME NEW s \in File!States, NEW t \in File!States, NEW u \in File!States,
           Extends(s, t), Extends(t, u)
    PROVE  Extends(s, u)
<1>1. /\ Len(s.audit) \in Nat /\ Len(t.audit) \in Nat /\ Len(u.audit) \in Nat
  BY DEF File!States
<1>q. QED BY <1>1 DEF Extends

LEMMA AppendGoesOn ==
    ASSUME NEW S, NEW q \in Seq(S), NEW e \in S
    PROVE  /\ Append(q, e) \in Seq(S) /\ Len(Append(q, e)) = Len(q) + 1
           /\ \A i \in 1..Len(q) : Append(q, e)[i] = q[i]
  OBVIOUS

\* What an operation leaves goes on from the state it has read.
LEMMA Sealed ==
    ASSUME NEW s \in File!States, File!Valid(s), NEW c \in FileCalls, NEW time \in 1..MaxClock,
           NEW v \in SUBSET FileCalls, s.value \subseteq v,
           NEW changed, changed = [s EXCEPT !.value = v],
           NEW audited, audited = File!Appended(changed, c, time),
           File!CanAppend(changed, time), File!CanAppend(audited, time)
    PROVE  LET sealed == File!Seal(audited, time)
           IN  sealed \in File!States /\ Extends(s, sealed) /\ sealed.value = v
<1> DEFINE sealed == File!Seal(audited, time)
<1>1. PICK A \in Seq(File!Events) : A = s.audit
  BY DEF File!States
<1>2. changed = [value |-> v, audit |-> A, snap |-> s.snap, upto |-> s.upto]
  BY <1>1 DEF File!States
<1>3. PICK e \in File!Events : e = [by |-> c, time |-> time, snap |-> IF c = "store" THEN v ELSE {}]
  <2>1. PICK w \in SUBSET FileCalls : w = IF c = "store" THEN v ELSE {}
    OBVIOUS
  <2>2. [by |-> c, time |-> time, snap |-> w] \in File!Events
    BY DEF File!Events
  <2>q. QED BY <2>1, <2>2
<1>4. PICK f \in File!Events : f = [by |-> "store", time |-> time, snap |-> v]
  BY DEF File!Events
<1>6. s.upto = Len(A) /\ Len(A) \in Nat
  BY <1>1 DEF File!Valid
<1>7. PICK B \in Seq(File!Events) :
        /\ B = Append(A, e) /\ Len(B) = Len(A) + 1
        /\ \A i \in 1..Len(A) : B[i] = A[i]
  BY AppendGoesOn
<1>5. audited = [value |-> v, audit |-> B, snap |-> s.snap, upto |-> s.upto]
  <2>1. changed.value = v /\ changed.audit = A
    BY <1>2
  <2>2. e = [by |-> c, time |-> time, snap |-> IF c = "store" THEN changed.value ELSE {}]
    BY <1>3, <2>1
  <2>3. audited = [changed EXCEPT !.audit = B]
    BY <1>7, <2>1, <2>2 DEF File!Appended
  <2>q. QED BY <1>2, <2>3
<1>8. PICK C \in Seq(File!Events) :
        /\ C = Append(B, f) /\ Len(C) = Len(B) + 1
        /\ \A i \in 1..Len(B) : C[i] = B[i]
  BY AppendGoesOn
<1>9. audited.audit = B /\ audited.upto = s.upto /\ audited.value = v
  BY <1>5
<1>10. ~ File!Unchanged(audited)
  <2>1. Len(audited.audit) = Len(A) + 1
    BY <1>7, <1>9
  <2>2. Len(A) + 1 # Len(A)
    BY <1>6
  <2>3. audited.upto = Len(A)
    BY <1>6, <1>9
  <2>q. QED BY <2>1, <2>2, <2>3 DEF File!Unchanged
<1>11. File!Appended(audited, "store", time) = [value |-> v, audit |-> C, snap |-> s.snap, upto |-> s.upto]
  <2>2. C = Append(audited.audit, f)
    BY <1>8, <1>9
  <2>3. f = [by |-> "store", time |-> time, snap |-> audited.value]
    BY <1>4, <1>9
  <2>4. File!Appended(audited, "store", time) = [audited EXCEPT !.audit = Append(audited.audit, f)]
    <3>1. [by |-> "store", time |-> time, snap |-> IF "store" = "store" THEN audited.value ELSE {}] = f
      BY <2>3
    <3>q. QED BY <3>1 DEF File!Appended
  <2>5. File!Appended(audited, "store", time) = [audited EXCEPT !.audit = C]
    BY <2>2, <2>4
  <2>6. [audited EXCEPT !.audit = C] = [value |-> v, audit |-> C, snap |-> s.snap, upto |-> s.upto]
    BY <1>5
  <2>q. QED BY <2>5, <2>6, Zenon
<1>12. sealed = [value |-> v, audit |-> C, snap |-> v, upto |-> Len(B) + 1]
  <2>1. /\ File!Seal(audited, time) = [File!Appended(audited, "store", time) EXCEPT
                !.snap = audited.value, !.upto = Len(audited.audit) + 1]
    BY <1>10 DEF File!Seal
  <2>2. sealed = [[value |-> v, audit |-> C, snap |-> s.snap, upto |-> s.upto] EXCEPT
                !.snap = v, !.upto = Len(B) + 1]
    BY <1>9, <1>11, <2>1
  <2>q. QED BY <2>2
<1>13. Len(B) < MaxAudit /\ Len(B) \in Nat
  BY <1>7, <1>9 DEF File!CanAppend
<1>14. Len(B) + 1 \in 0..MaxAudit
  BY <1>13, FileAssumption
<1> HIDE DEF sealed
<1>15. sealed \in File!States
  BY <1>12, <1>14 DEF File!States
<1>16. sealed.audit = C /\ sealed.value = v
  BY <1>12
<1>17. \A i \in 1..Len(A) : C[i] = A[i]
  BY <1>6, <1>7, <1>8
<1>18. Extends(s, sealed)
  <2>1. s.audit = A /\ Len(C) = Len(A) + 2
    BY <1>1, <1>6, <1>7, <1>8
  <2>2. Len(A) <= Len(C)
    BY <1>6, <2>1
  <2>q. QED BY <1>16, <1>17, <2>1, <2>2 DEF Extends
<1>q. QED BY <1>15, <1>16, <1>18 DEF sealed

LEMMA FileStarts == File!Init => FileInv
<1> SUFFICES ASSUME File!Init PROVE FileInv
  OBVIOUS
<1>1. /\ onDisk = File!EmptyState /\ durable = File!EmptyState /\ lockFile = "free"
      /\ at = [c \in FileCalls |-> "idle"] /\ draft = [c \in FileCalls |-> File!EmptyState]
      /\ answer = [c \in FileCalls |-> "none"]
  BY DEF File!Init
<1>2. File!EmptyState \in File!States
  BY FileAssumption DEF File!EmptyState, File!States
<1>3. File!Valid(File!EmptyState)
  BY DEF File!EmptyState, File!Valid
<1>4. \A c \in FileCalls : c \notin File!EmptyState.value
  BY DEF File!EmptyState
<1>5. \A c \in FileCalls : FileCallInv(c)
  BY <1>1, <1>4 DEF FileCallInv, File!Running
<1>6. File!TypeOK
  BY <1>1, <1>2 DEF File!TypeOK
<1>q. QED BY <1>1, <1>2, <1>3, <1>5, <1>6, ExtendsItself DEF FileInv

\* A call that runs holds the lock, so none of the others does.
LEMMA RunsAlone ==
    ASSUME FileInv, NEW c \in FileCalls, lockFile = c, NEW d \in FileCalls, d # c
    PROVE  ~ File!Running(d)
  BY DEF FileInv, FileCallInv

\* The state file stays.
LEMMA FileCallMoves ==
    ASSUME FileInv, NEW c \in FileCalls, onDisk' = onDisk, durable' = durable,
           \A d \in FileCalls \ {c} : at'[d] = at[d] /\ draft'[d] = draft[d] /\ answer'[d] = answer[d],
           lockFile' = lockFile \/ \A d \in FileCalls \ {c} : ~ File!Running(d),
           FileCallInv(c)', File!TypeOK'
    PROVE  FileInv'
<1>1. ASSUME NEW d \in FileCalls \ {c} PROVE FileCallInv(d)'
  <2>1. FileCallInv(d)
    BY DEF FileInv
  <2>2. lockFile' = lockFile \/ ~ File!Running(d)
    OBVIOUS
  <2>q. QED BY <2>1, <2>2 DEF FileCallInv, File!Running
<1>2. File!Valid(onDisk)' /\ File!Valid(durable)' /\ Extends(durable, onDisk)'
  BY DEF FileInv, File!Valid, Extends
<1>q. QED BY <1>1, <1>2 DEF FileInv

LEMMA AcquireKeeps ==
    ASSUME FileInv, NEW c \in FileCalls, File!AcquireLock(c)
    PROVE  FileInv'
<1>1. /\ at[c] = "idle" /\ answer[c] = "none" /\ FileCallInv(c)
      /\ onDisk' = onDisk /\ durable' = durable /\ draft' = draft
  BY DEF File!AcquireLock, FileInv, FileCallInv
<1>2. \E w \in {"done", "loading"} : \E r \in {"locked", "failed", "none"} :
        /\ at' = [at EXCEPT ![c] = w] /\ answer' = [answer EXCEPT ![c] = r]
        /\ \/ lockFile' = lockFile /\ w = "done"
           \/ lockFile = "free" /\ lockFile' = c /\ r = "none"
           \/ lockFile = "free" /\ lockFile' = "stale" /\ w = "done"
  <2>1. answer' = answer => answer' = [answer EXCEPT ![c] = "none"]
    BY <1>1 DEF FileInv, File!TypeOK
  <2>q. QED BY <2>1 DEF File!AcquireLock, File!Goes, File!Told
<1>3. PICK w \in {"done", "loading"}, r \in {"locked", "failed", "none"} :
        /\ at' = [at EXCEPT ![c] = w] /\ answer' = [answer EXCEPT ![c] = r]
        /\ \/ lockFile' = lockFile /\ w = "done"
           \/ lockFile = "free" /\ lockFile' = c /\ r = "none"
           \/ lockFile = "free" /\ lockFile' = "stale" /\ w = "done"
  BY <1>2
<1>4. at'[c] = w /\ answer'[c] = r
  BY <1>3 DEF FileInv, File!TypeOK
<1>5. \A d \in FileCalls \ {c} : at'[d] = at[d] /\ draft'[d] = draft[d] /\ answer'[d] = answer[d]
  BY <1>1, <1>3 DEF FileInv, File!TypeOK
<1>6. lockFile' = lockFile \/ \A d \in FileCalls \ {c} : ~ File!Running(d)
  <2>1. lockFile = "free" => \A d \in FileCalls : ~ File!Running(d)
    BY FileAssumption DEF FileInv, FileCallInv
  <2>q. QED BY <1>3, <2>1
<1>7. c \notin onDisk.value
  BY <1>1 DEF FileCallInv
<1>8. FileCallInv(c)'
  BY <1>1, <1>3, <1>4, <1>7 DEF FileCallInv, File!Running
<1>9. File!TypeOK'
  BY <1>1, <1>3 DEF FileInv, File!TypeOK
<1>q. QED BY <1>1, <1>5, <1>6, <1>8, <1>9, FileCallMoves

\* A call that runs and neither writes the file nor its draft moves on.
LEMMA FileCallEnds ==
    ASSUME FileInv, NEW c \in FileCalls, File!Running(c),
           NEW r \in {"none", "failed", "aborted", "committed"}, NEW w \in {"unlocking", "done", "dead"},
           onDisk' = onDisk, durable' = durable, draft' = draft,
           at' = [at EXCEPT ![c] = w], answer' = [answer EXCEPT ![c] = r],
           lockFile' \in {"free", "stale"} \cup FileCalls,
           w = "unlocking" => lockFile' = lockFile,
           r = "aborted" => c \notin onDisk.value,
           r = "committed" => answer[c] = "committed"
    PROVE  FileInv'
<1>1. at'[c] = w /\ answer'[c] = r
  BY DEF FileInv, File!TypeOK
<1>2. \A d \in FileCalls \ {c} : at'[d] = at[d] /\ draft'[d] = draft[d] /\ answer'[d] = answer[d]
  BY DEF FileInv, File!TypeOK
<1>3. FileCallInv(c) /\ lockFile = c
  BY DEF FileInv, FileCallInv
<1>4. \A d \in FileCalls \ {c} : ~ File!Running(d)
  BY <1>3, RunsAlone
<1>5. FileCallInv(c)'
  BY <1>1, <1>3 DEF FileCallInv, File!Running, Extends
<1>6. File!TypeOK'
  BY DEF FileInv, File!TypeOK
<1>q. QED BY <1>2, <1>4, <1>5, <1>6, FileCallMoves

LEMMA OperateKeeps ==
    ASSUME FileInv, NEW c \in FileCalls, File!Operate(c)
    PROVE  FileInv'
<1>1. /\ at[c] = "loading" /\ FileCallInv(c) /\ onDisk \in File!States /\ File!Valid(onDisk)
      /\ onDisk' = onDisk /\ durable' = durable /\ lockFile' = lockFile /\ answer' = answer
  BY DEF File!Operate, FileInv, File!TypeOK
<1>2. /\ c \notin onDisk.value /\ answer[c] = "none" /\ lockFile = c
  BY <1>1 DEF FileCallInv, File!Running
<1>3. \E sealed \in File!States :
        /\ draft' = [draft EXCEPT ![c] = sealed] /\ at' = [at EXCEPT ![c] = "saving"]
        /\ File!Valid(sealed) /\ Extends(onDisk, sealed) /\ sealed.value \subseteq onDisk.value \cup {c}
  <2>1. PICK time \in 1..MaxClock :
          \/ \E writes \in BOOLEAN :
               LET changed == IF writes THEN [onDisk EXCEPT !.value = @ \cup {c}] ELSE onDisk
                   audited == File!Appended(changed, c, time)
                   sealed  == File!Seal(audited, time)
               IN  /\ File!CanAppend(changed, time)
                   /\ File!CanAppend(audited, time)
                   /\ File!Valid(sealed)
                   /\ draft' = [draft EXCEPT ![c] = sealed] /\ File!Goes(c, "saving")
          \/ draft' = [draft EXCEPT ![c] = File!Seal(onDisk, time)] /\ File!Goes(c, "saving")
    BY DEF File!Operate
  <2>2. CASE draft' = [draft EXCEPT ![c] = File!Seal(onDisk, time)] /\ File!Goes(c, "saving")
    <3>1. File!Seal(onDisk, time) = onDisk
      BY <1>1 DEF File!Seal, File!Unchanged, File!Valid
    <3>q. QED BY <1>1, <2>2, <3>1, ExtendsItself DEF File!Goes
  <2>3. ASSUME NEW writes \in BOOLEAN, NEW changed, NEW audited, NEW sealed,
               changed = IF writes THEN [onDisk EXCEPT !.value = @ \cup {c}] ELSE onDisk,
               audited = File!Appended(changed, c, time), sealed = File!Seal(audited, time),
               File!CanAppend(changed, time), File!CanAppend(audited, time), File!Valid(sealed),
               draft' = [draft EXCEPT ![c] = sealed], File!Goes(c, "saving")
        PROVE  \E s \in File!States :
                 /\ draft' = [draft EXCEPT ![c] = s] /\ at' = [at EXCEPT ![c] = "saving"]
                 /\ File!Valid(s) /\ Extends(onDisk, s) /\ s.value \subseteq onDisk.value \cup {c}
    <3>1. PICK v \in SUBSET FileCalls : v = IF writes THEN onDisk.value \cup {c} ELSE onDisk.value
      BY <1>1 DEF File!States
    <3>2. changed = [onDisk EXCEPT !.value = v] /\ onDisk.value \subseteq v
      BY <1>1, <2>3, <3>1 DEF File!States
    <3>3. sealed \in File!States /\ Extends(onDisk, sealed) /\ sealed.value = v
      <4>1. PICK s \in File!States : s = onDisk
        BY <1>1
      <4>2. File!Valid(s) /\ s.value \subseteq v /\ changed = [s EXCEPT !.value = v]
        BY <1>1, <3>2, <4>1
      <4>3. sealed \in File!States /\ Extends(s, sealed) /\ sealed.value = v
        <5>1. /\ audited = File!Appended(changed, c, time)
              /\ File!CanAppend(changed, time) /\ File!CanAppend(audited, time)
          BY <2>3
        <5>2. /\ File!Seal(audited, time) \in File!States /\ Extends(s, File!Seal(audited, time))
              /\ File!Seal(audited, time).value = v
          BY <4>2, <5>1, Sealed
        <5>q. QED BY <2>3, <5>2
      <4>q. QED BY <4>1, <4>3
    <3>q. QED BY <2>3, <3>1, <3>3 DEF File!Goes
  <2>q. QED BY <2>1, <2>2, <2>3
<1>4. PICK sealed \in File!States :
        /\ draft' = [draft EXCEPT ![c] = sealed] /\ at' = [at EXCEPT ![c] = "saving"]
        /\ File!Valid(sealed) /\ Extends(onDisk, sealed) /\ sealed.value \subseteq onDisk.value \cup {c}
  BY <1>3
<1>5. draft'[c] = sealed /\ at'[c] = "saving"
  BY <1>4 DEF FileInv, File!TypeOK
<1>6. \A d \in FileCalls \ {c} : at'[d] = at[d] /\ draft'[d] = draft[d] /\ answer'[d] = answer[d]
  BY <1>1, <1>4 DEF FileInv, File!TypeOK
<1>7. File!Valid(draft[c])' /\ Extends(onDisk, draft[c])' /\ draft'[c].value \subseteq onDisk'.value \cup {c}
  BY <1>1, <1>4, <1>5 DEF File!Valid, Extends
<1>8. FileCallInv(c)'
  BY <1>1, <1>2, <1>5, <1>7 DEF FileCallInv, File!Running
<1>9. File!TypeOK'
  BY <1>1, <1>4 DEF FileInv, File!TypeOK
<1>q. QED BY <1>1, <1>6, <1>8, <1>9, FileCallMoves

LEMMA ReplaceKeeps ==
    ASSUME FileInv, NEW c \in FileCalls, File!Replace(c)
    PROVE  FileInv'
<1>1. /\ at[c] = "saving" /\ FileCallInv(c) /\ lockFile = c /\ answer[c] = "none"
      /\ durable' = durable /\ lockFile' = lockFile /\ draft' = draft
  BY DEF File!Replace, FileInv, FileCallInv, File!Running
<1>2. /\ File!Valid(draft[c]) /\ Extends(onDisk, draft[c])
      /\ draft[c].value \subseteq onDisk.value \cup {c} /\ c \notin onDisk.value
  BY <1>1 DEF FileCallInv
<1>3. CASE onDisk' = draft[c] /\ at' = [at EXCEPT ![c] = "syncing"] /\ answer' = answer
  <2>1. onDisk \in File!States /\ draft[c] \in File!States /\ durable \in File!States
    BY DEF FileInv, File!TypeOK
  <2>2. Extends(durable, draft[c])
    BY <1>2, <2>1, ExtendsOn DEF FileInv
  <2>3. File!TypeOK'
    BY <1>1, <1>3, <2>1 DEF FileInv, File!TypeOK
  <2>4. ASSUME NEW d \in FileCalls, d # c PROVE FileCallInv(d)'
    <3>1. /\ at'[d] = at[d] /\ answer'[d] = answer[d] /\ FileCallInv(d) /\ ~ File!Running(d)
      BY <1>1, <1>3, <2>4, RunsAlone DEF FileInv, File!TypeOK
    <3>2. d \in onDisk'.value => d \in onDisk.value
      BY <1>2, <1>3, <2>4
    <3>q. QED BY <1>1, <3>1, <3>2 DEF FileCallInv, File!Running, Extends
  <2>5. at'[c] = "syncing"
    BY <1>3 DEF FileInv, File!TypeOK
  <2>6. FileCallInv(c)'
    BY <1>1, <1>3, <2>5 DEF FileCallInv
  <2>7. File!Valid(onDisk)' /\ File!Valid(durable)' /\ Extends(durable, onDisk)'
    BY <1>1, <1>2, <1>3, <2>2 DEF FileInv, File!Valid, Extends
  <2>q. QED BY <2>3, <2>4, <2>6, <2>7 DEF FileInv
<1>4. CASE \E why \in {"failed", "aborted"} :
             onDisk' = onDisk /\ at' = [at EXCEPT ![c] = "unlocking"] /\ answer' = [answer EXCEPT ![c] = why]
  BY <1>1, <1>2, <1>4, FileCallEnds DEF File!Running
<1>q. QED BY <1>3, <1>4 DEF File!Replace, File!Goes, File!Told

LEMMA SyncKeeps ==
    ASSUME FileInv, NEW c \in FileCalls, File!SyncDirectory(c)
    PROVE  FileInv'
<1>1. /\ at[c] = "syncing" /\ FileCallInv(c) /\ lockFile = c /\ onDisk = draft[c]
      /\ onDisk' = onDisk /\ lockFile' = lockFile /\ draft' = draft
      /\ at' = [at EXCEPT ![c] = "unlocking"]
  BY DEF File!SyncDirectory, File!Goes, FileInv, FileCallInv, File!Running
<1>2. CASE durable' = onDisk /\ answer' = [answer EXCEPT ![c] = "committed"]
  <2>1. onDisk \in File!States /\ durable \in File!States
    BY DEF FileInv, File!TypeOK
  <2>2. Extends(durable, onDisk) /\ Extends(onDisk, onDisk)
    BY <2>1, ExtendsItself DEF FileInv
  <2>3. File!TypeOK'
    BY <1>1, <1>2, <2>1 DEF FileInv, File!TypeOK
  <2>4. ASSUME NEW d \in FileCalls, d # c PROVE FileCallInv(d)'
    <3>1. /\ at'[d] = at[d] /\ answer'[d] = answer[d] /\ FileCallInv(d) /\ ~ File!Running(d)
      BY <1>1, <1>2, <2>4, RunsAlone DEF FileInv, File!TypeOK
    <3>2. answer[d] = "committed" => Extends(draft[d], onDisk)
      <4>1. draft[d] \in File!States
        BY DEF FileInv, File!TypeOK
      <4>q. QED BY <2>1, <2>2, <3>1, <4>1, ExtendsOn DEF FileCallInv
    <3>3. answer'[d] = "committed" => Extends(draft[d], durable)'
      BY <1>1, <1>2, <3>1, <3>2 DEF Extends
    <3>q. QED BY <1>1, <3>1, <3>3 DEF FileCallInv, File!Running
  <2>5. at'[c] = "unlocking" /\ answer'[c] = "committed"
    BY <1>1, <1>2 DEF FileInv, File!TypeOK
  <2>6. Extends(draft[c], durable)'
    BY <1>1, <1>2, <2>2 DEF Extends
  <2>7. FileCallInv(c)'
    BY <1>1, <2>5, <2>6 DEF FileCallInv
  <2>8. File!Valid(onDisk)' /\ File!Valid(durable)' /\ Extends(durable, onDisk)'
    BY <1>1, <1>2, <2>2 DEF FileInv, File!Valid, Extends
  <2>q. QED BY <2>3, <2>4, <2>7, <2>8 DEF FileInv
<1>3. CASE durable' = durable /\ answer' = [answer EXCEPT ![c] = "failed"]
  BY <1>1, <1>3, FileCallEnds DEF File!Running
<1>q. QED BY <1>2, <1>3 DEF File!SyncDirectory, File!Told

LEMMA EndsKeep ==
    ASSUME FileInv, NEW c \in FileCalls,
           File!OperateFails(c) \/ File!ReleaseLock(c) \/ File!Crash(c)
    PROVE  FileInv'
<1>1. FileCallInv(c) /\ answer \in [FileCalls -> {"none", "locked", "failed", "aborted", "committed"}]
  BY DEF FileInv, File!TypeOK
<1>2. answer' = answer => answer' = [answer EXCEPT ![c] = answer[c]]
  BY <1>1
<1>3. CASE File!OperateFails(c)
  <2>1. at[c] = "loading" /\ c \notin onDisk.value
    BY <1>1, <1>3 DEF File!OperateFails, FileCallInv
  <2>2. PICK why \in {"failed", "aborted"} : answer' = [answer EXCEPT ![c] = why]
    BY <1>3 DEF File!OperateFails, File!Told
  <2>3. lockFile' \in {"free", "stale"} \cup FileCalls
    BY <1>3 DEF File!OperateFails, FileInv, File!TypeOK
  <2>q. QED BY <1>3, <2>1, <2>2, <2>3, FileCallEnds DEF File!OperateFails, File!Goes, File!Running
<1>4. CASE File!ReleaseLock(c)
  <2>1. /\ at[c] = "unlocking" /\ at' = [at EXCEPT ![c] = "done"] /\ lockFile' \in {"free", "stale"}
        /\ onDisk' = onDisk /\ durable' = durable /\ draft' = draft
    BY <1>4 DEF File!ReleaseLock, File!Goes
  <2>2. \E r \in {"failed", answer[c]} : answer' = [answer EXCEPT ![c] = r]
    BY <1>2, <1>4 DEF File!ReleaseLock, File!Told
  <2>3. PICK r \in {"failed", answer[c]} : answer' = [answer EXCEPT ![c] = r]
    BY <2>2
  <2>4. answer[c] # "locked"
    BY <1>1, <2>1 DEF FileCallInv, File!Running
  <2>q. QED BY <1>1, <2>1, <2>3, <2>4, FileCallEnds DEF File!Running, FileCallInv
<1>5. CASE File!Crash(c)
  <2>1. /\ File!Running(c) /\ at' = [at EXCEPT ![c] = "dead"]
        /\ lockFile' = "stale" \/ lockFile' = lockFile
        /\ onDisk' = onDisk /\ durable' = durable /\ draft' = draft
        /\ answer' = [answer EXCEPT ![c] = answer[c]]
    BY <1>2, <1>5 DEF File!Crash, File!Goes
  <2>2. lockFile' \in {"free", "stale"} \cup FileCalls
    BY <2>1 DEF FileInv, File!TypeOK
  <2>q. QED BY <1>1, <2>1, <2>2, FileCallEnds DEF File!Running, FileCallInv
<1>q. QED BY <1>3, <1>4, <1>5

LEMMA PowerLossKeeps == ASSUME FileInv, File!PowerLoss PROVE FileInv'
<1>1. /\ at' = [c \in FileCalls |-> IF File!Running(c) THEN "dead" ELSE at[c]]
      /\ onDisk' \in {onDisk, durable} /\ durable' = onDisk'
      /\ draft' = draft /\ answer' = answer
      /\ lockFile' \in {"free", "stale"}
  <2>1. lockFile' \in {"free"} \/ lockFile' \in {"free", "stale"}
    BY DEF File!PowerLoss
  <2>q. QED BY <2>1 DEF File!PowerLoss
<1>2. onDisk \in File!States /\ durable \in File!States
  BY DEF FileInv, File!TypeOK
<1>3. /\ onDisk' \in File!States /\ File!Valid(onDisk)' /\ File!Valid(durable)'
      /\ onDisk'.value \subseteq onDisk.value
  BY <1>1, <1>2 DEF FileInv, File!Valid, Extends
<1>4. Extends(durable, onDisk)'
  <2>1. Extends(onDisk', onDisk')
    BY <1>3, ExtendsItself
  <2>q. QED BY <1>1, <2>1 DEF Extends
<1>5. File!TypeOK'
  BY <1>1, <1>3 DEF FileInv, File!TypeOK
<1>6. ASSUME NEW c \in FileCalls PROVE FileCallInv(c)'
  <2>1. /\ at'[c] = (IF File!Running(c) THEN "dead" ELSE at[c]) /\ FileCallInv(c)
        /\ draft[c] \in File!States
    BY <1>1 DEF FileInv, File!TypeOK
  <2>2. at'[c] \notin {"loading", "saving", "syncing", "unlocking"}
    BY <2>1 DEF File!Running
  <2>3. c \in onDisk'.value => at'[c] \in {"done", "dead"} /\ answer[c] # "aborted"
    BY <1>3, <2>1 DEF FileCallInv, File!Running
  <2>4. answer[c] = "committed" => Extends(draft[c], onDisk) /\ Extends(draft[c], durable)
    BY <1>2, <2>1, ExtendsOn DEF FileCallInv, FileInv
  <2>5. answer'[c] = "committed" => Extends(draft[c], durable)'
    BY <1>1, <2>4 DEF Extends
  <2>6. at'[c] = "idle" => answer'[c] = "none"
    BY <1>1, <2>1 DEF FileCallInv
  <2>q. QED BY <1>1, <2>2, <2>3, <2>5, <2>6 DEF FileCallInv, File!Running
<1>q. QED BY <1>3, <1>4, <1>5, <1>6 DEF FileInv

LEMMA FileStays == FileInv /\ [File!Next]_file_vars => FileInv'
<1> SUFFICES ASSUME FileInv, [File!Next]_file_vars PROVE FileInv'
  OBVIOUS
<1>1. ASSUME UNCHANGED file_vars PROVE FileInv'
  BY <1>1 DEF file_vars, FileInv, File!TypeOK, File!Valid, Extends, FileCallInv, File!Running
<1>2. ASSUME File!RemoveLock PROVE FileInv'
  <2>1. /\ lockFile = "stale" /\ lockFile' = "free" /\ onDisk' = onDisk /\ durable' = durable
        /\ at' = at /\ draft' = draft /\ answer' = answer
    BY <1>2 DEF File!RemoveLock
  <2>2. ASSUME NEW c \in FileCalls PROVE FileCallInv(c)'
    BY <2>1, FileAssumption DEF FileInv, FileCallInv, File!Running, Extends, File!Valid
  <2>q. QED BY <2>1, <2>2 DEF FileInv, File!TypeOK, File!Valid, Extends
<1>q. QED BY <1>1, <1>2, AcquireKeeps, OperateKeeps, ReplaceKeeps, SyncKeeps, EndsKeep,
             PowerLossKeeps DEF File!Next

LEMMA FileImplies == FileInv => File!TypeOK /\ File!CommittedIsDurable /\ File!AbortedLeavesNothing
<1> SUFFICES ASSUME FileInv
             PROVE  File!CommittedIsDurable /\ File!AbortedLeavesNothing
  BY DEF FileInv
<1>1. onDisk \in File!States /\ durable \in File!States
  BY DEF FileInv, File!TypeOK
<1>2. ASSUME NEW c \in FileCalls, answer[c] = "committed", NEW state \in {onDisk, durable}
      PROVE  /\ draft[c].value \subseteq state.value
             /\ Len(draft[c].audit) <= Len(state.audit)
             /\ SubSeq(state.audit, 1, Len(draft[c].audit)) = draft[c].audit
  <2>1. draft[c] \in File!States /\ Extends(draft[c], durable) /\ Extends(durable, onDisk)
    BY <1>2 DEF FileInv, FileCallInv, File!TypeOK
  <2>2. Extends(draft[c], state) /\ state \in File!States
    BY <1>1, <1>2, <2>1, ExtendsOn
  <2>3. draft[c].audit \in Seq(File!Events) /\ state.audit \in Seq(File!Events)
    BY <2>1, <2>2 DEF File!States
  <2>4. ASSUME NEW s \in Seq(File!Events), NEW t \in Seq(File!Events), Len(s) <= Len(t),
               \A i \in 1..Len(s) : t[i] = s[i]
        PROVE  SubSeq(t, 1, Len(s)) = s
    BY <2>4
  <2>q. QED BY <2>2, <2>3, <2>4 DEF Extends
<1>3. ASSUME NEW c \in FileCalls, answer[c] = "aborted"
      PROVE  c \notin onDisk.value \cup durable.value
  BY <1>3 DEF FileInv, FileCallInv, Extends
<1>4. File!CommittedIsDurable
  BY <1>2 DEF FileInv, File!CommittedIsDurable
<1>5. File!AbortedLeavesNothing
  BY <1>3 DEF File!AbortedLeavesNothing
<1>q. QED BY <1>4, <1>5

-----------------------------------------------------------------------------
(* Scheduler: a target that waits comes nearer to the cursor with every    *)
(* tick over the same list.                                                *)

LEMMA ClockCardinality == \A S : Clock!Cardinality(S) = Cardinality(S)
  BY DEF Clock!Cardinality, Cardinality

LEMMA IsASeqOfLength ==
    ASSUME NEW S, NEW n \in Nat, NEW f \in [1..n -> S]
    PROVE  f \in Seq(S)
  OBVIOUS

\* Numbers can be put in order: each comes where its rank says.
LEMMA OrderExists ==
    ASSUME NEW S \in SUBSET Dataspaces
    PROVE  \E f \in [1..Cardinality(S) -> S] :
             \A i, j \in 1..Cardinality(S) : i < j => f[i] < f[j]
<1> DEFINE UpTo(x) == {y \in S : y <= x}
           n == Cardinality(S)
           rank == [x \in S |-> Cardinality(UpTo(x))]
<1>1. S \subseteq Nat /\ IsFiniteSet(S) /\ n \in Nat
  BY SchedulerAssumption, FS_Subset, FS_CardinalityType
<1>2. ASSUME NEW x \in S
      PROVE  /\ IsFiniteSet(UpTo(x)) /\ Cardinality(UpTo(x)) \in 1..n
  <2>1. UpTo(x) \in SUBSET S /\ x \in UpTo(x)
    BY <1>1
  <2>2. IsFiniteSet(UpTo(x)) /\ Cardinality(UpTo(x)) <= n /\ Cardinality(UpTo(x)) \in Nat
    BY <1>1, <2>1, FS_Subset, FS_CardinalityType
  <2>3. Cardinality(UpTo(x)) # 0
    BY <2>1, <2>2, FS_EmptySet
  <2>q. QED BY <1>1, <2>2, <2>3
<1>3. ASSUME NEW x \in S, NEW y \in S, x < y
      PROVE  Cardinality(UpTo(x)) < Cardinality(UpTo(y))
  <2>1. UpTo(x) \in SUBSET UpTo(y) /\ y \in UpTo(y) /\ y \notin UpTo(x)
    <3>1. x \in Nat /\ y \in Nat /\ ~ (y <= x)
      BY <1>1, <1>3
    <3>2. ASSUME NEW z \in UpTo(x) PROVE z \in UpTo(y)
      <4>1. z \in S /\ z \in Nat /\ z <= x
        BY <1>1
      <4>2. z <= y
        BY <1>3, <3>1, <4>1
      <4>q. QED BY <4>1, <4>2
    <3>3. y <= y
      BY <3>1
    <3>q. QED BY <3>1, <3>2, <3>3
  <2>2. /\ Cardinality(UpTo(x)) <= Cardinality(UpTo(y))
        /\ Cardinality(UpTo(y)) = Cardinality(UpTo(x)) => UpTo(y) = UpTo(x)
    BY <1>2, <2>1, FS_Subset
  <2>3. Cardinality(UpTo(x)) \in Nat /\ Cardinality(UpTo(y)) \in Nat
    BY <1>2, <1>1
  <2>q. QED BY <2>1, <2>2, <2>3
<1> HIDE DEF UpTo
<1>4. rank \in [S -> 1..n]
  BY <1>2
<1>5. \A x, y \in S : rank[x] = rank[y] => x = y
  <2> SUFFICES ASSUME NEW x \in S, NEW y \in S, x # y PROVE rank[x] # rank[y]
    OBVIOUS
  <2>1. x < y \/ y < x
    BY <1>1
  <2>2. Cardinality(UpTo(x)) \in Nat /\ Cardinality(UpTo(y)) \in Nat
    BY <1>1, <1>2
  <2>q. QED BY <1>3, <2>1, <2>2
<1>6. rank \in Surjection(S, 1..n)
  <2>1. rank \in Injection(S, 1..n)
    BY <1>4, <1>5 DEF Injection, IsInjective
  <2>2. IsFiniteSet(1..n) /\ Cardinality(1..n) = n
    BY <1>1, FS_Interval
  <2>q. QED BY <2>1, <2>2, FS_Injection
<1>7. \A i \in 1..n : \E x \in S : rank[x] = i
  BY <1>6 DEF Surjection
<1> DEFINE f == [i \in 1..n |-> CHOOSE x \in S : rank[x] = i]
<1>8. \A i \in 1..n : f[i] \in S /\ rank[f[i]] = i
  BY <1>7
<1> HIDE DEF f
<1>9. ASSUME NEW i \in 1..n, NEW j \in 1..n, i < j PROVE f[i] < f[j]
  <2>1. f[i] \in S /\ f[j] \in S /\ rank[f[i]] = i /\ rank[f[j]] = j
    BY <1>8
  <2>2. f[i] = f[j] \/ f[i] < f[j] \/ f[j] < f[i]
    <3>1. \A x, y \in Nat : x = y \/ x < y \/ y < x
      OBVIOUS
    <3>q. QED BY <1>1, <2>1, <3>1
  <2>3. ~ (f[j] < f[i])
    <3>1. ASSUME f[j] < f[i] PROVE rank[f[j]] < rank[f[i]]
      BY <1>3, <2>1, <3>1
    <3>q. QED BY <1>1, <1>9, <2>1, <3>1
  <2>q. QED BY <1>1, <1>9, <2>1, <2>2, <2>3
<1>10. f \in [1..n -> S]
  BY <1>8 DEF f
<1>q. QED BY <1>9, <1>10

LEMMA SortedIsAList ==
    ASSUME NEW S \in SUBSET Dataspaces
    PROVE  Clock!Sorted(S) \in Seq(Dataspaces)
<1> DEFINE n == Cardinality(S)
           Ordered(f) == \A i, j \in DOMAIN f : i < j => f[i] < f[j]
<1>1. PICK f \in [1..n -> S] : \A i, j \in 1..n : i < j => f[i] < f[j]
  BY OrderExists
<1>2. S \subseteq Nat /\ n \in Nat
  BY SchedulerAssumption, FS_Subset, FS_CardinalityType
<1>3. \A i, j \in 1..n : i # j => f[i] # f[j]
  <2> SUFFICES ASSUME NEW i \in 1..n, NEW j \in 1..n, i # j PROVE f[i] # f[j]
    OBVIOUS
  <2>1. i < j \/ j < i
    BY <1>2
  <2>2. f[i] < f[j] \/ f[j] < f[i]
    BY <1>1, <2>1
  <2>3. f[i] \in Nat /\ f[j] \in Nat
    BY <1>1, <1>2
  <2>4. \A x \in Nat : ~ (x < x)
    OBVIOUS
  <2>q. QED BY <2>2, <2>3, <2>4
<1>4. f \in Clock!SetToSeqs(S) /\ Ordered(f)
  BY <1>1, <1>3, ClockCardinality DEF Clock!SetToSeqs
<1>5. Clock!Sorted(S) \in Clock!SetToSeqs(S)
  BY <1>4 DEF Clock!Sorted
<1>6. Clock!Sorted(S) \in [1..n -> S]
  BY <1>5, ClockCardinality DEF Clock!SetToSeqs
<1>7. Clock!Sorted(S) \in [1..n -> Dataspaces]
  BY <1>6
<1>q. QED BY <1>2, <1>7, IsASeqOfLength

LEMMA AroundTheList ==
    ASSUME NEW n \in Nat \ {0}, NEW c \in 0..(n - 1), NEW k \in 0..n
    PROVE  (c + k) % n = IF c + k < n THEN c + k ELSE c + k - n
  OBVIOUS

Ticks == [at : {"none", "scanning", "reconciling", "reading"}, todo : Seq(Dataspaces),
          failed : BOOLEAN, unread : SUBSET Dataspaces, backlog : BOOLEAN]

ClockTyped ==
    /\ due \in SUBSET Dataspaces
    /\ outcome \in [Dataspaces -> {"settled", "failing"}]
    /\ cursor \in Nat
    /\ tick \in Ticks
    /\ failures \in BOOLEAN /\ ill \in SUBSET Dataspaces
    /\ running \in BOOLEAN /\ aborted \in BOOLEAN /\ fatal \in BOOLEAN /\ completed \in BOOLEAN
    /\ waited \in [Dataspaces -> Nat]
    /\ lastList \in Seq(Dataspaces)

\* What a tick over a list of n takes, and how far ahead of c the i-th target is.
Takes(n) == Clock!Smaller(n, MaxPerTick)
Ahead(c, n, i) == IF c < i THEN i - 1 - c ELSE i - 1 - c + n

ToDo == {tick.todo[i] : i \in DOMAIN tick.todo}

\* The ticks a target has waited for, and the way to it, are one round.
OneRound(i) ==
    LET d == lastList[i]
        n == Len(lastList)
    IN  /\ waited[d] > 0 => (waited[d] - 1) * Takes(n) < n
        /\ d \in ToDo \/ waited[d] * Takes(n) + Ahead(cursor, n, i) < n

ClockInv ==
    /\ ClockTyped
    /\ tick.at # "reconciling" => tick.todo = <<>>
    /\ aborted => lastList = <<>>
    /\ lastList # <<>> => cursor < Len(lastList)
    /\ \A d \in Dataspaces : waited[d] > 0 => \E i \in 1..Len(lastList) : lastList[i] = d
    /\ \A i \in 1..Len(lastList) : OneRound(i)

LEMMA AheadInRange ==
    ASSUME NEW n \in Nat \ {0}, NEW c \in 0..(n - 1), NEW i \in 1..n
    PROVE  Ahead(c, n, i) \in 0..(n - 1)
  BY DEF Ahead

LEMMA TakesInRange ==
    ASSUME NEW n \in Nat
    PROVE  Takes(n) \in 0..n /\ Takes(n) <= MaxPerTick
  BY SchedulerAssumption DEF Takes, Clock!Smaller

LEMMA ClockStarts == Clock!Init => ClockInv
<1> SUFFICES ASSUME Clock!Init PROVE ClockInv
  OBVIOUS
<1>1. /\ due \in SUBSET Dataspaces /\ outcome = [d \in Dataspaces |-> "settled"] /\ cursor = 0
      /\ tick = Clock!NoTick /\ running = FALSE /\ aborted = FALSE /\ failures = FALSE /\ fatal = FALSE
      /\ ill = {} /\ completed = FALSE /\ lastList = <<>> /\ waited = [d \in Dataspaces |-> 0]
  BY DEF Clock!Init
<1>2. Clock!NoTick \in Ticks /\ Clock!NoTick.todo = <<>>
  BY DEF Clock!NoTick, Ticks
<1>3. lastList \in Seq(Dataspaces) /\ Len(lastList) = 0
  BY <1>1
<1>4. ClockTyped
  BY <1>1, <1>2, <1>3 DEF ClockTyped
<1>q. QED BY <1>1, <1>2, <1>3, <1>4 DEF ClockInv

\* A step that leaves the list, the cursor and the turns, and forgets no target.
LEMMA TurnsStay ==
    ASSUME ClockInv, ClockTyped', cursor' = cursor, lastList' = lastList, waited' = waited,
           ToDo \subseteq ToDo', aborted' => aborted,
           tick'.at # "reconciling" => tick'.todo = <<>>
    PROVE  ClockInv'
  BY DEF ClockInv, OneRound

LEMMA NothingToDo ==
    ASSUME ClockTyped, tick.todo = <<>>
    PROVE  ToDo = {}
  BY DEF ToDo

\* The targets up to the count a tick takes are taken.
LEMMA NearTargetsAreTaken ==
    ASSUME NEW list \in Seq(Dataspaces), list # <<>>, NEW start \in 0..(Len(list) - 1),
           NEW count, count = Takes(Len(list)), NEW i \in 1..Len(list),
           Ahead(start, Len(list), i) < count
    PROVE  \E j \in DOMAIN Clock!Taken(list, start, count) :
             Clock!Taken(list, start, count)[j] = list[i]
<1>a. PICK n \in Nat \ {0} : n = Len(list)
  OBVIOUS
<1>b. PICK a \in 0..(n - 1) : a = Ahead(start, n, i)
  BY <1>a, AheadInRange
<1>1. start \in 0..(n - 1) /\ i \in 1..n /\ a \in 0..n /\ a < count /\ count \in 0..n
  BY <1>a, <1>b, TakesInRange
<1>2. (start + a) % n = i - 1
  <2>1. (start + a) % n = IF start + a < n THEN start + a ELSE start + a - n
    BY <1>1, AroundTheList
  <2>q. QED BY <1>b, <1>1, <2>1 DEF Ahead
<1>3. a + 1 \in 1..count /\ start + (a + 1) - 1 = start + a
  BY <1>1
<1>4. Clock!Taken(list, start, count)[a + 1] = list[((start + (a + 1) - 1) % n) + 1]
  BY <1>a, <1>3 DEF Clock!Taken
<1>5. Clock!Taken(list, start, count)[a + 1] = list[i]
  BY <1>2, <1>3, <1>4
<1>q. QED BY <1>3, <1>5 DEF Clock!Taken

LEMMA TakenIsAList ==
    ASSUME NEW list \in Seq(Dataspaces), NEW start \in Nat, NEW count, count = Takes(Len(list))
    PROVE  Clock!Taken(list, start, count) \in Seq(Dataspaces)
<1>1. Len(list) \in Nat /\ count \in 0..Len(list)
  BY TakesInRange
<1>2. ASSUME NEW i \in 1..count PROVE list[((start + i - 1) % Len(list)) + 1] \in Dataspaces
  <2>1. Len(list) \in Nat \ {0} /\ start + i - 1 \in Nat
    BY <1>1
  <2>2. (start + i - 1) % Len(list) \in 0..(Len(list) - 1)
    BY <2>1
  <2>q. QED BY <2>1, <2>2
<1>3. Clock!Taken(list, start, count) \in [1..count -> Dataspaces]
  BY <1>2 DEF Clock!Taken
<1>q. QED BY <1>1, <1>3, IsASeqOfLength

\* A tick over some list takes the nearest targets, and comes nearer to the rest.
LEMMA ScanTurns ==
    ASSUME NEW n \in Nat \ {0}, NEW start \in 0..(n - 1), NEW c,
           c = (start + Takes(n)) % n, NEW i \in 1..n, Ahead(start, n, i) >= Takes(n)
    PROVE  Ahead(c, n, i) = Ahead(start, n, i) - Takes(n)
<1>1. PICK count \in 0..n : count = Takes(n)
  BY TakesInRange
<1>2. c = IF start + count < n THEN start + count ELSE start + count - n
  BY <1>1, AroundTheList
<1>q. QED BY <1>1, <1>2 DEF Ahead

LEMMA Rounds ==
    ASSUME NEW w \in Nat, NEW k \in Nat, NEW a \in Int
    PROVE  /\ (w + 1 - 1) * k = w * k
           /\ (w + 1) * k + (a - k) = w * k + a
           /\ 0 * k = 0 /\ w * k \in Nat
  OBVIOUS

LEMMA ScanKeeps == ASSUME ClockInv, Clock!Scan PROVE ClockInv'
<1>1. PICK list \in Seq(Dataspaces) : list = Clock!Sorted(due)
  BY SortedIsAList DEF ClockInv, ClockTyped
<1>2. PICK n \in Nat : n = Len(list)
  OBVIOUS
<1>3. PICK count \in 0..n : count = Takes(n)
  BY TakesInRange
<1>4. PICK start \in Nat : start = IF list = <<>> THEN 0 ELSE cursor % n
  BY <1>2 DEF ClockInv, ClockTyped
<1>5. PICK todo \in Seq(Dataspaces) : todo = Clock!Taken(list, start, count)
  BY <1>2, <1>3, TakenIsAList
<1>6. /\ tick.at = "scanning" /\ ~ aborted
      /\ tick' = [tick EXCEPT !.at = "reconciling", !.todo = todo]
      /\ cursor' = IF count = 0 THEN 0 ELSE Clock!NextCursor(start, count, n)
      /\ lastList' = list /\ waited' = Clock!Waits(list)
      /\ UNCHANGED <<due, outcome, running, aborted, failures, fatal, completed, ill>>
  BY <1>1, <1>2, <1>3, <1>4, <1>5 DEF Clock!Scan, Takes, Clock!report
<1>7. tick \in Ticks /\ waited \in [Dataspaces -> Nat] /\ tick.todo = <<>>
  BY <1>6 DEF ClockInv, ClockTyped
<1>8. tick' \in Ticks /\ tick'.at = "reconciling" /\ tick'.todo = todo
  BY <1>6, <1>7 DEF Ticks
<1>9. ASSUME NEW d \in Dataspaces
      PROVE  waited'[d] = IF d \notin {list[i] : i \in 1..n} THEN 0
                          ELSE IF list = lastList THEN waited[d] + 1 ELSE 1
  BY <1>2, <1>6 DEF Clock!Waits, Clock!ToSet
<1>10. waited' \in [Dataspaces -> Nat]
  <2>1. \A d \in Dataspaces : waited'[d] \in Nat
    BY <1>7, <1>9
  <2>2. waited' = [d \in Dataspaces |-> waited'[d]]
    BY <1>6 DEF Clock!Waits
  <2>q. QED BY <2>1, <2>2
<1>11. n # 0 => start \in 0..(n - 1)
  BY <1>2, <1>4 DEF ClockInv, ClockTyped
<1>12. cursor' \in Nat /\ (n # 0 => cursor' < n)
  <2>1. CASE count = 0
    BY <1>6, <2>1
  <2>2. CASE count # 0
    <3>1. cursor' = (start + count) % n /\ n \in Nat \ {0} /\ start + count \in Nat
      BY <1>6, <2>2 DEF Clock!NextCursor
    <3>q. QED BY <3>1
  <2>q. QED BY <2>1, <2>2
<1>13. ClockTyped'
  BY <1>6, <1>8, <1>10, <1>12 DEF ClockInv, ClockTyped
<1>14. ASSUME NEW i \in 1..Len(list) PROVE OneRound(i)'
  <2>1. n \in Nat \ {0} /\ i \in 1..n /\ start \in 0..(n - 1)
    BY <1>2, <1>11
  <2>2. PICK d \in Dataspaces : d = list[i]
    BY <1>2
  <2>3. PICK a \in 0..(n - 1) : a = Ahead(start, n, i)
    BY <2>1, AheadInRange
  <2>4. waited'[d] = IF list = lastList THEN waited[d] + 1 ELSE 1
    BY <1>9, <2>1, <2>2
  <2>5. PICK w \in Nat : waited'[d] = w + 1 /\ w * count + a < n
    <3>1. CASE list = lastList
      <4>1. OneRound(i) /\ ToDo = {}
        BY <1>2, <1>7, <3>1, NothingToDo DEF ClockInv
      <4>2. waited[d] * count + Ahead(cursor, n, i) < n
        BY <1>2, <1>3, <2>2, <3>1, <4>1 DEF OneRound
      <4>3. list # <<>> /\ cursor \in Nat /\ cursor < n
        BY <1>2, <2>1, <3>1 DEF ClockInv, ClockTyped
      <4>4. start = cursor
        BY <1>4, <2>1, <4>3
      <4>q. QED BY <1>7, <2>3, <2>4, <3>1, <4>2, <4>4
    <3>2. CASE list # lastList
      <4>1. 0 * count = 0
        BY Rounds
      <4>q. QED BY <2>3, <2>4, <3>2, <4>1
    <3>q. QED BY <3>1, <3>2
  <2>6. w * count < n
    BY <2>5, Rounds
  <2>7. (waited'[d] - 1) * count < n
    BY <2>5, <2>6
  <2>8. d \in ToDo' \/ waited'[d] * count + Ahead(cursor', n, i) < n
    <3>1. CASE a < count
      <4>1. \E j \in DOMAIN todo : todo[j] = list[i]
        BY <1>2, <1>3, <1>5, <2>1, <2>3, <3>1, NearTargetsAreTaken
      <4>q. QED BY <1>8, <2>2, <4>1 DEF ToDo
    <3>2. CASE ~ (a < count)
      <4>1. CASE count = 0
        <5>1. cursor' = 0 /\ Ahead(0, n, i) \in 0..(n - 1)
          <6>1. 0 \in 0..(n - 1)
            BY <2>1
          <6>q. QED BY <1>6, <2>1, <4>1, <6>1, AheadInRange
        <5>2. (w + 1) * 0 = 0
          OBVIOUS
        <5>q. QED BY <2>5, <4>1, <5>1, <5>2
      <4>2. CASE count # 0
        <5>1. cursor' = (start + Takes(n)) % n
          BY <1>3, <1>6, <4>2 DEF Clock!NextCursor
        <5>2. Ahead(start, n, i) >= Takes(n)
          BY <1>3, <2>3, <3>2
        <5>3. Ahead(cursor', n, i) = a - count
          BY <1>3, <2>1, <2>3, <5>1, <5>2, ScanTurns
        <5>4. (w + 1) * count + (a - count) = w * count + a
          BY Rounds
        <5>q. QED BY <2>5, <5>3, <5>4
      <4>q. QED BY <4>1, <4>2
    <3>q. QED BY <3>1, <3>2
  <2>q. QED BY <1>2, <1>3, <1>6, <2>2, <2>7, <2>8 DEF OneRound
<1>15. \A d \in Dataspaces : waited'[d] > 0 => \E i \in 1..Len(list) : list[i] = d
  BY <1>2, <1>9
<1>q. QED BY <1>2, <1>6, <1>8, <1>12, <1>13, <1>14, <1>15 DEF ClockInv

LEMMA TailOfAList ==
    ASSUME NEW S, NEW q \in Seq(S), q # <<>>
    PROVE  /\ Tail(q) \in Seq(S)
           /\ \A j \in 2..Len(q) : j - 1 \in DOMAIN Tail(q) /\ Tail(q)[j - 1] = q[j]
  OBVIOUS

LEMMA ReconcileKeeps == ASSUME ClockInv, Clock!Reconcile PROVE ClockInv'
<1>1. /\ tick.at = "reconciling" /\ tick.todo # <<>> /\ ~ aborted
      /\ waited' = [waited EXCEPT ![Head(tick.todo)] = 0]
      /\ UNCHANGED <<cursor, running, aborted, failures, fatal, completed, lastList, ill>>
  BY DEF Clock!Reconcile, Clock!report
<1>2. tick \in Ticks /\ tick.todo \in Seq(Dataspaces)
  BY DEF ClockInv, ClockTyped, Ticks
<1>3. PICK d \in Dataspaces : d = Head(tick.todo)
  BY <1>1, <1>2
<1>4. PICK rest \in Seq(Dataspaces) :
        rest = Tail(tick.todo) /\ \A j \in 2..Len(tick.todo) : j - 1 \in DOMAIN rest /\ rest[j - 1] = tick.todo[j]
  BY <1>1, <1>2, TailOfAList
<1>5. /\ outcome' \in [Dataspaces -> {"settled", "failing"}] /\ due' \in SUBSET Dataspaces
      /\ tick' \in Ticks /\ tick'.at = "reconciling" /\ tick'.todo = rest
  <2>1. /\ \/ \E result \in {"settled", "failing"} : outcome' = [outcome EXCEPT ![d] = result]
           \/ outcome' = outcome
        /\ due' \in {due, due \ {d}}
        /\ tick' \in {[tick EXCEPT !.todo = rest], [tick EXCEPT !.todo = rest, !.failed = TRUE]}
    BY <1>3, <1>4 DEF Clock!Reconcile
  <2>2. outcome' \in [Dataspaces -> {"settled", "failing"}] /\ due' \in SUBSET Dataspaces
    BY <2>1 DEF ClockInv, ClockTyped
  <2>3. tick' \in Ticks /\ tick'.at = "reconciling" /\ tick'.todo = rest
    BY <1>1, <1>2, <2>1 DEF Ticks
  <2>q. QED BY <2>2, <2>3
<1>6. ClockTyped'
  BY <1>1, <1>3, <1>5 DEF ClockInv, ClockTyped
<1>7. \A e \in ToDo : e = d \/ e \in ToDo'
  <2> SUFFICES ASSUME NEW j \in DOMAIN tick.todo, j # 1
               PROVE  \E k \in DOMAIN rest : rest[k] = tick.todo[j]
    BY <1>1, <1>2, <1>3, <1>5 DEF ToDo
  <2>1. j - 1 \in DOMAIN rest /\ rest[j - 1] = tick.todo[j]
    BY <1>1, <1>2, <1>4
  <2>q. QED BY <2>1
<1>8. ASSUME NEW i \in 1..Len(lastList) PROVE OneRound(i)'
  <2>1. PICK n \in Nat \ {0} : n = Len(lastList)
    BY DEF ClockInv, ClockTyped
  <2>2. cursor \in 0..(n - 1)
    BY <2>1 DEF ClockInv, ClockTyped
  <2>3. lastList[i] \in Dataspaces /\ OneRound(i) /\ waited \in [Dataspaces -> Nat]
    BY DEF ClockInv, ClockTyped
  <2>4. CASE lastList[i] = d
    <3>0. waited'[d] = 0
      BY <1>1, <1>3, <2>3
    <3>1. Ahead(cursor, n, i) < n
      <4>1. i \in 1..n
        BY <2>1
      <4>2. Ahead(cursor, n, i) \in 0..(n - 1)
        BY <2>1, <2>2, <4>1, AheadInRange
      <4>q. QED BY <2>1, <4>2
    <3>2. PICK count \in Nat : count = Takes(n)
      BY <2>1, TakesInRange
    <3>3. 0 * count = 0
      BY Rounds
    <3>4. Ahead(cursor, n, i) \in Int
      BY <2>1, <2>2, AheadInRange
    <3>q. QED BY <1>1, <2>1, <2>4, <3>0, <3>1, <3>2, <3>3, <3>4 DEF OneRound
  <2>5. CASE lastList[i] # d
    <3>1. waited'[lastList[i]] = waited[lastList[i]]
      BY <1>1, <1>3, <2>3, <2>5
    <3>2. lastList[i] \in ToDo => lastList[i] \in ToDo'
      BY <1>7, <2>5
    <3>q. QED BY <1>1, <2>3, <3>1, <3>2 DEF OneRound
  <2>q. QED BY <2>4, <2>5
<1>9. \A e \in Dataspaces : waited'[e] > 0 => waited[e] > 0
  BY <1>1, <1>3 DEF ClockInv, ClockTyped
<1>q. QED BY <1>1, <1>5, <1>6, <1>8, <1>9 DEF ClockInv

LEMMA ClockStays == ClockInv /\ [Clock!Next]_clock_vars => ClockInv'
<1> SUFFICES ASSUME ClockInv, [Clock!Next]_clock_vars PROVE ClockInv'
  OBVIOUS
<1>0. ClockTyped /\ Clock!NoTick \in Ticks /\ Clock!NoTick.todo = <<>> /\ Clock!NoTick.at = "none"
  BY DEF ClockInv, Clock!NoTick, Ticks
<1>1. ASSUME Clock!Launch PROVE ClockInv'
  <2>1. /\ tick = Clock!NoTick /\ tick' = [Clock!NoTick EXCEPT !.at = "scanning"] /\ aborted' = FALSE
        /\ UNCHANGED <<due, outcome, cursor, running, failures, fatal, completed, lastList, waited, ill>>
    BY <1>1 DEF Clock!Launch, Clock!report, Clock!history
  <2>2. tick' \in Ticks /\ tick'.at = "scanning" /\ tick'.todo = <<>>
    BY <1>0, <2>1 DEF Ticks
  <2>3. ToDo = {}
    BY <1>0, <2>1, NothingToDo
  <2>q. QED BY <1>0, <2>1, <2>2, <2>3, TurnsStay DEF ClockTyped
<1>2. ASSUME Clock!ScanFails \/ Clock!Report \/ Clock!BacklogFails PROVE ClockInv'
  <2>1. /\ tick' = Clock!NoTick /\ completed' = TRUE /\ ill' = {}
        /\ tick.at \in {"scanning", "reading"}
        /\ UNCHANGED <<due, outcome, cursor, running, aborted, lastList, waited>>
    BY <1>2 DEF Clock!ScanFails, Clock!Report, Clock!BacklogFails, Clock!Finished, Clock!history
  <2>2. failures' \in BOOLEAN /\ fatal' \in BOOLEAN
    <3>1. tick.failed \in BOOLEAN /\ tick.backlog \in BOOLEAN
      BY <1>0 DEF ClockTyped, Ticks
    <3>q. QED
      BY <1>2, <3>1 DEF Clock!ScanFails, Clock!Report, Clock!BacklogFails, Clock!Finished, Clock!Backlog
  <2>3. ToDo = {}
    BY <1>0, <2>1, NothingToDo DEF ClockInv
  <2>q. QED BY <1>0, <2>1, <2>2, <2>3, TurnsStay DEF ClockTyped
<1>3. ASSUME Clock!AbortTick PROVE ClockInv'
  <2>1. /\ aborted /\ tick' = Clock!NoTick /\ ill' = {}
        /\ UNCHANGED <<due, outcome, cursor, running, aborted, failures, fatal, completed, lastList, waited>>
    BY <1>3 DEF Clock!AbortTick, Clock!report, Clock!history
  <2>2. lastList = <<>> /\ Len(lastList) = 0
    BY <2>1 DEF ClockInv
  <2>q. QED BY <1>0, <2>1, <2>2 DEF ClockInv, ClockTyped
<1>4. ASSUME Clock!Start PROVE ClockInv'
  BY <1>0, <1>4, TurnsStay DEF Clock!Start, Clock!report, Clock!history, ClockTyped, ClockInv, ToDo
<1>5. ASSUME Clock!Stop PROVE ClockInv'
  <2>1. /\ running' = FALSE /\ waited' = [d \in Dataspaces |-> 0] /\ lastList' = <<>>
        /\ UNCHANGED <<due, outcome, cursor, tick, failures, fatal, completed, ill>>
    BY <1>5 DEF Clock!Stop, Clock!report
  <2>2. aborted' \in BOOLEAN
    BY <1>5 DEF Clock!Stop
  <2>3. lastList' \in Seq(Dataspaces) /\ Len(lastList') = 0
    BY <2>1
  <2>4. ClockTyped'
    BY <1>0, <2>1, <2>2, <2>3 DEF ClockTyped
  <2>q. QED BY <2>1, <2>3, <2>4 DEF ClockInv
<1>6. ASSUME Clock!BecomesDue PROVE ClockInv'
  BY <1>0, <1>6, TurnsStay DEF Clock!BecomesDue, Clock!report, Clock!history, ClockTyped, ClockInv, ToDo
<1>7. ASSUME Clock!ReconciledByCall PROVE ClockInv'
  BY <1>0, <1>7, TurnsStay
  DEF Clock!ReconciledByCall, Clock!report, Clock!history, ClockTyped, ClockInv, ToDo
<1>8. ASSUME UNCHANGED clock_vars PROVE ClockInv'
  BY <1>0, <1>8, TurnsStay DEF clock_vars, ClockTyped, ClockInv, ToDo
<1>9. ASSUME Clock!ListBacklog \/ Clock!ReadRecord PROVE ClockInv'
  <2> DEFINE Reading == /\ tick'.at = "reading" /\ tick.todo = <<>> /\ tick'.todo = <<>>
                        /\ tick' \in Ticks /\ ill' \in SUBSET Dataspaces
  <2>0. tick \in Ticks /\ ill \in SUBSET Dataspaces
    BY <1>0 DEF ClockTyped
  <2>a. ASSUME Clock!ListBacklog PROVE Reading
    <3>1. tick' = [tick EXCEPT !.at = "reading", !.unread = Dataspaces] /\ tick.todo = <<>>
      BY <2>a DEF Clock!ListBacklog
    <3>2. ill' \in SUBSET Dataspaces
      BY <2>a DEF Clock!ListBacklog, Clock!Failing
    <3>q. QED BY <2>0, <3>1, <3>2 DEF Ticks
  <2>b. ASSUME Clock!ReadRecord PROVE Reading
    <3>1. PICK d \in tick.unread :
            tick' = [tick EXCEPT !.unread = @ \ {d}, !.backlog = @ \/ d \in Clock!Failing]
      BY <2>b DEF Clock!ReadRecord
    <3>2. tick.todo = <<>> /\ ill' = ill /\ tick.at = "reading"
      BY <2>b DEF Clock!ReadRecord, ClockInv
    <3>3. (tick.backlog \/ d \in Clock!Failing) \in BOOLEAN
      OBVIOUS
    <3>4. PICK b \in BOOLEAN : tick' = [tick EXCEPT !.unread = @ \ {d}, !.backlog = b]
      BY <3>1, <3>3
    <3>q. QED BY <2>0, <3>2, <3>4 DEF Ticks
  <2>1. Reading
    BY <1>9, <2>a, <2>b
  <2>2. UNCHANGED <<due, outcome, cursor, running, aborted, failures, fatal, completed, lastList, waited>>
    BY <1>9 DEF Clock!ListBacklog, Clock!ReadRecord, Clock!report, Clock!history
  <2>3. ToDo = {}
    BY <1>0, <2>1, NothingToDo
  <2>q. QED BY <1>0, <2>1, <2>2, <2>3, TurnsStay DEF ClockTyped
<1>q. QED
  BY <1>1, <1>2, <1>3, <1>4, <1>5, <1>6, <1>7, <1>8, <1>9, ScanKeeps, ReconcileKeeps DEF Clock!Next

\* What has been failing since the tick began to read the backlog is still to be
\* read, or the tick knows of a failure.
BacklogInv ==
    /\ ill \subseteq Clock!Failing
    /\ tick.at # "reading" => ill = {}
    /\ tick.at = "reading" => tick.backlog \/ ill \subseteq tick.unread

LEMMA BacklogStarts == Clock!Init => BacklogInv
  BY DEF Clock!Init, Clock!NoTick, BacklogInv

LEMMA BacklogStays ==
    ASSUME ClockInv, BacklogInv, [Clock!Next]_clock_vars
    PROVE  BacklogInv'
<1>0. tick \in Ticks /\ outcome \in [Dataspaces -> {"settled", "failing"}]
  BY DEF ClockInv, ClockTyped
<1>1. ASSUME Clock!ScanFails \/ Clock!Report \/ Clock!BacklogFails \/ Clock!AbortTick
      PROVE  BacklogInv'
  BY <1>1 DEF Clock!ScanFails, Clock!Report, Clock!BacklogFails, Clock!AbortTick, Clock!Finished,
     Clock!NoTick, BacklogInv
<1>2. ASSUME Clock!Launch \/ Clock!Scan PROVE BacklogInv'
  <2>1. UNCHANGED <<outcome, ill>>
    BY <1>2 DEF Clock!Launch, Clock!Scan
  <2>2. ASSUME Clock!Launch PROVE tick.at # "reading" /\ tick'.at # "reading"
    BY <2>2 DEF Clock!Launch, Clock!NoTick
  <2>3. ASSUME Clock!Scan PROVE tick.at # "reading" /\ tick'.at # "reading"
    <3>1. tick.at = "scanning" /\ \E todo : tick' = [tick EXCEPT !.at = "reconciling", !.todo = todo]
      BY <2>3 DEF Clock!Scan
    <3>q. QED BY <1>0, <3>1 DEF Ticks
  <2>4. Clock!Failing' = Clock!Failing
    BY <2>1 DEF Clock!Failing
  <2>q. QED BY <1>2, <2>1, <2>2, <2>3, <2>4 DEF BacklogInv
<1>3. ASSUME Clock!Reconcile PROVE BacklogInv'
  <2>1. tick.at = "reconciling" /\ ill' = ill
    BY <1>3 DEF Clock!Reconcile
  <2>2. \/ \E todo : tick' = [tick EXCEPT !.todo = todo]
        \/ \E todo : tick' = [tick EXCEPT !.todo = todo, !.failed = TRUE]
    BY <1>3 DEF Clock!Reconcile
  <2>3. tick'.at = "reconciling"
    BY <1>0, <2>1, <2>2 DEF Ticks
  <2>q. QED BY <2>1, <2>3 DEF BacklogInv
<1>4. ASSUME Clock!ListBacklog PROVE BacklogInv'
  <2>1. tick'.at = "reading" /\ tick'.unread = Dataspaces /\ ill' = Clock!Failing /\ outcome' = outcome
    BY <1>0, <1>4 DEF Clock!ListBacklog, Ticks
  <2>q. QED BY <2>1 DEF BacklogInv, Clock!Failing
<1>5. ASSUME Clock!ReadRecord PROVE BacklogInv'
  <2>1. PICK d \in tick.unread :
          tick' = [tick EXCEPT !.unread = @ \ {d}, !.backlog = @ \/ d \in Clock!Failing]
    BY <1>5 DEF Clock!ReadRecord
  <2>2. tick.at = "reading" /\ UNCHANGED <<outcome, ill>>
    BY <1>5 DEF Clock!ReadRecord
  <2>3. /\ tick'.at = tick.at /\ tick'.unread = tick.unread \ {d}
        /\ tick'.backlog = (tick.backlog \/ d \in Clock!Failing)
    BY <1>0, <2>1 DEF Ticks
  <2>4. CASE tick.backlog \/ d \in Clock!Failing
    BY <2>2, <2>3, <2>4 DEF BacklogInv, Clock!Failing
  <2>5. CASE ~ tick.backlog /\ d \notin Clock!Failing
    <3>1. ill \subseteq tick.unread \ {d}
      BY <2>2, <2>5 DEF BacklogInv
    <3>q. QED BY <2>2, <2>3, <3>1 DEF BacklogInv, Clock!Failing
  <2>q. QED BY <2>4, <2>5
<1>6. ASSUME Clock!Start \/ Clock!Stop \/ Clock!BecomesDue \/ UNCHANGED clock_vars
      PROVE  BacklogInv'
  BY <1>6 DEF Clock!Start, Clock!Stop, Clock!BecomesDue, clock_vars, BacklogInv, Clock!Failing
<1>7. ASSUME Clock!ReconciledByCall PROVE BacklogInv'
  <2>1. PICK d \in Dataspaces, result \in {"settled", "failing"} :
          /\ outcome' = [outcome EXCEPT ![d] = result]
          /\ ill' = IF result = "settled" THEN ill \ {d} ELSE ill
    BY <1>7 DEF Clock!ReconciledByCall
  <2>2. tick' = tick
    BY <1>7 DEF Clock!ReconciledByCall
  <2>3. ill' \subseteq ill /\ \A e \in ill' : outcome'[e] = "failing"
    BY <1>0, <2>1 DEF BacklogInv, Clock!Failing
  <2>4. ill' \subseteq Clock!Failing'
    BY <2>3 DEF BacklogInv, Clock!Failing
  <2>q. QED BY <2>2, <2>3, <2>4 DEF BacklogInv
<1>q. QED BY <1>1, <1>2, <1>3, <1>4, <1>5, <1>6, <1>7 DEF Clock!Next

LEMMA ClockImplies == ClockInv => Clock!TypeOK /\ Clock!TurnsAreTaken
<1> SUFFICES ASSUME ClockInv PROVE Clock!TypeOK /\ Clock!TurnsAreTaken
  OBVIOUS
<1>1. Clock!TypeOK
  <2>1. /\ tick.at \in {"none", "scanning", "reconciling", "reading"} /\ tick.todo \in Seq(Dataspaces)
        /\ tick.unread \subseteq Dataspaces /\ ill \subseteq Dataspaces
        /\ tick.failed \in BOOLEAN /\ tick.backlog \in BOOLEAN /\ failures \in BOOLEAN
    BY DEF ClockInv, ClockTyped, Ticks
  <2>2. Clock!ToSet(tick.todo) \subseteq Dataspaces
    BY <2>1 DEF Clock!ToSet
  <2>3. {running, aborted, fatal, completed} \subseteq BOOLEAN
    BY DEF ClockInv, ClockTyped
  <2>q. QED BY <2>1, <2>2, <2>3 DEF ClockInv, ClockTyped, Clock!TypeOK
<1>2. ASSUME NEW d \in Dataspaces, waited[d] > 0
      PROVE  (waited[d] - 1) * MaxPerTick < Len(lastList)
  <2>1. PICK i \in 1..Len(lastList) : lastList[i] = d
    BY <1>2 DEF ClockInv
  <2>2. PICK n \in Nat \ {0} : n = Len(lastList)
    BY <2>1 DEF ClockInv, ClockTyped
  <2>3. PICK w \in Nat : waited[d] = w + 1
    <3>1. waited[d] \in Nat
      BY DEF ClockInv, ClockTyped
    <3>2. waited[d] - 1 \in Nat /\ waited[d] = (waited[d] - 1) + 1
      BY <1>2, <3>1
    <3>q. QED BY <3>2
  <2>4. PICK count \in Nat : count = Takes(n)
    BY <2>2, TakesInRange
  <2>5. w * count < n
    <3>1. (w + 1 - 1) * count < n
      BY <1>2, <2>1, <2>2, <2>3, <2>4 DEF ClockInv, OneRound
    <3>q. QED BY <3>1, Rounds
  <2>6. CASE count = MaxPerTick
    <3>1. (w + 1 - 1) * count = w * count
      BY Rounds
    <3>q. QED BY <2>2, <2>3, <2>5, <2>6, <3>1
  <2>7. CASE count = n
    <3>1. w = 0
      <4>1. w >= 1 => w * n >= n
        OBVIOUS
      <4>q. QED BY <2>5, <2>7, <4>1
    <3>2. 0 * MaxPerTick = 0
      BY SchedulerAssumption
    <3>q. QED BY <2>2, <2>3, <3>1, <3>2
  <2>q. QED BY <2>4, <2>6, <2>7 DEF Takes, Clock!Smaller
<1>3. Clock!TurnsAreTaken
  BY <1>2 DEF Clock!TurnsAreTaken
<1>q. QED BY <1>1, <1>3

-----------------------------------------------------------------------------
(* ScopedCutover: a session that writes is one of the old store's, no      *)
(* session is open while the state moves, and none of the old store's can  *)
(* write after it.                                                         *)

OldStates == [rev : Nat, res : [Scopes -> 0..MaxVersion], rec : [Keys -> Scopes \cup {NoScope}],
              seq : Nat]

CutoverTyped ==
    /\ snapshot \in OldStates \cup {None} /\ file \in OldStates \cup {None}
    /\ ledger \subseteq (Scopes \cup {Platform}) \X Keys
    /\ audit \in Seq({"json", "file", "scoped"})
    /\ scoped \in [Scopes -> 0..MaxVersion]
    /\ DOMAIN registry \subseteq Scopes \cup {Platform}
    /\ mode.at \in {"projection", "scoped"}
    /\ mode = [at |-> mode.at, root |-> mode.root, first |-> mode.first]
    /\ head = [seq |-> head.seq, root |-> head.root]
    /\ cut.at \in {"idle", "begun", "locked"}
    /\ cut = [at |-> cut.at, row |-> cut.row, ledger |-> cut.ledger, audit |-> cut.audit,
              projected |-> cut.projected]
    /\ role \in [login : BOOLEAN, grants : BOOLEAN]
    /\ conn \subseteq Writers /\ ready \in BOOLEAN
    /\ base \in [Writers -> OldStates \cup {None}]
    /\ told \in [ver : [Scopes -> 0..MaxVersion], rec : [Keys -> Scopes \cup {NoScope}]]

Sessions ==
    /\ ~ role.login => conn = {}
    /\ mode.at = "scoped" => ~ role.login \/ ~ role.grants
    /\ \A w \in Writers : base[w] # None =>
         w \in conn /\ base[w] = snapshot /\ mode.at = "projection"
    /\ \A v, w \in Writers : base[v] # None /\ base[w] # None => v = w
    /\ cut.at # "idle" =>
         /\ mode.at = "projection" /\ ~ role.login
         /\ cut.row = snapshot /\ cut.ledger = ledger /\ cut.audit = audit

Stores ==
    /\ Cutover!RootsAgree /\ Cutover!ToldIsKept /\ Cutover!ChainContinues
    /\ mode.at = "projection" => \A i \in DOMAIN audit : audit[i] = "json"

CutoverInv == CutoverTyped /\ Sessions /\ Stores

LEMMA NoneIsNoState == None \notin OldStates
<1>1. OldStates \subseteq [rev : Nat, res : [Scopes -> Nat], rec : [Keys -> Scopes \cup {NoScope}], seq : Nat]
  BY CutoverAssumption DEF OldStates
<1>q. QED BY <1>1, CutoverAssumption

LEMMA EmptyIsAState == Cutover!Empty \in OldStates
  BY CutoverAssumption DEF Cutover!Empty, Cutover!NoResources, Cutover!NoRecords, OldStates

LEMMA WrittenIsAState ==
    ASSUME NEW old \in OldStates, NEW s \in Scopes, NEW k \in Keys, old.res[s] < MaxVersion
    PROVE  /\ Cutover!Written(old, s, k) \in OldStates
           /\ Cutover!Written(old, s, k).res[s] = old.res[s] + 1
           /\ Cutover!Written(old, s, k).rec[k] = s
           /\ \A t \in Scopes \ {s} : Cutover!Written(old, s, k).res[t] = old.res[t]
           /\ \A j \in Keys \ {k} : Cutover!Written(old, s, k).rec[j] = old.rec[j]
<1>1. PICK res \in [Scopes -> 0..MaxVersion] : res = old.res
  BY DEF OldStates
<1>2. PICK rec \in [Keys -> Scopes \cup {NoScope}] : rec = old.rec
  BY DEF OldStates
<1>3. PICK res2 \in [Scopes -> 0..MaxVersion] : res2 = [res EXCEPT ![s] = @ + 1]
  <2>1. res[s] + 1 \in 0..MaxVersion
    BY <1>1, CutoverAssumption
  <2>q. QED BY <2>1
<1>4. PICK rec2 \in [Keys -> Scopes \cup {NoScope}] : rec2 = [rec EXCEPT ![k] = s]
  OBVIOUS
<1>5. Cutover!Written(old, s, k) = [rev |-> old.rev + 1, res |-> res2, rec |-> rec2, seq |-> old.seq + 1]
  BY <1>1, <1>2, <1>3, <1>4 DEF Cutover!Written
<1>6. old.rev + 1 \in Nat /\ old.seq + 1 \in Nat
  BY DEF OldStates
<1>q. QED BY <1>1, <1>2, <1>3, <1>4, <1>5, <1>6 DEF OldStates

LEMMA CutoverStarts == Cutover!Init => CutoverInv
<1> SUFFICES ASSUME Cutover!Init PROVE CutoverInv
  OBVIOUS
<1>1. /\ snapshot = None /\ ledger = {} /\ audit = <<>> /\ scoped = Cutover!NoResources
      /\ registry = <<>> /\ head = [seq |-> 0, root |-> <<>>]
      /\ mode = [at |-> "projection", root |-> <<>>, first |-> <<>>]
      /\ conn = {} /\ base = [w \in Writers |-> None] /\ cut = Cutover!Idle /\ ready = FALSE
  BY DEF Cutover!Init
<1>2. role \in [login : BOOLEAN, grants : BOOLEAN]
  BY DEF Cutover!Init
<1>3. file \in OldStates \cup {None}
  <2>1. \A s \in Scopes : Cutover!Empty.res[s] < MaxVersion
    BY CutoverAssumption DEF Cutover!Empty, Cutover!NoResources
  <2>2. \A s \in Scopes, k \in Keys : Cutover!Written(Cutover!Empty, s, k) \in OldStates
    BY <2>1, EmptyIsAState, WrittenIsAState
  <2>q. QED BY <2>2 DEF Cutover!Init, Cutover!LegacyFiles
<1>4. told = IF file = None THEN [ver |-> Cutover!NoResources, rec |-> Cutover!NoRecords]
             ELSE [ver |-> file.res, rec |-> file.rec]
  BY DEF Cutover!Init
<1>5. told \in [ver : [Scopes -> 0..MaxVersion], rec : [Keys -> Scopes \cup {NoScope}]]
  <2>1. CASE file = None
    BY <1>4, <2>1, CutoverAssumption DEF Cutover!NoResources, Cutover!NoRecords
  <2>2. CASE file \in OldStates
    BY <1>4, <2>2, NoneIsNoState DEF OldStates
  <2>q. QED BY <1>3, <2>1, <2>2
<1>6. scoped \in [Scopes -> 0..MaxVersion]
  BY <1>1, CutoverAssumption DEF Cutover!NoResources
<1>7. DOMAIN registry = {}
  BY <1>1
<1>8. cut.at = "idle" /\ cut = [at |-> cut.at, row |-> cut.row, ledger |-> cut.ledger, audit |-> cut.audit,
                                projected |-> cut.projected]
  BY <1>1 DEF Cutover!Idle
<1>9. audit \in Seq({"json", "file", "scoped"}) /\ DOMAIN audit = {}
  BY <1>1
<1>10. CutoverTyped
  BY <1>1, <1>2, <1>3, <1>5, <1>6, <1>7, <1>8, <1>9 DEF CutoverTyped
<1>11. Cutover!ToldIsKept
  <2>1. CASE file = None
    BY <1>1, <1>4, <2>1 DEF Cutover!ToldIsKept, Cutover!Present, Cutover!Recorded, Cutover!NoResources,
                            Cutover!NoRecords
  <2>2. CASE file # None
    <3>1. file \in Cutover!OldSources /\ told.ver = file.res /\ told.rec = file.rec
      BY <1>4, <2>2 DEF Cutover!OldSources
    <3>2. file.res \in [Scopes -> 0..MaxVersion]
      BY <1>3, <2>2 DEF OldStates
    <3>q. QED BY <1>1, <3>1, <3>2 DEF Cutover!ToldIsKept, Cutover!Present, Cutover!Recorded
  <2>q. QED BY <2>1, <2>2
<1>12. Stores
  BY <1>1, <1>9, <1>11 DEF Stores, Cutover!RootsAgree, Cutover!ChainContinues
<1>13. Sessions
  BY <1>1, <1>8 DEF Sessions
<1>q. QED BY <1>10, <1>12, <1>13 DEF CutoverInv

\* A step that leaves what the stores hold.
LEMMA StoresRest ==
    ASSUME Stores, UNCHANGED <<snapshot, ledger, audit, scoped, registry, head, mode, file, told>>
    PROVE  Stores'
<1>1. Cutover!RootsAgree'
  BY DEF Stores, Cutover!RootsAgree, Cutover!Current
<1>2. Cutover!ToldIsKept'
  BY DEF Stores, Cutover!ToldIsKept, Cutover!OldSources, Cutover!Present, Cutover!Recorded
<1>3. Cutover!ChainContinues' /\ (mode'.at = "projection" => \A i \in DOMAIN audit' : audit'[i] = "json")
  BY DEF Stores, Cutover!ChainContinues
<1>q. QED BY <1>1, <1>2, <1>3 DEF Stores

LEMMA SessionsMove ==
    ASSUME CutoverInv,
           UNCHANGED <<snapshot, ledger, audit, scoped, registry, head, mode, file, told>>,
           role' \in [login : BOOLEAN, grants : BOOLEAN], conn' \subseteq Writers, ready' \in BOOLEAN,
           base' \in [Writers -> OldStates \cup {None}],
           cut'.at \in {"idle", "begun", "locked"},
           cut' = [at |-> cut'.at, row |-> cut'.row, ledger |-> cut'.ledger, audit |-> cut'.audit,
                   projected |-> cut'.projected],
           Sessions'
    PROVE  CutoverInv'
<1>1. Stores'
  BY StoresRest DEF CutoverInv
<1>2. CutoverTyped'
  BY DEF CutoverInv, CutoverTyped
<1>q. QED BY <1>1, <1>2 DEF CutoverInv

LEMMA OperatorKeeps ==
    ASSUME CutoverInv,
           \/ Cutover!Fence \/ Cutover!ApproveMap \/ Cutover!Bootstrap \/ Cutover!Unfence
           \/ Cutover!ScopedInitialize
    PROVE  CutoverInv'
<1>0. /\ role \in [login : BOOLEAN, grants : BOOLEAN] /\ conn \subseteq Writers /\ ready \in BOOLEAN
      /\ base \in [Writers -> OldStates \cup {None}] /\ cut.at \in {"idle", "begun", "locked"}
      /\ cut = [at |-> cut.at, row |-> cut.row, ledger |-> cut.ledger, audit |-> cut.audit,
                projected |-> cut.projected]
      /\ mode.at \in {"projection", "scoped"}
  BY DEF CutoverInv, CutoverTyped
<1>a. Sessions
  BY DEF CutoverInv
<1>1. CASE Cutover!Fence
  <2>1. /\ role' = [role EXCEPT !.login = FALSE] /\ conn' = {} /\ base' = [w \in Writers |-> None]
        /\ ready' = FALSE
        /\ UNCHANGED <<snapshot, projected, ledger, audit, scoped, registry, head, mode, cut, file, told>>
    BY <1>1 DEF Cutover!Fence, Cutover!jsonTables, Cutover!scopedTables
  <2>2. role' \in [login : BOOLEAN, grants : BOOLEAN] /\ ~ role'.login
    BY <1>0, <2>1
  <2>3. Sessions'
    BY <1>a, <2>1, <2>2 DEF Sessions
  <2>q. QED BY <1>0, <2>1, <2>2, <2>3, SessionsMove
<1>2. CASE Cutover!ApproveMap
  <2>1. UNCHANGED <<snapshot, ledger, audit, scoped, registry, head, mode, role, conn, base, cut, file, ready, told>>
    BY <1>2 DEF Cutover!ApproveMap, Cutover!jsonTables, Cutover!scopedTables
  <2>2. Sessions'
    BY <1>a, <2>1 DEF Sessions
  <2>q. QED BY <1>0, <2>1, <2>2, SessionsMove
<1>3. CASE Cutover!Bootstrap
  <2>1. /\ ~ role.login /\ cut.at = "idle" /\ mode.at = "scoped"
        /\ role' = [login |-> TRUE, grants |-> FALSE]
        /\ UNCHANGED <<snapshot, ledger, audit, scoped, registry, head, mode, conn, base, cut, file, ready, told>>
    BY <1>3 DEF Cutover!Bootstrap, Cutover!jsonTables, Cutover!scopedTables
  <2>2. role' \in [login : BOOLEAN, grants : BOOLEAN] /\ role'.login /\ ~ role'.grants
    BY <2>1
  <2>3. Sessions'
    BY <1>a, <2>1, <2>2 DEF Sessions
  <2>q. QED BY <1>0, <2>1, <2>2, <2>3, SessionsMove
<1>4. CASE Cutover!Unfence
  <2>1. /\ ~ role.login /\ cut.at = "idle" /\ mode.at = "projection"
        /\ role' = [role EXCEPT !.login = TRUE]
        /\ UNCHANGED <<snapshot, ledger, audit, scoped, registry, head, mode, conn, base, cut, file, ready, told>>
    BY <1>4 DEF Cutover!Unfence, Cutover!jsonTables, Cutover!scopedTables
  <2>2. role' \in [login : BOOLEAN, grants : BOOLEAN] /\ role'.login
    BY <1>0, <2>1
  <2>3. Sessions'
    BY <1>a, <2>1, <2>2 DEF Sessions
  <2>q. QED BY <1>0, <2>1, <2>2, <2>3, SessionsMove
<1>5. CASE Cutover!ScopedInitialize
  <2>1. /\ ready' = TRUE
        /\ UNCHANGED <<snapshot, ledger, audit, scoped, registry, head, mode, role, conn, base, cut, file, told>>
    BY <1>5 DEF Cutover!ScopedInitialize, Cutover!jsonTables, Cutover!scopedTables
  <2>2. Sessions'
    BY <1>a, <2>1 DEF Sessions
  <2>q. QED BY <1>0, <2>1, <2>2, SessionsMove
<1>q. QED BY <1>1, <1>2, <1>3, <1>4, <1>5

LEMMA MoveKeeps ==
    ASSUME CutoverInv, Cutover!CutBegin \/ Cutover!CutLock \/ Cutover!CutRollback
    PROVE  CutoverInv'
<1>0. /\ role \in [login : BOOLEAN, grants : BOOLEAN] /\ conn \subseteq Writers /\ ready \in BOOLEAN
      /\ base \in [Writers -> OldStates \cup {None}]
      /\ cut = [at |-> cut.at, row |-> cut.row, ledger |-> cut.ledger, audit |-> cut.audit,
                projected |-> cut.projected]
  BY DEF CutoverInv, CutoverTyped
<1>a. Sessions
  BY DEF CutoverInv
<1>1. UNCHANGED <<snapshot, ledger, audit, scoped, registry, head, mode, role, conn, base, file, ready, told>>
  BY DEF Cutover!CutBegin, Cutover!CutLock, Cutover!CutRollback, Cutover!jsonTables, Cutover!scopedTables
<1>2. CASE Cutover!CutBegin
  <2>1. /\ ~ role.login /\ mode.at = "projection"
        /\ cut' = [at |-> "begun", row |-> snapshot, ledger |-> ledger, audit |-> audit, projected |-> projected]
    BY <1>2 DEF Cutover!CutBegin
  <2>2. /\ cut'.at = "begun" /\ cut'.row = snapshot /\ cut'.ledger = ledger /\ cut'.audit = audit
        /\ cut' = [at |-> cut'.at, row |-> cut'.row, ledger |-> cut'.ledger, audit |-> cut'.audit,
                   projected |-> cut'.projected]
    BY <2>1
  <2>3. Sessions'
    BY <1>1, <1>a, <2>1, <2>2 DEF Sessions
  <2>q. QED BY <1>0, <1>1, <2>2, <2>3, SessionsMove
<1>3. CASE Cutover!CutLock
  <2>1. cut.at = "begun" /\ cut' = [cut EXCEPT !.at = "locked"]
    BY <1>3 DEF Cutover!CutLock
  <2>2. /\ cut'.at = "locked" /\ cut'.row = cut.row /\ cut'.ledger = cut.ledger /\ cut'.audit = cut.audit
        /\ cut' = [at |-> cut'.at, row |-> cut'.row, ledger |-> cut'.ledger, audit |-> cut'.audit,
                   projected |-> cut'.projected]
    BY <1>0, <2>1
  <2>3. Sessions'
    BY <1>1, <1>a, <2>1, <2>2 DEF Sessions
  <2>q. QED BY <1>0, <1>1, <2>2, <2>3, SessionsMove
<1>4. CASE Cutover!CutRollback
  <2>1. /\ cut'.at = "idle"
        /\ cut' = [at |-> cut'.at, row |-> cut'.row, ledger |-> cut'.ledger, audit |-> cut'.audit,
                   projected |-> cut'.projected]
    BY <1>4 DEF Cutover!CutRollback, Cutover!Idle
  <2>2. Sessions'
    BY <1>1, <1>a, <2>1 DEF Sessions
  <2>q. QED BY <1>0, <1>1, <2>1, <2>2, SessionsMove
<1>q. QED BY <1>2, <1>3, <1>4

LEMMA OldSessionsMove ==
    ASSUME CutoverInv, NEW w \in Writers,
           Cutover!Connect(w) \/ Cutover!JsonSelect(w) \/ Cutover!JsonRollback(w)
    PROVE  CutoverInv'
<1>0. /\ role \in [login : BOOLEAN, grants : BOOLEAN] /\ conn \subseteq Writers /\ ready \in BOOLEAN
      /\ base \in [Writers -> OldStates \cup {None}] /\ cut.at \in {"idle", "begun", "locked"}
      /\ cut = [at |-> cut.at, row |-> cut.row, ledger |-> cut.ledger, audit |-> cut.audit,
                projected |-> cut.projected]
      /\ mode.at \in {"projection", "scoped"} /\ snapshot \in OldStates \cup {None}
  BY DEF CutoverInv, CutoverTyped
<1>a. Sessions
  BY DEF CutoverInv
<1>1. UNCHANGED <<snapshot, ledger, audit, scoped, registry, head, mode, role, cut, file, ready, told>>
  BY DEF Cutover!Connect, Cutover!JsonSelect, Cutover!JsonRollback, Cutover!jsonTables, Cutover!scopedTables
<1>2. CASE Cutover!Connect(w)
  <2>1. role.login /\ conn' = conn \cup {w} /\ base' = base
    BY <1>2 DEF Cutover!Connect
  <2>2. Sessions'
    BY <1>1, <1>a, <2>1 DEF Sessions
  <2>q. QED BY <1>0, <1>1, <2>1, <2>2, SessionsMove
<1>3. CASE Cutover!JsonSelect(w)
  <2>1. /\ w \in conn /\ role.grants /\ base' = [base EXCEPT ![w] = snapshot] /\ conn' = conn
        /\ \A v \in Writers : base[v] = None
    BY <1>3 DEF Cutover!JsonSelect, Cutover!RowLocked
  <2>2. role.login /\ mode.at = "projection" /\ cut.at = "idle"
    BY <1>0, <1>a, <2>1 DEF Sessions
  <2>3. base'[w] = snapshot /\ \A v \in Writers \ {w} : base'[v] = None
    BY <1>0, <2>1
  <2>4. Sessions'
    BY <1>1, <1>a, <2>1, <2>2, <2>3 DEF Sessions
  <2>5. base' \in [Writers -> OldStates \cup {None}]
    BY <1>0, <2>1
  <2>q. QED BY <1>0, <1>1, <2>1, <2>4, <2>5, SessionsMove
<1>4. CASE Cutover!JsonRollback(w)
  <2>1. base[w] # None /\ base' = [base EXCEPT ![w] = None] /\ conn' \in {conn, conn \ {w}}
    BY <1>4 DEF Cutover!JsonRollback
  <2>2. base' \in [Writers -> OldStates \cup {None}] /\ \A v \in Writers : base'[v] = None
    BY <1>0, <1>a, <2>1 DEF Sessions
  <2>3. Sessions'
    BY <1>1, <1>a, <2>1, <2>2 DEF Sessions
  <2>q. QED BY <1>0, <1>1, <2>1, <2>2, <2>3, SessionsMove
<1>q. QED BY <1>2, <1>3, <1>4

LEMMA ConcatGoesOn ==
    ASSUME NEW S, NEW q \in Seq(S), NEW r \in Seq(S)
    PROVE  /\ q \o r \in Seq(S) /\ Len(q \o r) = Len(q) + Len(r)
           /\ \A i \in 1..Len(q) : (q \o r)[i] = q[i]
           /\ \A i \in (Len(q) + 1)..Len(q \o r) : (q \o r)[i] = r[i - Len(q)] /\ i - Len(q) \in 1..Len(r)
  OBVIOUS

\* A projection writes events of the old store only.
LEMMA ProjectKeeps ==
    ASSUME CutoverInv, mode.at = "projection", NEW state \in OldStates, Cutover!Project(state)
    PROVE  /\ ledger' \subseteq (Scopes \cup {Platform}) \X Keys
           /\ audit' \in Seq({"json", "file", "scoped"})
           /\ \A i \in DOMAIN audit' : audit'[i] = "json"
<1>1. ledger' \subseteq (Scopes \cup {Platform}) \X Keys
  <2>1. \A k \in Cutover!Recorded(state.rec) : k \in Keys /\ state.rec[k] \in Scopes
    BY DEF Cutover!Recorded, OldStates
  <2>2. Cutover!ProjectedLedger(state.rec) \subseteq (Scopes \cup {Platform}) \X Keys
    BY <2>1 DEF Cutover!ProjectedLedger, Cutover!Shown
  <2>q. QED BY <2>2 DEF Cutover!Project, CutoverInv, CutoverTyped
<1>2. PICK n \in Nat : n = IF state.seq > Len(audit) THEN state.seq - Len(audit) ELSE 0
  <2>1. state.seq \in Nat /\ Len(audit) \in Nat
    BY DEF OldStates, CutoverInv, CutoverTyped
  <2>q. QED BY <2>1
<1>3. PICK more \in Seq({"json", "file", "scoped"}) :
        more = [i \in 1..n |-> "json"] /\ Len(more) = n /\ \A i \in 1..n : more[i] = "json"
  <2>1. [i \in 1..n |-> "json"] \in [1..n -> {"json", "file", "scoped"}]
    OBVIOUS
  <2>2. [i \in 1..n |-> "json"] \in Seq({"json", "file", "scoped"})
    BY <2>1, IsASeqOfLength
  <2>3. PICK more \in Seq({"json", "file", "scoped"}) : more = [i \in 1..n |-> "json"]
    BY <2>2
  <2>4. Len(more) = n /\ \A i \in 1..n : more[i] = "json"
    BY <2>3
  <2>q. QED BY <2>3, <2>4
<1>4. audit' = audit \o more
  BY <1>2, <1>3 DEF Cutover!Project
<1>5. audit \in Seq({"json", "file", "scoped"}) /\ \A i \in 1..Len(audit) : audit[i] = "json"
  BY DEF CutoverInv, CutoverTyped, Stores
<1>6. /\ audit' \in Seq({"json", "file", "scoped"})
      /\ \A i \in 1..Len(audit) : audit'[i] = audit[i]
      /\ \A i \in (Len(audit) + 1)..Len(audit') : audit'[i] = more[i - Len(audit)] /\ i - Len(audit) \in 1..Len(more)
  BY <1>4, <1>5, ConcatGoesOn
<1>7. ASSUME NEW i \in DOMAIN audit' PROVE audit'[i] = "json"
  <2>1. i \in 1..Len(audit) \/ i \in (Len(audit) + 1)..Len(audit')
    BY <1>5, <1>6
  <2>q. QED BY <1>3, <1>5, <1>6, <2>1
<1>q. QED BY <1>1, <1>6, <1>7

\* While the old store runs, there is nothing yet for the new one to agree on.
LEMMA OldStoreWrites ==
    ASSUME CutoverInv, mode.at = "projection", mode' = mode,
           \A i \in DOMAIN audit' : audit'[i] = "json", Cutover!ToldIsKept'
    PROVE  Stores'
  BY DEF Stores, Cutover!RootsAgree, Cutover!ChainContinues

LEMMA JsonInitializeKeeps ==
    ASSUME CutoverInv, NEW w \in Writers, Cutover!JsonInitialize(w)
    PROVE  CutoverInv'
<1>1. /\ w \in conn /\ role.grants /\ \A v \in Writers : base[v] = None
      /\ snapshot' = IF snapshot = None THEN Cutover!Empty ELSE snapshot
      /\ UNCHANGED <<scoped, registry, head, mode, role, conn, base, cut, file, ready, told>>
  BY DEF Cutover!JsonInitialize, Cutover!RowLocked, Cutover!scopedTables
<1>2. role.login /\ mode.at = "projection" /\ cut.at = "idle"
  BY <1>1 DEF CutoverInv, CutoverTyped, Sessions
<1>3. PICK state \in OldStates : state = snapshot'
  BY <1>1, EmptyIsAState DEF CutoverInv, CutoverTyped
<1>4. Cutover!Project(state)
  BY <1>3 DEF Cutover!JsonInitialize
<1>5. /\ ledger' \subseteq (Scopes \cup {Platform}) \X Keys
      /\ audit' \in Seq({"json", "file", "scoped"})
      /\ \A i \in DOMAIN audit' : audit'[i] = "json"
  BY <1>2, <1>4, ProjectKeeps
<1>6. Cutover!OldSources \subseteq Cutover!OldSources'
  BY <1>1 DEF Cutover!OldSources
<1>7. Cutover!ToldIsKept'
  <2>1. \A s \in Cutover!Present(told.ver) : \E old \in Cutover!OldSources' : told.ver[s] <= old.res[s]
    BY <1>2, <1>6 DEF CutoverInv, Stores, Cutover!ToldIsKept
  <2>2. \A k \in Cutover!Recorded(told.rec) : \E old \in Cutover!OldSources' : told.rec[k] = old.rec[k]
    BY <1>2, <1>6 DEF CutoverInv, Stores, Cutover!ToldIsKept
  <2>q. QED BY <1>1, <1>2, <2>1, <2>2 DEF Cutover!ToldIsKept, Cutover!Present, Cutover!Recorded
<1>8. Stores'
  BY <1>1, <1>2, <1>5, <1>7, OldStoreWrites
<1>9. Sessions'
  BY <1>1, <1>2 DEF CutoverInv, Sessions
<1>10. CutoverTyped'
  BY <1>1, <1>3, <1>5 DEF CutoverInv, CutoverTyped
<1>q. QED BY <1>8, <1>9, <1>10 DEF CutoverInv

LEMMA JsonCommitKeeps ==
    ASSUME CutoverInv, NEW w \in Writers, NEW s \in Scopes, NEW k \in Keys, Cutover!JsonCommit(w, s, k)
    PROVE  CutoverInv'
<1>1. /\ base[w] # None /\ w \in conn /\ base[w].res[s] < MaxVersion
      /\ told.rec[k] = NoScope
      /\ snapshot' = Cutover!Written(base[w], s, k) /\ base' = [base EXCEPT ![w] = None]
      /\ told' = [ver |-> [told.ver EXCEPT ![s] = snapshot'.res[s]], rec |-> [told.rec EXCEPT ![k] = s]]
      /\ UNCHANGED <<scoped, registry, head, mode, role, conn, cut, file, ready>>
  BY DEF Cutover!JsonCommit, Cutover!scopedTables
<1>2. /\ mode.at = "projection" /\ base[w] = snapshot /\ role.login /\ cut.at = "idle"
      /\ \A v \in Writers \ {w} : base[v] = None
  BY <1>1 DEF CutoverInv, CutoverTyped, Sessions
<1>3. PICK old \in OldStates : old = snapshot
  BY <1>1, <1>2 DEF CutoverInv, CutoverTyped
<1>4. PICK state \in OldStates :
        /\ state = snapshot' /\ state.res[s] = old.res[s] + 1 /\ state.rec[k] = s
        /\ \A t \in Scopes \ {s} : state.res[t] = old.res[t]
        /\ \A j \in Keys \ {k} : state.rec[j] = old.rec[j]
  BY <1>1, <1>2, <1>3, WrittenIsAState
<1>5. Cutover!Project(state)
  BY <1>4 DEF Cutover!JsonCommit
<1>6. /\ ledger' \subseteq (Scopes \cup {Platform}) \X Keys
      /\ audit' \in Seq({"json", "file", "scoped"})
      /\ \A i \in DOMAIN audit' : audit'[i] = "json"
  BY <1>2, <1>5, ProjectKeeps
<1>7. state.res \in [Scopes -> 0..MaxVersion] /\ state.rec \in [Keys -> Scopes \cup {NoScope}]
  BY DEF OldStates
<1>8. told.ver \in [Scopes -> 0..MaxVersion] /\ told.rec \in [Keys -> Scopes \cup {NoScope}]
  BY DEF CutoverInv, CutoverTyped
<1>9. /\ told'.ver \in [Scopes -> 0..MaxVersion] /\ told'.rec \in [Keys -> Scopes \cup {NoScope}]
      /\ told' = [ver |-> told'.ver, rec |-> told'.rec]
      /\ told'.ver[s] = state.res[s] /\ told'.rec[k] = s
      /\ \A t \in Scopes \ {s} : told'.ver[t] = told.ver[t]
      /\ \A j \in Keys \ {k} : told'.rec[j] = told.rec[j]
  <2>1. PICK ver \in [Scopes -> 0..MaxVersion] : ver = [told.ver EXCEPT ![s] = state.res[s]]
    BY <1>7, <1>8
  <2>2. PICK rec \in [Keys -> Scopes \cup {NoScope}] : rec = [told.rec EXCEPT ![k] = s]
    BY <1>8
  <2>3. told' = [ver |-> ver, rec |-> rec]
    BY <1>1, <1>4, <2>1, <2>2
  <2>q. QED BY <1>8, <2>1, <2>2, <2>3
<1>10. /\ state \in Cutover!OldSources' /\ state.res[s] = told'.ver[s]
       /\ \A other \in Cutover!OldSources : other = old \/ other \in Cutover!OldSources'
  BY <1>1, <1>3, <1>4, <1>9, NoneIsNoState DEF Cutover!OldSources
<1>11. ASSUME NEW t \in Scopes, told'.ver[t] > 0
       PROVE  \E other \in Cutover!OldSources' : told'.ver[t] <= other.res[t]
  <2>1. CASE t = s
    <3>1. told'.ver[s] <= state.res[s]
      BY <1>7, <1>9
    <3>q. QED BY <1>10, <2>1, <3>1
  <2>2. CASE t # s
    <3>1. PICK other \in Cutover!OldSources : told.ver[t] <= other.res[t]
      BY <1>2, <1>9, <1>11, <2>2 DEF CutoverInv, Stores, Cutover!ToldIsKept, Cutover!Present
    <3>q. QED BY <1>4, <1>9, <1>10, <2>2, <3>1
  <2>q. QED BY <2>1, <2>2
<1>12. ASSUME NEW j \in Keys, told'.rec[j] # NoScope
       PROVE  \E other \in Cutover!OldSources' : told'.rec[j] = other.rec[j]
  <2>1. CASE j = k
    BY <1>4, <1>9, <1>10, <2>1
  <2>2. CASE j # k
    <3>1. PICK other \in Cutover!OldSources : told.rec[j] = other.rec[j]
      BY <1>2, <1>9, <1>12, <2>2 DEF CutoverInv, Stores, Cutover!ToldIsKept, Cutover!Recorded
    <3>q. QED BY <1>4, <1>9, <1>10, <2>2, <3>1
  <2>q. QED BY <2>1, <2>2
<1>13. Cutover!ToldIsKept'
  BY <1>1, <1>2, <1>11, <1>12 DEF Cutover!ToldIsKept, Cutover!Present, Cutover!Recorded
<1>14. Stores'
  BY <1>1, <1>2, <1>6, <1>13, OldStoreWrites
<1>15. base' \in [Writers -> OldStates \cup {None}] /\ \A v \in Writers : base'[v] = None
  BY <1>1, <1>2 DEF CutoverInv, CutoverTyped
<1>16. Sessions'
  BY <1>1, <1>2, <1>15 DEF CutoverInv, Sessions
<1>17. CutoverTyped'
  BY <1>1, <1>4, <1>6, <1>9, <1>15 DEF CutoverInv, CutoverTyped
<1>q. QED BY <1>14, <1>16, <1>17 DEF CutoverInv

\* The move takes over one state, with every record under its scope.
LEMMA CutCommitKeeps == ASSUME CutoverInv, Cutover!CutCommit PROVE CutoverInv'
<1>1. PICK state : state = Cutover!Source(cut.row)
  OBVIOUS
<1>2. /\ cut.at = "locked" /\ Cutover!Resolved(state) /\ Cutover!Verified(state)
      /\ scoped' = state.res /\ registry' = Cutover!Registered(state)
      /\ head' = Cutover!HeadAfter(state)
      /\ mode' = [at |-> "scoped", root |-> Cutover!Registered(state), first |-> Cutover!Registered(state)]
      /\ ledger' = {row \in ledger : row[2] \notin Cutover!Recorded(state.rec)} \cup Cutover!ReassignedLedger(state)
      /\ audit' = IF cut.row = None THEN [i \in 1..state.seq |-> "file"] ELSE audit
      /\ cut' = Cutover!Idle
      /\ UNCHANGED <<snapshot, role, conn, base, file, ready, told>>
  BY <1>1 DEF Cutover!CutCommit, Cutover!jsonTables
<1>3. /\ mode.at = "projection" /\ ~ role.login /\ conn = {} /\ \A w \in Writers : base[w] = None
      /\ cut.row = snapshot /\ cut.ledger = ledger /\ cut.audit = audit
  BY <1>2 DEF CutoverInv, Sessions
<1>4. state \in OldStates
  BY <1>1, <1>3, EmptyIsAState DEF Cutover!Source, CutoverInv, CutoverTyped
<1>5. state.res \in [Scopes -> 0..MaxVersion] /\ state.rec \in [Keys -> Scopes \cup {NoScope}] /\ state.seq \in Nat
  BY <1>4 DEF OldStates
<1>6. \A k \in Keys : state.rec[k] # NoScope => state.rec[k] \in Scopes
  BY <1>5
<1>7. \A row \in ledger : row[2] \in Cutover!Recorded(state.rec)
  <2>1. CASE snapshot # None
    <3>1. ledger = Cutover!ProjectedLedger(state.rec)
      BY <1>2, <1>3, <2>1 DEF Cutover!Verified
    <3>q. QED BY <3>1 DEF Cutover!ProjectedLedger
  <2>2. CASE snapshot = None
    BY <1>2, <1>3, <2>2 DEF Cutover!Verified, Cutover!NoResidue
  <2>q. QED BY <2>1, <2>2
<1>8. ledger' = Cutover!ReassignedLedger(state)
  BY <1>2, <1>7
<1>9. ledger' \subseteq (Scopes \cup {Platform}) \X Keys
  BY <1>6, <1>8 DEF Cutover!ReassignedLedger, Cutover!Recorded
<1>10. \A s \in Scopes \cup {Platform} :
         {k \in Keys : state.rec[k] = s} = {k \in Keys : <<s, k>> \in ledger'}
  <2> SUFFICES ASSUME NEW s \in Scopes \cup {Platform}, NEW k \in Keys
               PROVE  state.rec[k] = s <=> <<s, k>> \in ledger'
    OBVIOUS
  <2>1. s # NoScope
    BY CutoverAssumption
  <2>q. QED BY <1>8, <2>1 DEF Cutover!ReassignedLedger, Cutover!Recorded
<1>11. /\ audit' \in Seq({"json", "file", "scoped"}) /\ Len(audit') = state.seq
       /\ \A i \in DOMAIN audit' : audit'[i] # "scoped"
  <2>1. CASE snapshot # None
    <3>1. Len(audit) = state.seq /\ \A i \in DOMAIN audit : audit[i] = "json"
      BY <1>2, <1>3, <2>1 DEF Cutover!Verified
    <3>2. audit' = audit /\ audit \in Seq({"json", "file", "scoped"})
      BY <1>2, <1>3, <2>1 DEF CutoverInv, CutoverTyped
    <3>q. QED BY <3>1, <3>2
  <2>2. CASE snapshot = None
    <3>1. PICK n \in Nat : n = state.seq
      BY <1>5
    <3>2. audit' = [i \in 1..n |-> "file"]
      BY <1>2, <1>3, <2>2, <3>1
    <3>3. [i \in 1..n |-> "file"] \in [1..n -> {"json", "file", "scoped"}]
      OBVIOUS
    <3>4. audit' \in Seq({"json", "file", "scoped"})
      BY <3>2, <3>3, IsASeqOfLength
    <3>5. Len(audit') = n /\ \A i \in 1..n : audit'[i] = "file"
      BY <3>2
    <3>q. QED BY <3>1, <3>2, <3>4, <3>5
  <2>q. QED BY <2>1, <2>2
<1>12. /\ mode'.at = "scoped" /\ mode'.root = registry' /\ head'.root = registry' /\ head'.seq = state.seq
       /\ mode' = [at |-> mode'.at, root |-> mode'.root, first |-> mode'.first]
       /\ head' = [seq |-> head'.seq, root |-> head'.root]
  BY <1>2 DEF Cutover!HeadAfter
<1>13. cut'.at = "idle" /\ cut' = [at |-> cut'.at, row |-> cut'.row, ledger |-> cut'.ledger,
                                   audit |-> cut'.audit, projected |-> cut'.projected]
  BY <1>2 DEF Cutover!Idle
<1>14. Cutover!Present(state.res) \subseteq Scopes /\ DOMAIN registry' = Cutover!Present(state.res) \cup {Platform}
  BY <1>2 DEF Cutover!Present, Cutover!Registered
<1>15. registry' = Cutover!Current'
  <2>1. ASSUME NEW s \in DOMAIN registry'
        PROVE  registry'[s] = [rev |-> registry'[s].rev,
                               ver |-> IF s = Platform THEN 0 ELSE scoped'[s],
                               keys |-> {k \in Keys : <<s, k>> \in ledger'}]
    <3>1. s \in Scopes \cup {Platform} /\ registry'[s] = Cutover!ScopeRow(state, s)
      BY <1>2, <1>14 DEF Cutover!Registered
    <3>2. {k \in Keys : state.rec[k] = s} = {k \in Keys : <<s, k>> \in ledger'}
      BY <1>10, <3>1
    <3>3. PICK keys : keys = {k \in Keys : state.rec[k] = s}
      OBVIOUS
    <3>4. PICK v : v = IF s = Platform THEN 0 ELSE scoped'[s]
      OBVIOUS
    <3>5. PICK r : r = IF s = Platform THEN 0 ELSE state.rev
      OBVIOUS
    <3>6. registry'[s] = [rev |-> r, ver |-> v, keys |-> keys]
      BY <1>2, <3>1, <3>3, <3>4, <3>5 DEF Cutover!ScopeRow
    <3>7. registry'[s].rev = r
      BY <3>6
    <3>8. keys = {k \in Keys : <<s, k>> \in ledger'}
      BY <3>2, <3>3
    <3>q. QED BY <3>4, <3>6, <3>7, <3>8, Zenon
  <2>2. registry' = [s \in DOMAIN registry' |-> registry'[s]]
    BY <1>2 DEF Cutover!Registered
  <2>q. QED BY <2>1, <2>2, Zenon DEF Cutover!Current
<1>16. /\ \A s \in Scopes : told.ver[s] <= state.res[s]
       /\ \A k \in Cutover!Recorded(told.rec) : told.rec[k] = state.rec[k]
  <2>1. Cutover!OldSources \subseteq {state}
    BY <1>1, <1>2, <1>3 DEF Cutover!OldSources, Cutover!Source, Cutover!Verified
  <2>2. told.ver \in [Scopes -> 0..MaxVersion] /\ told.rec \in [Keys -> Scopes \cup {NoScope}]
    BY DEF CutoverInv, CutoverTyped
  <2>3. /\ \A s \in Cutover!Present(told.ver) : \E old \in Cutover!OldSources : told.ver[s] <= old.res[s]
        /\ \A k \in Cutover!Recorded(told.rec) : \E old \in Cutover!OldSources : told.rec[k] = old.rec[k]
    BY <1>3 DEF CutoverInv, Stores, Cutover!ToldIsKept
  <2>4. ASSUME NEW s \in Scopes PROVE told.ver[s] <= state.res[s]
    <3>1. told.ver[s] \in Nat /\ state.res[s] \in Nat
      BY <1>5, <2>2
    <3>2. CASE told.ver[s] > 0
      BY <2>1, <2>3, <3>2 DEF Cutover!Present
    <3>q. QED BY <3>1, <3>2
  <2>q. QED BY <2>1, <2>3, <2>4
<1>17. Cutover!ToldIsKept'
  <2>1. \A k \in Cutover!Recorded(told.rec) : <<told.rec[k], k>> \in ledger'
    BY <1>8, <1>16 DEF Cutover!Recorded, Cutover!ReassignedLedger
  <2>2. \A s \in Scopes : told'.ver[s] <= scoped'[s]
    BY <1>2, <1>16
  <2>3. \A k \in Cutover!Recorded(told.rec)' : <<told'.rec[k], k>> \in ledger'
    BY <1>2, <2>1 DEF Cutover!Recorded
  <2>q. QED BY <1>12, <2>2, <2>3 DEF Cutover!ToldIsKept
<1>18. Stores'
  BY <1>11, <1>12, <1>15, <1>17 DEF Stores, Cutover!RootsAgree, Cutover!ChainContinues
<1>19. Sessions'
  BY <1>2, <1>3, <1>13 DEF Sessions
<1>20. CutoverTyped'
  BY <1>2, <1>5, <1>9, <1>11, <1>12, <1>13, <1>14 DEF CutoverInv, CutoverTyped
<1>q. QED BY <1>18, <1>19, <1>20 DEF CutoverInv

\* Where the chain runs on, no event of another store follows.
LEMMA ChainRunsOn ==
    ASSUME CutoverInv, mode.at = "scoped", NEW more \in Seq({"json", "file", "scoped"}),
           \A i \in 1..Len(more) : more[i] = "scoped",
           audit' = audit \o more, head'.seq = head.seq + Len(more)
    PROVE  /\ audit' \in Seq({"json", "file", "scoped"})
           /\ Cutover!ChainContinues'
<1>1. /\ audit \in Seq({"json", "file", "scoped"}) /\ head.seq = Len(audit)
      /\ \A i, j \in DOMAIN audit : i < j /\ audit[i] = "scoped" => audit[j] = "scoped"
  BY DEF CutoverInv, CutoverTyped, Stores, Cutover!ChainContinues
<1>2. /\ audit' \in Seq({"json", "file", "scoped"}) /\ Len(audit') = Len(audit) + Len(more)
      /\ \A i \in 1..Len(audit) : audit'[i] = audit[i]
      /\ \A i \in (Len(audit) + 1)..Len(audit') : audit'[i] = more[i - Len(audit)] /\ i - Len(audit) \in 1..Len(more)
  BY <1>1, ConcatGoesOn
<1>3. ASSUME NEW i \in DOMAIN audit', NEW j \in DOMAIN audit', i < j, audit'[i] = "scoped"
      PROVE  audit'[j] = "scoped"
  <2>1. i \in Nat /\ j \in Nat /\ Len(audit) \in Nat /\ DOMAIN audit = 1..Len(audit)
        /\ DOMAIN audit' = 1..Len(audit')
    BY <1>1, <1>2
  <2>2. CASE j <= Len(audit)
    BY <1>1, <1>2, <1>3, <2>1, <2>2
  <2>3. CASE j > Len(audit)
    BY <1>2, <1>3, <2>1, <2>3
  <2>q. QED BY <2>1, <2>2, <2>3
<1>4. head'.seq = Len(audit')
  BY <1>1, <1>2
<1>q. QED BY <1>2, <1>3, <1>4 DEF Cutover!ChainContinues

LEMMA ScopedSessionsStay ==
    ASSUME CutoverInv, mode.at = "scoped", mode'.at = "scoped",
           UNCHANGED <<role, conn, base, cut>>
    PROVE  Sessions'
  BY DEF CutoverInv, Sessions

LEMMA ScopedTransactKeeps ==
    ASSUME CutoverInv, NEW s \in Scopes, NEW k \in Keys, Cutover!ScopedTransact(s, k)
    PROVE  CutoverInv'
<1>1. /\ mode.at = "scoped" /\ told.rec[k] = NoScope /\ scoped[s] < MaxVersion
      /\ scoped' = [scoped EXCEPT ![s] = @ + 1]
      /\ ledger' = ledger \cup {<<s, k>>}
      /\ registry' = Cutover!Advanced(s, ledger')
      /\ audit' = audit \o <<"scoped", "scoped">>
      /\ head' = [seq |-> head.seq + 2, root |-> registry']
      /\ mode' = [mode EXCEPT !.root = registry']
      /\ told' = [ver |-> [told.ver EXCEPT ![s] = scoped'[s]], rec |-> [told.rec EXCEPT ![k] = s]]
      /\ UNCHANGED <<snapshot, role, conn, base, cut, file, ready>>
  BY DEF Cutover!ScopedTransact, Cutover!jsonTables
<1>2. /\ scoped \in [Scopes -> 0..MaxVersion]
      /\ told.ver \in [Scopes -> 0..MaxVersion] /\ told.rec \in [Keys -> Scopes \cup {NoScope}]
      /\ mode = [at |-> mode.at, root |-> mode.root, first |-> mode.first]
      /\ DOMAIN registry \subseteq Scopes \cup {Platform}
  BY DEF CutoverInv, CutoverTyped
<1>3. registry = Cutover!Current
  BY <1>1 DEF CutoverInv, Stores, Cutover!RootsAgree
<1>4. scoped[s] + 1 \in 0..MaxVersion /\ scoped[s] \in Nat
  BY <1>1, <1>2, CutoverAssumption
<1>5. scoped' \in [Scopes -> 0..MaxVersion] /\ scoped'[s] = scoped[s] + 1
      /\ \A t \in Scopes \ {s} : scoped'[t] = scoped[t]
  BY <1>1, <1>2, <1>4
<1>6. /\ mode'.at = "scoped" /\ mode'.root = registry'
      /\ mode' = [at |-> mode'.at, root |-> mode'.root, first |-> mode'.first]
  BY <1>1, <1>2
<1>7. head'.seq = head.seq + 2 /\ head'.root = registry' /\ head' = [seq |-> head'.seq, root |-> head'.root]
  BY <1>1
<1>8. PICK more \in Seq({"json", "file", "scoped"}) :
        more = <<"scoped", "scoped">> /\ Len(more) = 2 /\ \A i \in 1..Len(more) : more[i] = "scoped"
  <2>1. <<"scoped", "scoped">> \in Seq({"json", "file", "scoped"})
    OBVIOUS
  <2>2. Len(<<"scoped", "scoped">>) = 2 /\ \A i \in 1..2 : <<"scoped", "scoped">>[i] = "scoped"
    OBVIOUS
  <2>q. QED BY <2>1, <2>2
<1>9. audit' \in Seq({"json", "file", "scoped"}) /\ Cutover!ChainContinues'
  BY <1>1, <1>7, <1>8, ChainRunsOn
<1>10. s # Platform /\ s \in Scopes \cup {Platform}
  BY CutoverAssumption
<1>11. PICK domain : domain = DOMAIN registry \cup {s}
  OBVIOUS
<1>12. registry' = [t \in domain |-> registry'[t]] /\ DOMAIN registry' = domain
  BY <1>1, <1>11 DEF Cutover!Advanced
<1>13. ASSUME NEW t \in domain
       PROVE  registry'[t] = [rev |-> registry'[t].rev,
                              ver |-> IF t = Platform THEN 0 ELSE scoped'[t],
                              keys |-> {j \in Keys : <<t, j>> \in ledger'}]
  <2>1. CASE t = s
    <3>1. PICK r : r = (IF s \in DOMAIN registry THEN registry[s].rev ELSE 0) + 1
      OBVIOUS
    <3>2. PICK keys : keys = {j \in Keys : <<s, j>> \in ledger'}
      OBVIOUS
    <3>3. registry'[s] = [rev |-> r, ver |-> scoped[s] + 1, keys |-> keys]
      BY <1>1, <1>11, <3>1, <3>2 DEF Cutover!Advanced
    <3>4. registry'[s].rev = r
      BY <3>3
    <3>5. (IF t = Platform THEN 0 ELSE scoped'[t]) = scoped[s] + 1
      BY <1>5, <1>10, <2>1
    <3>q. QED BY <2>1, <3>2, <3>3, <3>4, <3>5, Zenon
  <2>2. CASE t # s
    <3>1. t \in DOMAIN registry /\ registry'[t] = registry[t]
      BY <1>1, <1>11, <2>2 DEF Cutover!Advanced
    <3>2. registry[t] = [rev |-> registry[t].rev, ver |-> IF t = Platform THEN 0 ELSE scoped[t],
                         keys |-> {j \in Keys : <<t, j>> \in ledger}]
      BY <1>3, <3>1, Zenon DEF Cutover!Current
    <3>3. {j \in Keys : <<t, j>> \in ledger'} = {j \in Keys : <<t, j>> \in ledger}
      BY <1>1, <2>2
    <3>4. (IF t = Platform THEN 0 ELSE scoped'[t]) = (IF t = Platform THEN 0 ELSE scoped[t])
      BY <1>2, <1>5, <2>2, <3>1
    <3>q. QED BY <3>1, <3>2, <3>3, <3>4, Zenon
  <2>q. QED BY <2>1, <2>2
<1>14. registry' = Cutover!Current'
  BY <1>12, <1>13, Zenon DEF Cutover!Current
<1>15. /\ told'.ver \in [Scopes -> 0..MaxVersion] /\ told'.rec \in [Keys -> Scopes \cup {NoScope}]
       /\ told' = [ver |-> told'.ver, rec |-> told'.rec]
       /\ told'.ver[s] = scoped'[s] /\ told'.rec[k] = s
       /\ \A t \in Scopes \ {s} : told'.ver[t] = told.ver[t]
       /\ \A j \in Keys \ {k} : told'.rec[j] = told.rec[j]
  <2>1. PICK ver \in [Scopes -> 0..MaxVersion] : ver = [told.ver EXCEPT ![s] = scoped'[s]]
    BY <1>2, <1>5
  <2>2. PICK rec \in [Keys -> Scopes \cup {NoScope}] : rec = [told.rec EXCEPT ![k] = s]
    BY <1>2
  <2>3. told' = [ver |-> ver, rec |-> rec]
    BY <1>1, <2>1, <2>2
  <2>q. QED BY <1>2, <2>1, <2>2, <2>3
<1>16. /\ \A t \in Scopes : told.ver[t] <= scoped[t]
       /\ \A j \in Cutover!Recorded(told.rec) : <<told.rec[j], j>> \in ledger
  BY <1>1 DEF CutoverInv, Stores, Cutover!ToldIsKept
<1>17. \A t \in Scopes : told'.ver[t] <= scoped'[t]
  <2>1. \A t \in Scopes \ {s} : told'.ver[t] <= scoped'[t]
    BY <1>5, <1>15, <1>16
  <2>2. told'.ver[s] <= scoped'[s]
    BY <1>4, <1>5, <1>15
  <2>q. QED BY <2>1, <2>2
<1>18. \A j \in Keys : told'.rec[j] # NoScope => <<told'.rec[j], j>> \in ledger'
  BY <1>1, <1>15, <1>16 DEF Cutover!Recorded
<1>19. Cutover!ToldIsKept'
  BY <1>6, <1>17, <1>18 DEF Cutover!ToldIsKept, Cutover!Recorded
<1>20. Stores'
  BY <1>6, <1>7, <1>9, <1>14, <1>19 DEF Stores, Cutover!RootsAgree
<1>21. ledger' \subseteq (Scopes \cup {Platform}) \X Keys /\ DOMAIN registry' \subseteq Scopes \cup {Platform}
  BY <1>1, <1>2, <1>11, <1>12 DEF CutoverInv, CutoverTyped
<1>22. Sessions'
  BY <1>1, <1>6, ScopedSessionsStay
<1>23. CutoverTyped'
  BY <1>1, <1>5, <1>6, <1>7, <1>9, <1>15, <1>21 DEF CutoverInv, CutoverTyped
<1>q. QED BY <1>20, <1>22, <1>23 DEF CutoverInv

LEMMA PlatformAuditKeeps == ASSUME CutoverInv, Cutover!PlatformAudit PROVE CutoverInv'
<1>1. /\ mode.at = "scoped" /\ audit' = Append(audit, "scoped")
      /\ head' = [head EXCEPT !.seq = @ + 1]
      /\ UNCHANGED <<snapshot, ledger, scoped, registry, mode, role, conn, base, cut, file, ready, told>>
  BY DEF Cutover!PlatformAudit, Cutover!jsonTables
<1>2. head'.seq = head.seq + 1 /\ head'.root = head.root /\ head' = [seq |-> head'.seq, root |-> head'.root]
  BY <1>1 DEF CutoverInv, CutoverTyped
<1>3. PICK more \in Seq({"json", "file", "scoped"}) :
        more = <<"scoped">> /\ Len(more) = 1 /\ \A i \in 1..Len(more) : more[i] = "scoped"
  <2>1. <<"scoped">> \in Seq({"json", "file", "scoped"})
    OBVIOUS
  <2>2. Len(<<"scoped">>) = 1 /\ \A i \in 1..1 : <<"scoped">>[i] = "scoped"
    OBVIOUS
  <2>q. QED BY <2>1, <2>2
<1>4. audit' = audit \o more
  <2>1. \A q \in Seq({"json", "file", "scoped"}) : Append(q, "scoped") = q \o <<"scoped">>
    OBVIOUS
  <2>q. QED BY <1>1, <1>3, <2>1 DEF CutoverInv, CutoverTyped
<1>5. audit' \in Seq({"json", "file", "scoped"}) /\ Cutover!ChainContinues'
  BY <1>1, <1>2, <1>3, <1>4, ChainRunsOn
<1>6. Cutover!RootsAgree'
  BY <1>1, <1>2 DEF CutoverInv, Stores, Cutover!RootsAgree, Cutover!Current
<1>7. Cutover!ToldIsKept'
  BY <1>1 DEF CutoverInv, Stores, Cutover!ToldIsKept, Cutover!Recorded
<1>8. Stores'
  BY <1>1, <1>5, <1>6, <1>7 DEF Stores
<1>9. Sessions'
  BY <1>1, ScopedSessionsStay
<1>10. CutoverTyped'
  BY <1>1, <1>2, <1>5 DEF CutoverInv, CutoverTyped
<1>q. QED BY <1>8, <1>9, <1>10 DEF CutoverInv

LEMMA CutoverStays == CutoverInv /\ [Cutover!Next]_cutover_vars => CutoverInv'
<1> SUFFICES ASSUME CutoverInv, [Cutover!Next]_cutover_vars PROVE CutoverInv'
  OBVIOUS
<1>1. ASSUME UNCHANGED cutover_vars PROVE CutoverInv'
  <2>1. UNCHANGED <<snapshot, ledger, audit, scoped, registry, head, mode, role, conn, base, cut, file, ready, told>>
    BY <1>1 DEF cutover_vars
  <2>2. Sessions'
    BY <2>1 DEF CutoverInv, Sessions
  <2>3. Stores'
    BY <2>1, StoresRest DEF CutoverInv
  <2>4. CutoverTyped'
    BY <2>1 DEF CutoverInv, CutoverTyped
  <2>q. QED BY <2>2, <2>3, <2>4 DEF CutoverInv
<1>2. ASSUME NEW w \in Writers,
             Cutover!Connect(w) \/ Cutover!JsonInitialize(w) \/ Cutover!JsonSelect(w) \/ Cutover!JsonRollback(w)
      PROVE  CutoverInv'
  BY <1>2, OldSessionsMove, JsonInitializeKeeps
<1>q. QED BY <1>1, <1>2, JsonCommitKeeps, OperatorKeeps, MoveKeeps, CutCommitKeeps,
             ScopedTransactKeeps, PlatformAuditKeeps DEF Cutover!Next

LEMMA CutoverImplies ==
    CutoverInv => /\ Cutover!TypeOK /\ Cutover!RootsAgree
                  /\ Cutover!ToldIsKept /\ Cutover!ChainContinues
  BY DEF CutoverInv, CutoverTyped, Stores, Cutover!TypeOK

-----------------------------------------------------------------------------
(* A step of Services is a step of one part.                               *)

LEMMA OnePartMoves ==
    ASSUME [OneNext]_services_vars
    PROVE  /\ part' = part
           /\ part = "cutover"   => [Cutover!Next]_cutover_vars
           /\ part = "tenants"   => [Store!Next]_store_vars
           /\ part = "file"      => [File!Next]_file_vars
           /\ part = "meter"     => [Meter!Next]_meter_vars
           /\ part = "scheduler" => [Clock!Next]_clock_vars
           /\ part = "server"    => [Server!Next]_server_vars
           /\ part = "client"    => [Client!Next]_client_vars
  BY DEF OneNext, Only, services_vars

\* The hourly rollup is what the events add up to, whatever rebuild runs beside
\* the recorder (usage-meter.mjs).
THEOREM RollupIsKept == ServicesSpec => []RollupAgrees
<1> DEFINE Inv == part = "meter" => MeterInv
<1>1. OneInit => Inv
  BY MeterStarts DEF OneInit
<1>2. Inv /\ [OneNext]_services_vars => Inv'
  BY OnePartMoves, MeterStays
<1>3. Inv => RollupAgrees
  BY MeterImplies DEF RollupAgrees
<1>q. QED BY <1>1, <1>2, <1>3, PTL DEF ServicesSpec

\* A server whose close() has returned takes and runs nothing more, and a client
\* that is refused finds its refusal in the audit (server.mjs of CaaS and DSaaS).
THEOREM ServerIsKeptSafe == ServicesSpec => []ServerIsSafe
<1> DEFINE Inv == part = "server" => ServerInv
<1>1. OneInit => Inv
  BY ServerStarts DEF OneInit
<1>2. Inv /\ [OneNext]_services_vars => Inv'
  BY OnePartMoves, ServerStays
<1>3. Inv => ServerIsSafe
  BY ServerImplies DEF ServerIsSafe
<1>q. QED BY <1>1, <1>2, <1>3, PTL DEF ServicesSpec

\* No request reaches the rows of another tenant without an approval in force,
\* and its permit or denial is in the audit chain before it is answered
\* (postgres-tenant-store.mjs).
THEOREM AccessStaysAudited == ServicesSpec => []AccessIsAudited
<1> DEFINE Inv == part = "tenants" => StoreInv
<1>1. OneInit => Inv
  BY StoreStarts DEF OneInit
<1>2. Inv /\ [OneNext]_services_vars => Inv'
  BY OnePartMoves, StoreStays
<1>3. Inv => AccessIsAudited
  BY StoreImplies DEF AccessIsAudited
<1>q. QED BY <1>1, <1>2, <1>3, PTL DEF ServicesSpec

\* A publication reported as done has all of its objects at the connector with
\* its own content, a contract definition there offers the whole of one, and
\* the circuit opens (edc-v4-management-client.mjs, http-client.mjs).
THEOREM OffersStayWhole == ServicesSpec => []ClientIsSafe
<1> DEFINE Inv == part = "client" => ClientInv
<1>1. OneInit => Inv
  BY ClientStarts DEF OneInit
<1>2. Inv /\ [OneNext]_services_vars => Inv'
  BY OnePartMoves, ClientStays
<1>3. Inv => ClientIsSafe
  BY ClientImplies DEF ClientIsSafe
<1>q. QED BY <1>1, <1>2, <1>3, PTL DEF ServicesSpec

\* What a caller was told to be stored survives a power loss, a call that was
\* aborted leaves nothing, and every start finds a file that passes the
\* validation (caas/store.mjs, dsaas/store.mjs).
THEOREM CommitsStayDurable == ServicesSpec => []FileIsSafe
<1> DEFINE Inv == part = "file" => FileInv
<1>1. OneInit => Inv
  BY FileStarts DEF OneInit
<1>2. Inv /\ [OneNext]_services_vars => Inv'
  BY OnePartMoves, FileStays
<1>3. Inv => FileIsSafe
  BY FileImplies DEF FileIsSafe
<1>q. QED BY <1>1, <1>2, <1>3, PTL DEF ServicesSpec

\* Every target of an unchanged list gets its turn within a round, whatever
\* fails, blocks or is skipped meanwhile (scheduler.mjs).
THEOREM TurnsGoRound == ServicesSpec => []TurnsAreTaken
<1> DEFINE Inv == part = "scheduler" => ClockInv
<1>1. OneInit => Inv
  BY ClockStarts DEF OneInit
<1>2. Inv /\ [OneNext]_services_vars => Inv'
  BY OnePartMoves, ClockStays
<1>3. Inv => TurnsAreTaken
  BY ClockImplies DEF TurnsAreTaken
<1>q. QED BY <1>1, <1>2, <1>3, PTL DEF ServicesSpec

\* A tick that leaves the scheduler ready has met no failure of its own, and no
\* dataspace, taken or not, has had one on record ever since the tick began to read
\* the backlog, whatever the calls do between the reads (scheduler.mjs, service.mjs).
THEOREM ReadyIsEarned == ServicesSpec => ReadyHasNoBacklog
<1> DEFINE Inv    == part = "scheduler" => ClockInv /\ BacklogInv
           Earned == part = "scheduler" /\ Clock!Report /\ Clock!Ready' => ill = {} /\ ~ tick.failed
<1>1. OneInit => Inv
  BY ClockStarts, BacklogStarts DEF OneInit
<1>2. Inv /\ [OneNext]_services_vars => Inv'
  BY OnePartMoves, ClockStays, BacklogStays
<1>3. Inv => Earned
  <2> SUFFICES ASSUME ClockInv, BacklogInv, Clock!Report, Clock!Ready' PROVE ill = {} /\ ~ tick.failed
    OBVIOUS
  <2>1. tick.at = "reading" /\ tick.unread = {}
    BY DEF Clock!Report
  <2>2. failures' = (tick.backlog \/ tick.failed) /\ ~ failures'
    BY DEF Clock!Report, Clock!Finished, Clock!Backlog, Clock!Ready
  <2>q. QED BY <2>1, <2>2 DEF BacklogInv
<1>4. Inv /\ [OneNext]_services_vars => [Earned]_<<part, clock_vars>>
  BY <1>3
<1>q. QED BY <1>1, <1>2, <1>4, PTL DEF ServicesSpec, ReadyHasNoBacklog

\* The move to the scoped store loses nothing that was told, forks no audit
\* chain and leaves roots that agree (scoped-cutover.mjs).
THEOREM CutoverStaysSafe == ServicesSpec => []CutoverIsSafe
<1> DEFINE Inv == part = "cutover" => CutoverInv
<1>1. OneInit => Inv
  BY CutoverStarts DEF OneInit
<1>2. Inv /\ [OneNext]_services_vars => Inv'
  BY OnePartMoves, CutoverStays
<1>3. Inv => CutoverIsSafe
  BY CutoverImplies DEF CutoverIsSafe
<1>q. QED BY <1>1, <1>2, <1>3, PTL DEF ServicesSpec

=============================================================================

---------------------------- MODULE JobRowProofs ----------------------------
(***************************************************************************)
(* What each transaction of JobRow does to the fields of a row, for every  *)
(* row, worker, lease length and number of attempts.                       *)
(***************************************************************************)
EXTENDS JobRow, TLAPS

LEMMA OwnerKept ==
  ASSUME NEW r \in Row
  PROVE  /\ Extended(r) \in Row /\ Extended(r).status = r.status
         /\ Extended(r).gen = r.gen /\ Extended(r).owner = r.owner
         /\ Aged(r) \in Row /\ Aged(r).status = r.status
         /\ Aged(r).gen = r.gen /\ Aged(r).owner = r.owner
         /\ Cancelled(r) \in Row
         /\ Cancelled(r).gen = r.gen /\ Cancelled(r).owner = r.owner
         /\ Cancelled(r).status = IF r.status = "RUNNING" THEN "CANCEL_REQUESTED" ELSE "CANCELLED"
BY LeaseAssumption DEF Row, Status, ActiveStatus, Terminal, Extended, Aged, Cancelled

LEMMA ReleasedRow ==
  ASSUME NEW r \in Row, NEW s \in Status
  PROVE  Released(r, s) \in Row
BY DEF Row, Released

LEMMA NewRows ==
  /\ AbsentRow \in Row /\ QueuedRow \in Row
  /\ \A r \in Row, w \in Workers : Claimed(r, w) \in Row
BY LeaseAssumption DEF Row, Status, ActiveStatus, Terminal, AbsentRow, QueuedRow, Claimed

LEMMA ReapedRow ==
  ASSUME NEW r \in Row
  PROVE  /\ Reaped(r) \in Row
         /\ Reaped(r).gen = r.gen
         /\ Reaped(r).owner \in {r.owner, NoWorker}
         /\ \/ Reaped(r) = r
            \/ /\ Reaped(r).owner = NoWorker
               /\ \/ r.status = "CANCEL_REQUESTED" /\ Reaped(r).status = "CANCELLED"
                  \/ r.status = "RUNNING" /\ Reaped(r).status = "FAILED"
                  \/ r.status = "RUNNING" /\ Reaped(r).status = "INTERRUPTED" /\ r.gen < MaxAttempts
<1>1. ReapedStatus(r) \in Status
  BY DEF ReapedStatus, Status, ActiveStatus, Terminal
<1>2. Reaped(r) \in Row
  BY <1>1, ReleasedRow DEF Reaped
<1> QED
  BY <1>2, AttemptsAssumption DEF Row, Reaped, Released, Expired, ReapedStatus

LEMMA RecoveredRow ==
  ASSUME NEW r \in Row
  PROVE  /\ Recovered(r) \in Row
         /\ Recovered(r).gen = r.gen
         /\ Recovered(r).owner =
              IF r.status \in {"RUNNING", "CANCEL_REQUESTED"} THEN NoWorker ELSE r.owner
         /\ Recovered(r).status =
              IF r.status = "RUNNING" THEN "INTERRUPTED"
              ELSE IF r.status = "CANCEL_REQUESTED" THEN "CANCELLED" ELSE r.status
<1>1. Recovered(r) \in Row
  BY ReleasedRow DEF Recovered, Status, ActiveStatus, Terminal
<1> QED
  BY <1>1 DEF Row, Recovered, Released

LEMMA FinishedRow ==
  ASSUME NEW r \in Row, NEW w \in Workers, NEW g \in Nat,
         NEW s \in {"COMPLETED", "FAILED", "CANCELLED", "INTERRUPTED"},
         r.status \notin {"RUNNING", "CANCEL_REQUESTED"} => r.owner = NoWorker
  PROVE  /\ AfterFinish(r, w, g, s) \in Row
         /\ AfterFinish(r, w, g, s).gen = r.gen
         /\ \/ AfterFinish(r, w, g, s) = r
            \/ /\ r.status = "RUNNING" /\ AfterFinish(r, w, g, s).status = s
               /\ AfterFinish(r, w, g, s).owner = NoWorker
            \/ /\ r.status = "CANCEL_REQUESTED" /\ AfterFinish(r, w, g, s).status = "CANCELLED"
               /\ AfterFinish(r, w, g, s).owner = NoWorker
<1>1. FinalStatus(r, s) \in Status
  BY DEF FinalStatus, Status, ActiveStatus, Terminal
<1>2. AfterFinish(r, w, g, s) \in Row
  BY <1>1, ReleasedRow DEF AfterFinish
<1> QED
  BY <1>2, WorkersAssumption DEF Row, AfterFinish, Finishes, HoldsLease, Released, FinalStatus
=============================================================================

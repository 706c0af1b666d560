------------------------------- MODULE JobRow -------------------------------
(***************************************************************************)
(* One row of the runtime_jobs table of backend/storage.py and the changes *)
(* the store's transactions make to it.  Every operator here is the body   *)
(* of one BEGIN IMMEDIATE transaction, seen from one row; the modules that *)
(* extend this one add the other tables the same transaction writes.       *)
(*                                                                         *)
(* Time is relative: r.lease is the number of ticks until lease_expires_at *)
(* (positive: alive, 0: expires now, -1: in the past), so the three        *)
(* comparisons of the code, expires > now, expires >= now, expires < now,  *)
(* stay three different conditions.  A worker id is a fresh uuid per claim *)
(* in the code; here the worker is a thread and the pair <<worker, gen>>   *)
(* identifies the attempt, which is what every check compares.             *)
(***************************************************************************)
EXTENDS Integers

CONSTANTS
  Workers,      \* who may hold a lease
  NoWorker,     \* lease_owner IS NULL
  LeaseTicks,   \* length of a lease (30, 60 or 120 s in the code)
  MaxAttempts   \* attempts after which an expired lease fails the job (3)

ASSUME WorkersAssumption == NoWorker \notin Workers
ASSUME LeaseAssumption == LeaseTicks \in Nat \ {0}
ASSUME AttemptsAssumption == MaxAttempts \in Nat \ {0}

Terminal == {"COMPLETED", "FAILED", "CANCELLED"}
ActiveStatus == {"QUEUED", "RUNNING", "INTERRUPTED", "CANCEL_REQUESTED"}
Status == {"ABSENT"} \cup ActiveStatus \cup Terminal

Row == [status : Status, owner : Workers \cup {NoWorker}, gen : Nat, lease : Int]

AbsentRow == [status |-> "ABSENT", owner |-> NoWorker, gen |-> 0, lease |-> 0]
QueuedRow == [AbsentRow EXCEPT !.status = "QUEUED"]

-----------------------------------------------------------------------------
(* Who may write for a job.                                                *)

HoldsLease(r, w, g) == r.owner = w /\ r.gen = g /\ r.lease > 0

\* Wrong variant: the publication forgets to look at the status.
AuthorityBlindToCancel(r, w, g) == HoldsLease(r, w, g)

HasAuthority(r, w, g) == HoldsLease(r, w, g) /\ r.status = "RUNNING"

HasAuthorityOrCancel(r, w, g) ==
  HoldsLease(r, w, g) /\ r.status \in {"RUNNING", "CANCEL_REQUESTED"}

-----------------------------------------------------------------------------
(* The transactions.                                                       *)

Claimable(r) ==
  \/ r.status \in {"QUEUED", "INTERRUPTED"}
  \/ r.status = "RUNNING" /\ r.lease < 0

Claimed(r, w) ==
  [status |-> "RUNNING", owner |-> w, gen |-> r.gen + 1, lease |-> LeaseTicks]

Extended(r) == [r EXCEPT !.lease = LeaseTicks]

Released(r, s) == [status |-> s, owner |-> NoWorker, gen |-> r.gen, lease |-> 0]

\* finish_runtime_job: a terminal row is returned as it is, a lost lease is an
\* error that writes nothing, and an accepted cancellation overrides the report.
Finishes(r, w, g) == r.status \notin Terminal /\ HoldsLease(r, w, g)
\* Wrong variant: the report of the thread overrides the accepted cancellation.
ReportWins(r, s) == s

FinalStatus(r, s) == IF r.status = "CANCEL_REQUESTED" THEN "CANCELLED" ELSE s
AfterFinish(r, w, g, s) ==
  IF Finishes(r, w, g) THEN Released(r, FinalStatus(r, s)) ELSE r

Cancellable(r) == r.status \in {"QUEUED", "INTERRUPTED", "RUNNING"}
Cancelled(r) ==
  [r EXCEPT !.status = IF @ = "RUNNING" THEN "CANCEL_REQUESTED" ELSE "CANCELLED"]

Expired(r) == r.status \in {"RUNNING", "CANCEL_REQUESTED"} /\ r.lease < 0
\* Wrong variants: a status of its own for a lost lease, and one attempt too many.
ReapedAsExpired(r) == "EXPIRED"
ReapedLate(r) ==
  CASE r.status = "CANCEL_REQUESTED" -> "CANCELLED"
    [] r.status # "CANCEL_REQUESTED" /\ r.gen > MaxAttempts -> "FAILED"
    [] OTHER -> "INTERRUPTED"

ReapedStatus(r) ==
  CASE r.status = "CANCEL_REQUESTED" -> "CANCELLED"
    [] r.status # "CANCEL_REQUESTED" /\ r.gen >= MaxAttempts -> "FAILED"
    [] OTHER -> "INTERRUPTED"
Reaped(r) == IF Expired(r) THEN Released(r, ReapedStatus(r)) ELSE r

Recovered(r) ==
  CASE r.status = "RUNNING" -> Released(r, "INTERRUPTED")
    [] r.status = "CANCEL_REQUESTED" -> Released(r, "CANCELLED")
    [] OTHER -> r

\* The clock: a lease that has been in the past for long is still in the past.
Aged(r) ==
  IF r.owner # NoWorker /\ r.lease > -1 THEN [r EXCEPT !.lease = @ - 1] ELSE r
=============================================================================

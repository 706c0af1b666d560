---------------------------- MODULE JobContract ----------------------------
(***************************************************************************)
(* What the runtime promises about a planning job, whatever threads,       *)
(* leases, reaps and restarts did in between (spec.md: publication and the *)
(* job's final state are decided in one write transaction; a cancellation  *)
(* that comes first refuses publication, a publication that comes first    *)
(* stands).  A job is open until it is published, failed or cancelled; the *)
(* plan appears in the very step that closes it as published.              *)
(***************************************************************************)
EXTENDS Integers

CONSTANT Jobs

VARIABLES
  outcome,  \* what a client is told of each job
  plans     \* how many plan versions each job has published

vars == <<outcome, plans>>

Init ==
  /\ outcome = [j \in Jobs |-> "none"]
  /\ plans = [j \in Jobs |-> 0]

Close(j, from, to) ==
  /\ outcome[j] \in from
  /\ outcome' = [outcome EXCEPT ![j] = to]

Submit(j) == Close(j, {"none"}, "open") /\ UNCHANGED plans

Publish(j) ==
  /\ Close(j, {"open"}, "published")
  /\ plans' = [plans EXCEPT ![j] = @ + 1]

AcceptCancel(j) == Close(j, {"open"}, "cancelling") /\ UNCHANGED plans

Cancel(j) == Close(j, {"open", "cancelling"}, "cancelled") /\ UNCHANGED plans

\* A failure, or one transaction of the reaper or of restart recovery, which may
\* settle several jobs.
Settle ==
  /\ UNCHANGED plans
  /\ outcome' \in [Jobs -> {"none", "open", "cancelling", "published", "failed", "cancelled"}]
  /\ \A j \in Jobs :
       \/ outcome'[j] = outcome[j]
       \/ outcome[j] = "cancelling" /\ outcome'[j] = "cancelled"
       \/ outcome[j] = "open" /\ outcome'[j] = "failed"

Next ==
  \/ \E j \in Jobs : Submit(j) \/ Publish(j) \/ AcceptCancel(j) \/ Cancel(j)
  \/ Settle

Spec == Init /\ [][Next]_vars
=============================================================================

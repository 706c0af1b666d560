------------------------- MODULE ManualReassignment -------------------------
(***************************************************************************)
(* One manual reassignment, _manual_reassignment of backend/main.py: a     *)
(* saga that saves the dispatcher's lock as a data revision, replans under *)
(* it and publishes, every step a transaction of its own, each recorded in *)
(* one row of command_keys.  The same request is sent again until it gets  *)
(* an answer; a lock per key in the process serializes the calls, and the  *)
(* process may die between any two steps.                                  *)
(*                                                                         *)
(* The request names the plan the dispatcher saw, as expected_active_plan_ *)
(* version_id.  The field is optional (main.py hands it to the replan only *)
(* if it is set): a request without it asks for no particular plan, is     *)
(* replanned over whichever is active, and is not modelled.                *)
(*                                                                         *)
(* A revision is the name of who made it: an edit, a lock saved by this    *)
(* saga or by somebody else, a lock released.  The replan runs in the      *)
(* thread of the request, under the schedule-solve command of its key.     *)
(***************************************************************************)
EXTENDS Integers, Sequences, FiniteSets

CONSTANTS
  Threads,      \* calls of the endpoint at one time
  NoThread,
  LockIds,      \* identities of lock objects
  NoLock,
  MaxRevision,  \* bound: revisions other users add up to
  MaxPlans,     \* bound: plan versions other users add up to
  MaxRestarts   \* bound: restarts of the process

ASSUME LocksAssumption == NoThread \notin Threads /\ NoLock \notin LockIds
ASSUME ThreadsAssumption == IsFiniteSet(Threads)
ASSUME BoundsAssumption == {MaxRevision, MaxPlans, MaxRestarts} \subseteq Nat

VARIABLES
  chain,     \* scenario_revisions: who made each revision
  locked,    \* the scenario holds the lock the request asks for
  active,    \* active_plan_version_id
  plans,     \* plan_versions: revision, made under the lock, by whom
  published, \* publication_keys: the plan of the request's key
  command,   \* the row of :manual-reassignment
  solve,     \* the row of schedule-solve
  run,       \* the schedule run RUN-MR-... and its reservation
  ask,       \* the request: expected revision and expected active plan
  saga,      \* where each thread is, and what it has read
  mutex,     \* manual_reassignment_locks, and who holds which lock object
  restarts

tables == <<chain, locked, active, plans, published>>
records == <<command, solve, run>>
vars == <<tables, records, ask, saga, mutex, restarts>>

NoPlan == 0
Unset == -1
rev == Len(chain)

Resumable == {"RESERVED", "LOCK_COMMITTED", "REPLAN_CREATED", "PLAN_PUBLISHED"}
Ended == {"COMPLETED", "FAILED", "FAILED_AFTER_LOCK", "FAILED_CONTEXT_CHANGED"}
CommandStatus == {"NONE"} \cup Resumable \cup Ended
Step == {"idle", "waiting", "read", "known", "created", "lock", "commit", "context", "replan",
         "prepare", "record", "solve", "complete", "publish", "finish", "unlocked", "failed", "leave"}

TypeOK ==
  /\ chain \in Seq({"edit", "reassign", "lock", "unlock"}) /\ rev <= MaxRevision + 1
  /\ locked \in BOOLEAN
  /\ plans \in Seq([rev : Nat, locked : BOOLEAN, by : {"reassign", "replan", "other"}])
  /\ {active, published} \subseteq 0 .. Len(plans)
  /\ command \in [status : CommandStatus, lockRev : Nat \cup {Unset}]
  /\ solve \in [status : {"NONE", "RUNNING", "COMPLETED", "FAILED", "FAILED_RETRYABLE"}, rev : Nat \cup {Unset}]
  /\ run \in [status : {"NONE", "RUNNING", "RESTARTED", "DONE", "FAILED"}, rev : Nat, active : Nat]
  /\ ask \in [rev : Nat \cup {Unset}, active : Nat]
  /\ saga \in [Threads -> [at : Step, rev : Nat, seen : CommandStatus, lock : LockIds \cup {NoLock}]]
  /\ (mutex.entry = NoLock) = (mutex.users = 0)
  /\ mutex \in [entry : LockIds \cup {NoLock}, users : 0 .. Cardinality(Threads), held : [LockIds -> Threads \cup {NoThread}]]
  /\ restarts \in 0 .. MaxRestarts

IdleThread == [at |-> "idle", rev |-> 0, seen |-> "NONE", lock |-> NoLock]
NoMutex == [entry |-> NoLock, users |-> 0, held |-> [l \in LockIds |-> NoThread]]

Init ==
  /\ chain = <<>> /\ locked = FALSE /\ active = NoPlan /\ plans = <<>> /\ published = NoPlan
  /\ command = [status |-> "NONE", lockRev |-> Unset]
  /\ solve = [status |-> "NONE", rev |-> Unset]
  /\ run = [status |-> "NONE", rev |-> 0, active |-> NoPlan]
  /\ ask = [rev |-> Unset, active |-> NoPlan]
  /\ saga = [t \in Threads |-> IdleThread]
  /\ mutex = NoMutex
  /\ restarts = 0

-----------------------------------------------------------------------------
(* manual_reassignment: a reference-counted lock object for the key.       *)

\* Wrong variants: the entry is dropped by whoever leaves first, or by nobody.
DropAlways(t) == TRUE
DropLate(t) == mutex.users <= 0

LastUser(t) == mutex.users <= 1

Free(l) == mutex.entry # l /\ \A t \in Threads : saga[t].lock # l

Enter(t) ==
  /\ saga[t].at = "idle"
  /\ \E l \in LockIds :
       /\ IF mutex.entry # NoLock THEN l = mutex.entry ELSE Free(l)
       /\ mutex' = [mutex EXCEPT !.entry = l, !.users = @ + 1]
       /\ saga' = [saga EXCEPT ![t] = [IdleThread EXCEPT !.at = "waiting", !.lock = l]]
  /\ ask' = IF ask.rev = Unset THEN [rev |-> rev, active |-> active] ELSE ask
  /\ UNCHANGED <<tables, records, restarts>>

Acquire(t) ==
  /\ saga[t].at = "waiting" /\ mutex.held[saga[t].lock] = NoThread
  /\ mutex' = [mutex EXCEPT !.held[saga[t].lock] = t]
  /\ saga' = [saga EXCEPT ![t].at = "read", ![t].rev = rev]
  /\ UNCHANGED <<tables, records, ask, restarts>>

Leave(t) ==
  /\ saga[t].at = "leave"
  /\ LET released == [mutex EXCEPT !.held[saga[t].lock] = NoThread] IN
       mutex' = IF mutex.entry # saga[t].lock THEN released
                ELSE IF LastUser(t) THEN [released EXCEPT !.entry = NoLock, !.users = 0]
                ELSE [released EXCEPT !.users = @ - 1]
  /\ saga' = [saga EXCEPT ![t] = IdleThread]
  /\ UNCHANGED <<tables, records, ask, restarts>>

At(t, place) == saga[t].at = place
Go(t, place) == saga' = [saga EXCEPT ![t].at = place]
SetCommand(s) == command' = [command EXCEPT !.status = s]
Revise(who) == chain' = Append(chain, who)

-----------------------------------------------------------------------------
(* The saga.                                                               *)

\* Finished commands answer by themselves; a new one needs the revision the
\* dispatcher saw.
Look(t) ==
  /\ At(t, "read")
  /\ saga' = [saga EXCEPT ![t].seen = command.status,
                          ![t].at = IF command.status \in Ended THEN "leave"
                                    ELSE IF command.status = "NONE" /\ saga[t].rev # ask.rev THEN "leave"
                                    ELSE "known"]
  /\ UNCHANGED <<tables, records, ask, mutex, restarts>>

\* Wrong variant: the command is recorded after the lock was saved.
RecordedLate(s) == s

BeginAs(s) == IF s = "NONE" THEN "RESERVED" ELSE s

Begin(t) ==
  /\ At(t, "known")
  /\ SetCommand(BeginAs(command.status))
  /\ saga' = [saga EXCEPT ![t].at = "created", ![t].seen = IF @ = "NONE" THEN "RESERVED" ELSE @]
  /\ UNCHANGED <<tables, solve, run, ask, mutex, restarts>>

\* A publication under the key is the answer, else the recorded phase decides.
Check(t) ==
  /\ At(t, "created")
  /\ IF published # NoPlan THEN SetCommand("COMPLETED") /\ Go(t, "leave")
     ELSE Go(t, IF saga[t].seen = "RESERVED" THEN "lock" ELSE "context") /\ UNCHANGED command
  /\ UNCHANGED <<tables, solve, run, ask, mutex, restarts>>

\* The lock is there at the expected revision or the next: saved before a
\* crash, or by somebody else.  Otherwise _lock_assignment saves it on the
\* expected revision; the order may have been started or deleted.
LockIsThere == locked /\ rev \in {ask.rev, ask.rev + 1}

\* Wrong variant: the lock is saved on whatever revision there is.
OnAnyRevision == TRUE

OnExpectedRevision == rev = ask.rev

SaveLock(t) ==
  /\ At(t, "lock")
  /\ IF LockIsThere THEN saga' = [saga EXCEPT ![t].at = "commit", ![t].rev = rev] /\ UNCHANGED tables
     ELSE \/ /\ OnExpectedRevision /\ Revise("reassign") /\ locked' = TRUE
             /\ saga' = [saga EXCEPT ![t].at = "commit", ![t].rev = rev + 1]
             /\ UNCHANGED <<active, plans, published>>
          \/ Go(t, "unlocked") /\ UNCHANGED tables
  /\ UNCHANGED <<records, ask, mutex, restarts>>

FailUnlocked(t) ==
  /\ At(t, "unlocked")
  /\ SetCommand("FAILED") /\ Go(t, "leave")
  /\ UNCHANGED <<tables, solve, run, ask, mutex, restarts>>

CommitLock(t) ==
  /\ At(t, "commit")
  /\ command' = [status |-> "LOCK_COMMITTED", lockRev |-> saga[t].rev]
  /\ Go(t, "replan")
  /\ UNCHANGED <<tables, solve, run, ask, mutex, restarts>>

\* A resumed command goes on only in the context its lock was saved in.
SameContext == locked /\ rev = command.lockRev

Resume(t) ==
  /\ At(t, "context")
  /\ IF SameContext THEN Go(t, "replan") /\ UNCHANGED command
     ELSE SetCommand("FAILED_CONTEXT_CHANGED") /\ Go(t, "leave")
  /\ UNCHANGED <<tables, solve, run, ask, mutex, restarts>>

\* _run_replan: the scenario, the publication key and the solve command.  The
\* fingerprints hold the revision, so a publication under the key is either
\* the same request's or a conflict.
Replan(t) ==
  /\ At(t, "replan")
  /\ \/ /\ published = NoPlan /\ solve.status \in {"NONE", "FAILED_RETRYABLE"} /\ solve.rev \in {Unset, rev}
        /\ solve' = [status |-> "RUNNING", rev |-> rev]
        /\ saga' = [saga EXCEPT ![t].at = "prepare", ![t].rev = rev]
        /\ UNCHANGED command
     \/ /\ published = NoPlan /\ solve.status = "RUNNING" /\ solve.rev = rev
        /\ Go(t, "leave") /\ UNCHANGED <<solve, command>>
     \/ /\ published # NoPlan \/ solve.status = "FAILED" \/ solve.rev \notin {Unset, rev}
        /\ Go(t, "failed") /\ UNCHANGED <<solve, command>>
     \/ /\ published # NoPlan /\ plans[published].rev = rev
        /\ SetCommand("PLAN_PUBLISHED") /\ Go(t, "finish") /\ UNCHANGED solve
  /\ UNCHANGED <<tables, run, ask, mutex, restarts>>

FailSolve(t) == solve' = [solve EXCEPT !.status = "FAILED"] /\ Go(t, "failed")

\* reserve_plan_command: the run keeps its identity, an interrupted one goes on.
Reserved ==
  IF run.status = "NONE" THEN [status |-> "RUNNING", rev |-> rev, active |-> active]
  ELSE IF run.status = "RESTARTED" THEN [run EXCEPT !.status = "RUNNING"] ELSE run

Prepare(t) ==
  /\ At(t, "prepare")
  /\ IF rev = saga[t].rev /\ active = ask.active THEN run' = Reserved /\ Go(t, "record") /\ UNCHANGED solve
     ELSE FailSolve(t) /\ UNCHANGED run
  /\ UNCHANGED <<tables, command, ask, mutex, restarts>>

RecordRun(t) ==
  /\ At(t, "record")
  /\ SetCommand("REPLAN_CREATED") /\ Go(t, "solve")
  /\ UNCHANGED <<tables, solve, run, ask, mutex, restarts>>

\* The solver finds a schedule or fails, and the run is told.
Solve(t) ==
  /\ At(t, "solve")
  /\ \/ Go(t, "complete") /\ UNCHANGED <<solve, run>>
     \/ /\ run' = IF run.status = "RUNNING" THEN [run EXCEPT !.status = "FAILED"] ELSE run
        /\ FailSolve(t)
  /\ UNCHANGED <<tables, command, ask, mutex, restarts>>

\* complete_schedule_run: once; then the candidate is publishable or not.
Complete(t) ==
  /\ At(t, "complete")
  /\ IF run.status = "RUNNING"
     THEN /\ run' = [run EXCEPT !.status = "DONE"]
          /\ (Go(t, "publish") /\ UNCHANGED solve) \/ FailSolve(t)
     ELSE Go(t, "failed") /\ UNCHANGED <<solve, run>>
  /\ UNCHANGED <<tables, command, ask, mutex, restarts>>

\* publish_plan: plan, key, active pointer and both commands.
\* Wrong variant: nobody compares the active plan.
AnyActive == rev = run.rev

StillReserved == rev = run.rev /\ active = run.active

AddPlan(who) ==
  /\ plans' = Append(plans, [rev |-> rev, locked |-> locked, by |-> who])
  /\ active' = Len(plans) + 1

Publish(t) ==
  /\ At(t, "publish")
  /\ \/ /\ published = NoPlan /\ StillReserved
        /\ AddPlan("reassign") /\ published' = Len(plans) + 1
        /\ SetCommand("PLAN_PUBLISHED")
        /\ solve' = [solve EXCEPT !.status = "COMPLETED"]
        /\ Go(t, "finish")
        /\ UNCHANGED <<chain, locked>>
     \/ /\ published # NoPlan \/ ~StillReserved
        /\ FailSolve(t) /\ UNCHANGED <<tables, command>>
  /\ UNCHANGED <<run, ask, mutex, restarts>>

Finish(t) ==
  /\ At(t, "finish")
  /\ SetCommand("COMPLETED") /\ Go(t, "leave")
  /\ UNCHANGED <<tables, solve, run, ask, mutex, restarts>>

FailAfterLock(t) ==
  /\ At(t, "failed")
  /\ SetCommand("FAILED_AFTER_LOCK") /\ Go(t, "leave")
  /\ UNCHANGED <<tables, solve, run, ask, mutex, restarts>>

SagaStep(t) ==
  \/ Acquire(t) \/ Leave(t) \/ Look(t) \/ Begin(t) \/ Check(t) \/ SaveLock(t) \/ FailUnlocked(t)
  \/ CommitLock(t) \/ Resume(t) \/ Replan(t) \/ Prepare(t) \/ RecordRun(t) \/ Solve(t) \/ Complete(t)
  \/ Publish(t) \/ Finish(t) \/ FailAfterLock(t)

-----------------------------------------------------------------------------
(* Everybody else.                                                         *)

Edit == Revise("edit") /\ UNCHANGED locked
LockByOther == ~locked /\ Revise("lock") /\ locked' = TRUE
Unlock == locked /\ Revise("unlock") /\ locked' = FALSE
ChangeScenario ==
  /\ rev < MaxRevision
  /\ Edit \/ LockByOther \/ Unlock
  /\ UNCHANGED <<active, plans, published, records, ask, saga, mutex, restarts>>

PublishOther ==
  /\ Len(plans) < MaxPlans
  /\ AddPlan("other")
  /\ UNCHANGED <<chain, locked, published, records, ask, saga, mutex, restarts>>

\* An ordinary replan under the same key: every command of the key is told.
ReplanSameKey ==
  /\ Len(plans) < MaxPlans
  /\ published = NoPlan /\ solve.status = "NONE"
  /\ AddPlan("replan") /\ published' = Len(plans) + 1
  /\ solve' = [status |-> "COMPLETED", rev |-> rev]
  /\ SetCommand(IF command.status = "NONE" THEN "NONE" ELSE "PLAN_PUBLISHED")
  /\ UNCHANGED <<chain, locked, run, ask, saga, mutex, restarts>>

\* Wrong variant: the recovery leaves the solve command to whoever runs it.
LeavesSolve == solve

RecoveredSolve == IF solve.status = "RUNNING" THEN [solve EXCEPT !.status = "FAILED_RETRYABLE"] ELSE solve

\* The process dies; the recovery settles the run and the solve command and
\* leaves the command of the saga to its client.
Restart ==
  /\ restarts < MaxRestarts
  /\ restarts' = restarts + 1
  /\ saga' = [t \in Threads |-> IdleThread]
  /\ mutex' = NoMutex
  /\ run' = IF run.status = "RUNNING" THEN [run EXCEPT !.status = "RESTARTED"] ELSE run
  /\ solve' = RecoveredSolve
  /\ UNCHANGED <<tables, command, ask>>

Next ==
  \/ \E t \in Threads : Enter(t) \/ SagaStep(t)
  \/ ChangeScenario \/ PublishOther \/ ReplanSameKey \/ Restart

\* The client repeats a request until it is answered, and threads go on.
Spec == Init /\ [][Next]_vars
FairSpec ==
  /\ Spec
  /\ \A t \in Threads : WF_vars(SagaStep(t)) /\ WF_vars(command.status \in Resumable /\ Enter(t))

-----------------------------------------------------------------------------
(* What the saga promises.                                                 *)

\* One lock, one revision, one plan, however often the request is repeated and
\* wherever the process died (CHANGELOG: without duplicating the lock, D, Run, or V).
OnceEach ==
  /\ Cardinality({d \in DOMAIN chain : chain[d] = "reassign"}) <= 1
  /\ Cardinality({n \in DOMAIN plans : plans[n].by = "reassign"}) <= 1

\* Two calls of one key are never inside the saga together.
OneSagaAtATime ==
  \A t, u \in Threads : {saga[t].at, saga[u].at} \cap {"idle", "waiting"} = {} => t = u

\* The lock is never saved without the record that says who is to finish it.
LockIsRecorded == (\E d \in DOMAIN chain : chain[d] = "reassign") => command.status # "NONE"

\* At every step, and after a death at any: one call works on the saga and
\* whatever lock it saved is on record.
Consistent == TypeOK /\ OneSagaAtATime /\ LockIsRecorded

\* Its plan replaces the plan the dispatcher had seen, is never made for a
\* revision older than the lock, and lacks the lock only if somebody released it.
PlannedOverSeenPlan ==
  [][Len(plans') > Len(plans) /\ plans'[Len(plans')].by = "reassign" =>
       /\ active = ask.active
       /\ plans'[Len(plans')].rev >= command.lockRev
       /\ locked \/ \E d \in command.lockRev + 1 .. rev : chain[d] = "unlock"]_vars

\* A command that was begun ends, as long as its client asks again.
EveryCommandEnds == command.status \in Resumable ~> command.status \in Ended
=============================================================================

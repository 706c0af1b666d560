---------------------------- MODULE RuntimeJobs ----------------------------
(***************************************************************************)
(* The durable job runtime for planning jobs (BASELINE, OPTIMIZE, REPLAN): *)
(* the runtime_jobs table, the dispatcher thread and the pool threads of   *)
(* backend/main.py, the reaper, cancellation by a client, the publication  *)
(* transaction that commits a plan together with its job, the command key  *)
(* that makes a keyed request replayable, shutdown, crash and restart.     *)
(*                                                                         *)
(* Solving runs in a child process that only talks to its thread through a *)
(* pipe, so it has no state here; what a solve or the checks of the        *)
(* publication decide is a choice between success and failure.             *)
(***************************************************************************)
EXTENDS JobRow, FiniteSets

CONSTANTS
  Jobs,         \* job ids
  LongJobs,     \* those of a long type (OPTIMIZE)
  ReplanJobs,   \* those run by _run_replan (REPLAN)
  KeyedJobs,    \* those whose request carries an idempotency key
  NoJob,        \* a thread with nothing to do
  QueueLimit,   \* active jobs accepted (64)
  LongLanes,    \* long jobs the dispatcher keeps in flight (2)
  MaxRestarts   \* bound: how often the process stops or dies

ASSUME JobsAssumption ==
  /\ NoJob \notin Jobs
  /\ LongJobs \subseteq Jobs /\ KeyedJobs \subseteq Jobs
  /\ ReplanJobs \subseteq Jobs \ LongJobs
ASSUME QueueAssumption == QueueLimit \in Nat
ASSUME LanesAssumption == LongLanes \in Nat
ASSUME RestartsAssumption == MaxRestarts \in Nat

VARIABLES
  (* SQLite *)
  row,        \* runtime_jobs
  cmd,        \* command_keys: the "schedule-solve" command of each keyed job
  plans,      \* number of plan versions each job has published
  (* the pool: one thread per semaphore slot *)
  pc,         \* where each thread is
  on,         \* the job it was submitted with
  gen,        \* the attempt_number it claimed
  (* the dispatcher *)
  dpc,        \* its place in the loop
  pending,    \* its futures, by job
  listed,     \* what is left of the list it read
  (* the process *)
  phase,      \* "up", "stopping" or "down"
  restarts    \* bound

store == <<row, cmd, plans>>
pool == <<pc, on, gen>>
dispatcher == <<dpc, pending, listed>>
process == <<phase, restarts>>
vars == <<store, pool, dispatcher, process>>

PC == {"idle", "submitted", "begin", "solve", "record", "publish", "undo", "failing", "interrupt", "finish"}
CommandStatus == {"NONE", "RUNNING", "COMPLETED", "FAILED", "FAILED_RETRYABLE"}
CommandTerminal == {"COMPLETED", "FAILED"}

TypeOK ==
  /\ row \in [Jobs -> Row]
  /\ cmd \in [Jobs -> CommandStatus]
  /\ plans \in [Jobs -> Nat]
  /\ pc \in [Workers -> PC]
  /\ on \in [Workers -> Jobs \cup {NoJob}]
  /\ gen \in [Workers -> Nat]
  /\ dpc \in {"prune", "reap", "list", "drain"}
  /\ pending \subseteq Jobs
  /\ listed \subseteq Jobs
  /\ phase \in {"up", "stopping", "down"}
  /\ restarts \in Nat

Init ==
  /\ row = [j \in Jobs |-> AbsentRow]
  /\ cmd = [j \in Jobs |-> "NONE"]
  /\ plans = [j \in Jobs |-> 0]
  /\ pc = [w \in Workers |-> "idle"]
  /\ on = [w \in Workers |-> NoJob]
  /\ gen = [w \in Workers |-> 0]
  /\ dpc = "prune"
  /\ pending = {}
  /\ listed = {}
  /\ phase = "up"
  /\ restarts = 0

-----------------------------------------------------------------------------
(* HTTP clients.                                                           *)

ActiveJobs == {j \in Jobs : row[j].status \in ActiveStatus}

\* A repeated request with the same key finds the row and returns it: no step.
Enqueue(j) ==
  /\ phase = "up"
  /\ row[j].status = "ABSENT"
  /\ Cardinality(ActiveJobs) < QueueLimit
  /\ row' = [row EXCEPT ![j] = QueuedRow]
  /\ UNCHANGED <<cmd, plans, pool, dispatcher, process>>

RequestCancel(j) ==
  /\ phase = "up"
  /\ Cancellable(row[j])
  /\ row' = [row EXCEPT ![j] = Cancelled(@)]
  /\ UNCHANGED <<cmd, plans, pool, dispatcher, process>>

-----------------------------------------------------------------------------
(* The dispatcher's loop.  The list it read is used one job at a time      *)
(* while everything else goes on; a stop ends the loop at its next test.   *)

Running == phase \in {"up", "stopping"}

\* Wrong variant: a future is forgotten once its job's row no longer runs.
PruneByRow ==
  /\ phase = "up"
  /\ dpc = "prune"
  /\ pending' = {j \in pending : row[j].status \in {"RUNNING", "CANCEL_REQUESTED"}}
  /\ dpc' = "reap"
  /\ UNCHANGED <<store, pool, listed, process>>

Prune ==
  /\ phase = "up"
  /\ dpc = "prune"
  /\ pending' = {j \in pending : \E w \in Workers : on[w] = j}
  /\ dpc' = "reap"
  /\ UNCHANGED <<store, pool, listed, process>>

ReapExpired ==
  /\ Running
  /\ dpc = "reap"
  /\ row' = [j \in Jobs |-> Reaped(row[j])]
  /\ dpc' = "list"
  /\ UNCHANGED <<cmd, plans, pool, pending, listed, process>>

\* Wrong variant: interrupted jobs are not listed again.
ListQueued ==
  /\ Running
  /\ dpc = "list"
  /\ listed' = {j \in Jobs : row[j].status = "QUEUED"}
  /\ dpc' = "drain"
  /\ UNCHANGED <<store, pool, pending, process>>

ListRecoverable ==
  /\ Running
  /\ dpc = "list"
  /\ listed' = {j \in Jobs : row[j].status \in {"QUEUED", "INTERRUPTED"}}
  /\ dpc' = "drain"
  /\ UNCHANGED <<store, pool, pending, process>>

\* Wrong variant: one long job too many.
LaneOverfull(j) == j \in LongJobs /\ Cardinality(pending \cap LongJobs) > LongLanes

LaneFull(j) == j \in LongJobs /\ Cardinality(pending \cap LongJobs) >= LongLanes

Skip(j) ==
  /\ phase = "up"
  /\ dpc = "drain"
  /\ j \in listed
  /\ j \in pending \/ LaneFull(j)
  /\ listed' = listed \ {j}
  /\ UNCHANGED <<store, pool, dpc, pending, process>>

Submit(j, w) ==
  /\ phase = "up"
  /\ dpc = "drain"
  /\ j \in listed \ pending
  /\ ~LaneFull(j)
  /\ pc[w] = "idle"
  /\ pc' = [pc EXCEPT ![w] = "submitted"]
  /\ on' = [on EXCEPT ![w] = j]
  /\ pending' = pending \cup {j}
  /\ listed' = listed \ {j}
  /\ UNCHANGED <<store, gen, dpc, process>>

\* The list is used up, nothing more may start, or no slot is free for the next job.
EndRound ==
  /\ Running
  /\ dpc = "drain"
  /\ \/ listed = {} \/ phase = "stopping"
     \/ /\ \A w \in Workers : pc[w] # "idle"
        /\ \E j \in listed \ pending : ~LaneFull(j)
  /\ listed' = {}
  /\ dpc' = "prune"
  /\ UNCHANGED <<store, pool, pending, process>>

-----------------------------------------------------------------------------
(* A pool thread working on one attempt.                                   *)

At(w, place) == Running /\ pc[w] = place

GoTo(w, place) == pc' = [pc EXCEPT ![w] = place] /\ UNCHANGED <<on, gen>>

Leave(w) ==
  /\ pc' = [pc EXCEPT ![w] = "idle"]
  /\ on' = [on EXCEPT ![w] = NoJob]
  /\ gen' = [gen EXCEPT ![w] = 0]

Claim(w) ==
  /\ At(w, "submitted")
  /\ Claimable(row[on[w]])
  /\ row' = [row EXCEPT ![on[w]] = Claimed(@, w)]
  /\ pc' = [pc EXCEPT ![w] = "begin"]
  /\ gen' = [gen EXCEPT ![w] = row[on[w]].gen + 1]
  /\ UNCHANGED <<cmd, plans, on, dispatcher, process>>

\* The job was cancelled or finished after it was listed.
ClaimRefused(w) ==
  /\ At(w, "submitted")
  /\ ~Claimable(row[on[w]])
  /\ Leave(w)
  /\ UNCHANGED <<store, dispatcher, process>>

\* The scenario or the travel model changed while the job was queued.
InputsChanged(w) ==
  /\ At(w, "begin")
  /\ GoTo(w, "failing")
  /\ UNCHANGED <<store, dispatcher, process>>

\* reserve_solve_command: only a new or retryable command may be started.
ReserveCommand(w) ==
  /\ At(w, "begin")
  /\ on[w] \in KeyedJobs => cmd[on[w]] \in {"NONE", "FAILED_RETRYABLE"}
  /\ cmd' = IF on[w] \in KeyedJobs THEN [cmd EXCEPT ![on[w]] = "RUNNING"] ELSE cmd
  /\ GoTo(w, "solve")
  /\ UNCHANGED <<row, plans, dispatcher, process>>

\* The command is being solved, or it already failed: the answer is repeated.
CommandRefused(w) ==
  /\ At(w, "begin")
  /\ on[w] \in KeyedJobs
  /\ cmd[on[w]] \notin {"NONE", "FAILED_RETRYABLE"}
  /\ GoTo(w, "failing")
  /\ UNCHANGED <<store, dispatcher, process>>

Heartbeat(w) ==
  /\ At(w, "solve")
  /\ HasAuthority(row[on[w]], w, gen[w])
  /\ row[on[w]].lease < LeaseTicks
  /\ row' = [row EXCEPT ![on[w]] = Extended(@)]
  /\ UNCHANGED <<cmd, plans, pool, dispatcher, process>>

Solved(w) ==
  /\ At(w, "solve")
  /\ GoTo(w, "record")
  /\ UNCHANGED <<store, dispatcher, process>>

\* A cancellation or a lost lease seen while polling, a failed heartbeat, a
\* refused reservation, the deadline, or the child process failing.
SolveFailed(w) ==
  /\ At(w, "solve")
  /\ GoTo(w, "undo")
  /\ UNCHANGED <<store, dispatcher, process>>

\* runtime_stopping, looked at only after the cancellation check.
SolveStopped(w) ==
  /\ pc[w] = "solve"
  /\ phase = "stopping"
  /\ row[on[w]].status \notin {"CANCEL_REQUESTED", "CANCELLED"}
  /\ GoTo(w, "interrupt")
  /\ UNCHANGED <<store, dispatcher, process>>

\* complete_schedule_run stores the run with its candidate, for the holder only.
Record(w) ==
  /\ At(w, "record")
  /\ HasAuthority(row[on[w]], w, gen[w])
  /\ GoTo(w, "publish")
  /\ UNCHANGED <<store, dispatcher, process>>

\* Wrong variant: a lane without a handler for the refusal.
RecordRefusedUnheard(w) ==
  /\ At(w, "record")
  /\ ~HasAuthority(row[on[w]], w, gen[w])
  /\ GoTo(w, "failing")
  /\ UNCHANGED <<store, dispatcher, process>>

\* Its refusal is a PublicationConflict.  run_baseline and run_optimize_api hear
\* of every exception; _run_replan of HTTPException only, so it tells the ledger
\* nothing and just the job fails.
RecordRefused(w) ==
  /\ At(w, "record")
  /\ ~HasAuthority(row[on[w]], w, gen[w])
  /\ GoTo(w, IF on[w] \in ReplanJobs THEN "failing" ELSE "undo")
  /\ UNCHANGED <<store, dispatcher, process>>

\* Wrong variants: the job, or the command, is left to a later transaction.
PublishPlanOnly(w) ==
  /\ At(w, "publish")
  /\ HasAuthority(row[on[w]], w, gen[w])
  /\ plans' = [plans EXCEPT ![on[w]] = @ + 1]
  /\ cmd' = IF on[w] \in KeyedJobs THEN [cmd EXCEPT ![on[w]] = "COMPLETED"] ELSE cmd
  /\ GoTo(w, "finish")
  /\ UNCHANGED <<row, dispatcher, process>>

PublishWithoutCommand(w) ==
  /\ At(w, "publish")
  /\ HasAuthority(row[on[w]], w, gen[w])
  /\ plans' = [plans EXCEPT ![on[w]] = @ + 1]
  /\ row' = [row EXCEPT ![on[w]] = Released(@, "COMPLETED")]
  /\ GoTo(w, "finish")
  /\ UNCHANGED <<cmd, dispatcher, process>>

\* publish_plan: the plan, its command and its job in one transaction.
Publish(w) ==
  /\ At(w, "publish")
  /\ HasAuthority(row[on[w]], w, gen[w])
  /\ plans' = [plans EXCEPT ![on[w]] = @ + 1]
  /\ cmd' = IF on[w] \in KeyedJobs THEN [cmd EXCEPT ![on[w]] = "COMPLETED"] ELSE cmd
  /\ row' = [row EXCEPT ![on[w]] = Released(@, "COMPLETED")]
  /\ GoTo(w, "finish")
  /\ UNCHANGED <<dispatcher, process>>

\* The verifier's 422, authority lost by now, or any other precondition of
\* publish_plan: publish_outcome makes each an HTTPException, heard of everywhere.
PublishRefused(w) ==
  /\ At(w, "publish")
  /\ GoTo(w, "undo")
  /\ UNCHANGED <<store, dispatcher, process>>

\* fail_solve_command: the ledger is told, whoever holds the lease by now.
UndoCommand(w) ==
  /\ At(w, "undo")
  /\ cmd' = IF on[w] \in KeyedJobs /\ cmd[on[w]] \notin CommandTerminal
            THEN [cmd EXCEPT ![on[w]] = "FAILED"] ELSE cmd
  /\ GoTo(w, "failing")
  /\ UNCHANGED <<row, plans, dispatcher, process>>

ReportedStatus(place) ==
  CASE place = "finish" -> "COMPLETED"
    [] place = "failing" -> "FAILED"
    [] place = "interrupt" -> "INTERRUPTED"

\* finish_runtime_job, then the slot is released.
Finish(w) ==
  /\ Running
  /\ pc[w] \in {"finish", "failing", "interrupt"}
  /\ row' = [row EXCEPT ![on[w]] = AfterFinish(@, w, gen[w], ReportedStatus(pc[w]))]
  /\ Leave(w)
  /\ UNCHANGED <<cmd, plans, dispatcher, process>>

-----------------------------------------------------------------------------
(* The process and the clock.                                              *)

Tick ==
  /\ Running
  /\ \E j \in Jobs : Aged(row[j]) # row[j]
  /\ row' = [j \in Jobs |-> Aged(row[j])]
  /\ UNCHANGED <<cmd, plans, pool, dispatcher, process>>

\* Lifespan shutdown: the dispatcher is joined, threads run to their end.
Shutdown ==
  /\ phase = "up"
  /\ restarts < MaxRestarts
  /\ phase' = "stopping"
  /\ UNCHANGED <<store, pool, dispatcher, restarts>>

\* executor.shutdown(cancel_futures=True): a future that has not begun is dropped.
DropFuture(w) ==
  /\ phase = "stopping"
  /\ pc[w] = "submitted"
  /\ Leave(w)
  /\ UNCHANGED <<store, dispatcher, process>>

Exited ==
  /\ phase = "stopping"
  /\ \A w \in Workers : pc[w] = "idle"
  /\ phase' = "down"
  /\ UNCHANGED <<store, pool, dispatcher, restarts>>

Crash ==
  /\ Running
  /\ restarts < MaxRestarts
  /\ phase' = "down"
  /\ pc' = [w \in Workers |-> "idle"]
  /\ on' = [w \in Workers |-> NoJob]
  /\ gen' = [w \in Workers |-> 0]
  /\ UNCHANGED <<store, dispatcher, restarts>>

RecoveredCommand(j) ==
  CASE cmd[j] = "RUNNING" /\ plans[j] > 0 -> "COMPLETED"
    [] cmd[j] = "RUNNING" /\ plans[j] = 0 -> "FAILED_RETRYABLE"
    [] OTHER -> cmd[j]

\* _recover_runtime_owned in one transaction, then a new dispatcher and pool.
Restart ==
  /\ phase = "down"
  /\ phase' = "up"
  /\ restarts' = restarts + 1
  /\ row' = [j \in Jobs |-> Recovered(row[j])]
  /\ cmd' = [j \in Jobs |-> RecoveredCommand(j)]
  /\ dpc' = "prune"
  /\ pending' = {}
  /\ listed' = {}
  /\ UNCHANGED <<plans, pool>>

-----------------------------------------------------------------------------

Client(j) == Enqueue(j) \/ RequestCancel(j)

Dispatch ==
  \/ Prune \/ ReapExpired \/ ListRecoverable \/ EndRound
  \/ \E j \in Jobs : Skip(j) \/ \E w \in Workers : Submit(j, w)

SolveEnds(w) == Solved(w) \/ SolveFailed(w) \/ SolveStopped(w)

Attempt(w) ==
  \/ Claim(w) \/ ClaimRefused(w)
  \/ InputsChanged(w) \/ ReserveCommand(w) \/ CommandRefused(w)
  \/ SolveEnds(w) \/ Record(w) \/ RecordRefused(w)
  \/ Publish(w) \/ PublishRefused(w) \/ UndoCommand(w) \/ Finish(w)

Next ==
  \/ \E j \in Jobs : Client(j)
  \/ Dispatch
  \/ \E w \in Workers : Attempt(w) \/ Heartbeat(w) \/ DropFuture(w)
  \/ Tick \/ Shutdown \/ Exited \/ Crash \/ Restart

Spec == Init /\ [][Next]_vars

(* The daemon threads keep running, a solve ends at its deadline, lost     *)
(* leases run out, and a process that went down is started again.          *)
Fairness ==
  /\ WF_vars(Dispatch)
  /\ \A w \in Workers : WF_vars(Attempt(w))
  /\ WF_vars(Tick)
  /\ WF_vars(Exited)
  /\ WF_vars(Restart)

FairSpec == Spec /\ Fairness

-----------------------------------------------------------------------------
(* Safety.                                                                 *)

\* No job is worked on by two threads, although the list a job is taken from
\* may be older than the thread that already has it: _dispatch_jobs skips what
\* is still among its futures.
SingleFlight ==
  \A v, w \in Workers : on[v] = on[w] /\ on[v] # NoJob => v = w

\* Long calculations never take the lane kept for short requests.
ShortLaneKept == Cardinality({w \in Workers : on[w] \in LongJobs}) <= LongLanes

\* A job whose lease keeps running out is given up after MaxAttempts attempts;
\* each stop of the process may add one.
AttemptsBounded == \A j \in Jobs : row[j].gen <= MaxAttempts + restarts

\* That extra attempt is a stop's alone: while the process is up, a job at its
\* last attempt is never requeued, whatever its thread and the reaper do.
GivesUpAtLimit ==
  [][\A j \in Jobs :
       phase = "up" /\ row[j].status = "RUNNING" /\ row[j].gen >= MaxAttempts =>
         row'[j].status # "INTERRUPTED"]_vars

\* Nothing runs twice, long jobs leave a thread to short ones, nothing is tried
\* for ever: the three bounds the dispatcher keeps.
JobsBounded == SingleFlight /\ ShortLaneKept /\ AttemptsBounded

\* A job is COMPLETED exactly if it published, and it published once, whatever
\* attempts of it were reaped, cancelled or repeated meanwhile.
CompletedIffPublished ==
  \A j \in Jobs : plans[j] = IF row[j].status = "COMPLETED" THEN 1 ELSE 0

\* The command a client retries with says the same as the job.
CommandTellsPublication ==
  \A j \in KeyedJobs : cmd[j] = "COMPLETED" <=> row[j].status = "COMPLETED"

\* The attempt that reserved the command is over, or can no longer write; or a
\* later one runs, which finds the command reserved.
Abandoned(j) ==
  \/ row[j].status \in {"CANCEL_REQUESTED", "CANCELLED", "INTERRUPTED", "FAILED"}
  \/ row[j].status = "RUNNING" /\ row[j].lease <= 0
  \/ \E w \in Workers : on[w] = j /\ pc[w] \in {"begin", "failing"}

\* While the process is up, a command that says RUNNING has a thread behind it,
\* which will settle it.  The one exception is a replan that was cancelled or lost
\* its lease before its run was stored: the ledger goes on saying that somebody
\* solves it, and a later attempt is refused for that, until the process is
\* started again.
CommandHasOwner ==
  phase = "up" =>
    \A j \in Jobs : cmd[j] = "RUNNING" =>
      \/ \E w \in Workers : on[w] = j /\ pc[w] \in {"solve", "record", "publish", "undo"}
      \/ j \in ReplanJobs /\ Abandoned(j)

\* What a client reads in the command ledger: COMPLETED when there is a plan and
\* only then, RUNNING while somebody works on it, an abandoned replan excepted.
CommandsAgree == CommandTellsPublication /\ CommandHasOwner

\* spec.md: every write of a result checks owner, generation, lease and
\* cancellation.  fail_solve_command records an attempt's failure, which every
\* later attempt and retry is answered with, without that check.
FailureWrittenByHolder ==
  [][\A j \in Jobs : cmd[j] # "FAILED" /\ cmd'[j] = "FAILED" =>
       \E w \in Workers : on[w] = j /\ HasAuthorityOrCancel(row[j], w, gen[w])]_vars

-----------------------------------------------------------------------------
(* The promise to the client, and what must happen in the end.             *)

Outcome(j) ==
  CASE row[j].status = "ABSENT" -> "none"
    [] row[j].status \in {"QUEUED", "RUNNING", "INTERRUPTED"} -> "open"
    [] row[j].status = "CANCEL_REQUESTED" -> "cancelling"
    [] row[j].status = "COMPLETED" -> "published"
    [] row[j].status = "FAILED" -> "failed"
    [] row[j].status = "CANCELLED" -> "cancelled"

Contract == INSTANCE JobContract WITH outcome <- [j \in Jobs |-> Outcome(j)]

\* The runtime keeps the contract: cancel-first refuses the plan, plan-first
\* stands, a closed job never reopens.
ContractKept == Contract!Spec

\* Every accepted job ends, however its attempts are interrupted.
EveryJobEnds ==
  \A j \in Jobs : row[j].status \in ActiveStatus ~> row[j].status \in Terminal

\* An accepted cancellation of a running job ends in CANCELLED, also when the
\* thread that should have seen it lost its lease or died.
CancelHonoured ==
  \A j \in Jobs : row[j].status = "CANCEL_REQUESTED" ~> row[j].status = "CANCELLED"
=============================================================================

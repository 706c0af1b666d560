---------------------------- MODULE Experiments ----------------------------
(***************************************************************************)
(* Strategy experiments: a row of strategy_experiments beside its row of   *)
(* runtime_jobs.  A request identical to a live experiment joins it; a     *)
(* pool thread solves one candidate per strategy and saves the experiment  *)
(* after each; a client may cancel; the reaper, a shutdown and a crash may *)
(* interrupt an attempt anywhere.                                          *)
(*                                                                         *)
(* The dispatcher's list and futures are those of RuntimeJobs: here a free *)
(* thread takes a job that nobody works on.  What a candidate looks like   *)
(* is left out; whether the experiment has a publishable one is a choice.  *)
(***************************************************************************)
EXTENDS JobRow, FiniteSets

CONSTANTS
  Exps,             \* experiment ids, and those of their jobs (JOB-EXP-<id>)
  Fingerprint,      \* [Exps -> inputs]: equal for identical requests
  NoExp,            \* a thread with nothing to do
  ExperimentLimit,  \* active experiment jobs accepted (4)
  Profiles,         \* strategies per experiment (at most 8)
  MaxRestarts       \* bound: how often the process stops or dies

ASSUME ExpsAssumption == NoExp \notin Exps
ASSUME FingerprintAssumption == DOMAIN Fingerprint = Exps
ASSUME LimitsAssumption ==
  ExperimentLimit \in Nat /\ Profiles \in Nat \ {0} /\ MaxRestarts \in Nat

VARIABLES
  job,       \* runtime_jobs
  exp,       \* status of each row of strategy_experiments
  pc,        \* where each thread is in _run_experiment
  on,        \* the experiment it works on
  gen,       \* the attempt_number it claimed
  left,      \* strategies it still has to solve
  phase,     \* "up", "stopping" or "down"
  restarts   \* bound

tables == <<job, exp>>
threads == <<pc, on, gen, left>>
process == <<phase, restarts>>
vars == <<tables, threads, process>>

Results == {"COMPLETED", "COMPLETED_WITH_ERRORS"}
ExpEnded == Results \cup {"FAILED", "CANCELLED", "INTERRUPTED"}
ExpActive == {"QUEUED", "RUNNING", "CANCEL_REQUESTED"}

PC == {"idle", "claimed", "begin", "check", "solve", "round", "save", "beat",
       "conclude", "giveup", "stop", "report", "failing", "interrupt"}

TypeOK ==
  /\ job \in [Exps -> Row]
  /\ exp \in [Exps -> {"ABSENT"} \cup ExpActive \cup ExpEnded]
  /\ pc \in [Workers -> PC]
  /\ on \in [Workers -> Exps \cup {NoExp}]
  /\ gen \in [Workers -> Nat]
  /\ left \in [Workers -> 0 .. Profiles]
  /\ phase \in {"up", "stopping", "down"}
  /\ restarts \in Nat

Init ==
  /\ job = [e \in Exps |-> AbsentRow]
  /\ exp = [e \in Exps |-> "ABSENT"]
  /\ pc = [w \in Workers |-> "idle"]
  /\ on = [w \in Workers |-> NoExp]
  /\ gen = [w \in Workers |-> 0]
  /\ left = [w \in Workers |-> 0]
  /\ phase = "up"
  /\ restarts = 0

-----------------------------------------------------------------------------
(* HTTP clients.                                                           *)

\* Wrong variant: a queued experiment is not looked for.
JoinableRunning(e) ==
  {f \in Exps : exp[f] = "RUNNING" /\ Fingerprint[f] = Fingerprint[e]}

\* queue_experiment: an identical experiment that is queued or running is
\* returned instead, and so is the row of a repeated key (no step).
Joinable(e) ==
  {f \in Exps : exp[f] \in {"QUEUED", "RUNNING"} /\ Fingerprint[f] = Fingerprint[e]}

Queue(e) ==
  /\ phase = "up"
  /\ exp[e] = "ABSENT"
  /\ Joinable(e) = {}
  /\ Cardinality({f \in Exps : job[f].status \in ActiveStatus}) < ExperimentLimit
  /\ exp' = [exp EXCEPT ![e] = "QUEUED"]
  /\ job' = [job EXCEPT ![e] = QueuedRow]
  /\ UNCHANGED <<threads, process>>

\* Wrong variant: an experiment that has not begun is not told.
CancelStarted(e) ==
  /\ phase = "up"
  /\ Cancellable(job[e])
  /\ job' = [job EXCEPT ![e] = Cancelled(@)]
  /\ exp' = [exp EXCEPT ![e] = IF @ = "RUNNING" THEN Cancelled(job[e]).status ELSE @]
  /\ UNCHANGED <<threads, process>>

\* request_experiment_cancel: decided on the job, told to the experiment.
Cancel(e) ==
  /\ phase = "up"
  /\ Cancellable(job[e])
  /\ job' = [job EXCEPT ![e] = Cancelled(@)]
  /\ exp' = [exp EXCEPT ![e] = IF @ \in ExpActive THEN Cancelled(job[e]).status ELSE @]
  /\ UNCHANGED <<threads, process>>

-----------------------------------------------------------------------------
(* A pool thread.                                                          *)

Running == phase \in {"up", "stopping"}

At(w, place) == Running /\ pc[w] = place

GoTo(w, place) == pc' = [pc EXCEPT ![w] = place] /\ UNCHANGED <<on, gen, left>>

Leave(w) ==
  /\ pc' = [pc EXCEPT ![w] = "idle"]
  /\ on' = [on EXCEPT ![w] = NoExp]
  /\ gen' = [gen EXCEPT ![w] = 0]
  /\ left' = [left EXCEPT ![w] = 0]

\* Dispatch and claim_runtime_job.
Claim(e, w) ==
  /\ phase = "up"
  /\ pc[w] = "idle"
  /\ \A v \in Workers : on[v] # e
  /\ job[e].status \in {"QUEUED", "INTERRUPTED"}
  /\ job' = [job EXCEPT ![e] = Claimed(@, w)]
  /\ pc' = [pc EXCEPT ![w] = "claimed"]
  /\ on' = [on EXCEPT ![w] = e]
  /\ gen' = [gen EXCEPT ![w] = job[e].gen + 1]
  /\ left' = [left EXCEPT ![w] = Profiles]
  /\ UNCHANGED <<exp, process>>

\* The travel model changed while the job was queued.
ProviderChanged(w) == At(w, "claimed") /\ GoTo(w, "failing") /\ UNCHANGED <<tables, process>>

SeesCancel(w) == exp[on[w]] = "CANCEL_REQUESTED"

\* get_experiment, before anything is written.
ReadExperiment(w) ==
  /\ At(w, "claimed")
  /\ GoTo(w, IF SeesCancel(w) THEN "stop" ELSE "begin")
  /\ UNCHANGED <<tables, process>>

\* Wrong variants: the result overrides an accepted cancellation, the job is
\* given the experiment's own status, the job is left to finish_runtime_job.
SavedOverCancel(cur, s) == IF cur \in ExpEnded THEN cur ELSE s
JobStatusCopied(s) == s
SaveExperimentOnly(w, s, next) ==
  \/ /\ HasAuthorityOrCancel(job[on[w]], w, gen[w])
     /\ exp[on[w]] \notin ExpEnded \cup {"CANCEL_REQUESTED"}
     /\ exp' = [exp EXCEPT ![on[w]] = s]
     /\ GoTo(w, next)
     /\ UNCHANGED <<job, process>>
  \/ /\ ~HasAuthority(job[on[w]], w, gen[w])
     /\ GoTo(w, "failing")
     /\ UNCHANGED <<tables, process>>

\* save_experiment under the thread's authority: an ended experiment is left
\* alone, an accepted cancellation wins, and an end is also the job's end.
Saved(cur, s) ==
  CASE cur \in ExpEnded -> cur
    [] cur = "CANCEL_REQUESTED" /\ s \in ExpEnded -> "CANCELLED"
    [] cur = "CANCEL_REQUESTED" /\ s \notin ExpEnded -> "CANCEL_REQUESTED"
    [] OTHER -> s

JobStatusOf(s) == IF s \in Results THEN "COMPLETED" ELSE s

SaveExperiment(w, s, next) ==
  LET e == on[w] IN
    \/ /\ HasAuthorityOrCancel(job[e], w, gen[w])
       /\ exp' = [exp EXCEPT ![e] = Saved(@, s)]
       /\ job' = IF exp[e] \notin ExpEnded /\ Saved(exp[e], s) \in ExpEnded
                 THEN [job EXCEPT ![e] = Released(@, JobStatusOf(Saved(exp[e], s)))]
                 ELSE job
       /\ GoTo(w, next)
       /\ UNCHANGED process
    \/ /\ ~HasAuthorityOrCancel(job[e], w, gen[w])
       /\ GoTo(w, "failing")
       /\ UNCHANGED <<tables, process>>

SaveBegin(w) == At(w, "begin") /\ SaveExperiment(w, "RUNNING", "check")
SaveRound(w) == At(w, "save") /\ SaveExperiment(w, "RUNNING", "beat")
SaveStop(w) == At(w, "stop") /\ SaveExperiment(w, "CANCELLED", "report")
SaveFailure(w) == At(w, "giveup") /\ SaveExperiment(w, "FAILED", "report")
SaveResult(w) ==
  /\ At(w, "conclude")
  /\ \E s \in Results \cup {"FAILED"} : SaveExperiment(w, s, "report")

\* The head of the loop: cancelled, or a schedule run is reserved, which the
\* scenario, the active plan or a lost lease may refuse.
NextStrategy(w) ==
  /\ At(w, "check")
  /\ IF SeesCancel(w) THEN GoTo(w, "stop") ELSE \E place \in {"solve", "giveup"} : GoTo(w, place)
  /\ UNCHANGED <<tables, process>>

Heartbeat(w) ==
  /\ At(w, "solve")
  /\ HasAuthority(job[on[w]], w, gen[w])
  /\ job[on[w]].lease < LeaseTicks
  /\ job' = [job EXCEPT ![on[w]] = Extended(@)]
  /\ UNCHANGED <<exp, threads, process>>

\* A candidate, or an error noted for this strategy (a failed heartbeat too).
SolveEnds(w) == At(w, "solve") /\ GoTo(w, "round") /\ UNCHANGED <<tables, process>>

\* _solve_in_process stops the child: cancelled, or somebody else's job by now.
SolveInterrupted(w) ==
  /\ At(w, "solve")
  /\ \/ job[on[w]].status \in {"CANCEL_REQUESTED", "CANCELLED"}
     \/ job[on[w]].owner # w \/ job[on[w]].gen # gen[w]
  /\ GoTo(w, "stop")
  /\ UNCHANGED <<tables, process>>

SolveStopped(w) ==
  /\ pc[w] = "solve"
  /\ phase = "stopping"
  /\ job[on[w]].status \notin {"CANCEL_REQUESTED", "CANCELLED"}
  /\ GoTo(w, "interrupt")
  /\ UNCHANGED <<tables, process>>

EndRound(w) ==
  /\ At(w, "round")
  /\ GoTo(w, IF SeesCancel(w) THEN "stop" ELSE "save")
  /\ UNCHANGED <<tables, process>>

\* The heartbeat after each strategy; one that is refused fails the experiment.
Beat(w) ==
  /\ At(w, "beat")
  /\ \/ /\ HasAuthority(job[on[w]], w, gen[w])
        /\ job' = [job EXCEPT ![on[w]] = Extended(@)]
        /\ left' = [left EXCEPT ![w] = @ - 1]
        /\ pc' = [pc EXCEPT ![w] = IF left[w] = 1 THEN "conclude" ELSE "check"]
        /\ UNCHANGED <<on, gen>>
     \/ /\ ~HasAuthority(job[on[w]], w, gen[w])
        /\ GoTo(w, "giveup")
        /\ UNCHANGED job
  /\ UNCHANGED <<exp, process>>

Reported(w) ==
  CASE pc[w] = "failing" -> "FAILED"
    [] pc[w] = "interrupt" -> "INTERRUPTED"
    [] pc[w] = "report" /\ exp[on[w]] \in Results -> "COMPLETED"
    [] pc[w] = "report" /\ exp[on[w]] = "CANCELLED" -> "CANCELLED"
    [] OTHER -> "FAILED"

\* What finish_runtime_job tells an active experiment: a failure tells nothing.
ToldExperiment(cur, s) ==
  CASE cur \in ExpActive /\ s = "INTERRUPTED" -> "QUEUED"
    [] cur \in ExpActive /\ s = "CANCELLED" -> "CANCELLED"
    [] OTHER -> cur

Finish(w) ==
  LET e == on[w] IN
    /\ Running
    /\ pc[w] \in {"report", "failing", "interrupt"}
    /\ job' = [job EXCEPT ![e] = AfterFinish(@, w, gen[w], Reported(w))]
    /\ exp' = IF Finishes(job[e], w, gen[w])
              THEN [exp EXCEPT ![e] = ToldExperiment(@, FinalStatus(job[e], Reported(w)))]
              ELSE exp
    /\ Leave(w)
    /\ UNCHANGED process

-----------------------------------------------------------------------------
(* The reaper, the clock and the process.                                  *)

ReapExpired ==
  /\ phase = "up"
  /\ job' = [e \in Exps |-> Reaped(job[e])]
  /\ UNCHANGED <<exp, threads, process>>

Tick ==
  /\ Running
  /\ \E e \in Exps : Aged(job[e]) # job[e]
  /\ job' = [e \in Exps |-> Aged(job[e])]
  /\ UNCHANGED <<exp, threads, process>>

Shutdown ==
  /\ phase = "up"
  /\ restarts < MaxRestarts
  /\ phase' = "stopping"
  /\ UNCHANGED <<tables, threads, restarts>>

Exited ==
  /\ phase = "stopping"
  /\ \A w \in Workers : pc[w] = "idle"
  /\ phase' = "down"
  /\ UNCHANGED <<tables, threads, restarts>>

Crash ==
  /\ Running
  /\ restarts < MaxRestarts
  /\ phase' = "down"
  /\ pc' = [w \in Workers |-> "idle"]
  /\ on' = [w \in Workers |-> NoExp]
  /\ gen' = [w \in Workers |-> 0]
  /\ left' = [w \in Workers |-> 0]
  /\ UNCHANGED <<tables, restarts>>

\* Wrong variant: only what can run again is looked at.
RecoveredQueue(cur, r) ==
  CASE cur = "CANCEL_REQUESTED" -> "CANCELLED"
    [] cur \in {"QUEUED", "RUNNING"} /\ r.status \in {"QUEUED", "INTERRUPTED"} -> "QUEUED"
    [] OTHER -> cur

\* _recover_runtime_owned: first the jobs, then the experiments by their jobs.
RecoveredExperiment(cur, r) ==
  CASE cur = "CANCEL_REQUESTED" -> "CANCELLED"
    [] cur \in {"QUEUED", "RUNNING"} /\ r.status \in {"QUEUED", "INTERRUPTED"} -> "QUEUED"
    [] cur \in {"QUEUED", "RUNNING"} /\ r.status \notin {"QUEUED", "INTERRUPTED"} -> "INTERRUPTED"
    [] OTHER -> cur

Restart ==
  /\ phase = "down"
  /\ phase' = "up"
  /\ restarts' = restarts + 1
  /\ job' = [e \in Exps |-> Recovered(job[e])]
  /\ exp' = [e \in Exps |-> RecoveredExperiment(exp[e], Recovered(job[e]))]
  /\ UNCHANGED threads

-----------------------------------------------------------------------------

Client(e) == Queue(e) \/ Cancel(e)

Attempt(w) ==
  \/ ProviderChanged(w) \/ ReadExperiment(w)
  \/ SaveBegin(w) \/ SaveRound(w) \/ SaveStop(w) \/ SaveFailure(w) \/ SaveResult(w)
  \/ NextStrategy(w) \/ SolveEnds(w) \/ SolveInterrupted(w) \/ SolveStopped(w)
  \/ EndRound(w) \/ Beat(w) \/ Finish(w)

Next ==
  \/ \E e \in Exps : Client(e) \/ \E w \in Workers : Claim(e, w)
  \/ \E w \in Workers : Attempt(w) \/ Heartbeat(w)
  \/ ReapExpired \/ Tick \/ Shutdown \/ Exited \/ Crash \/ Restart

Spec == Init /\ [][Next]_vars

-----------------------------------------------------------------------------
(* Properties.                                                             *)

\* The result of an experiment and the end of its job are one commit, whichever
\* attempt saves it: nobody reads a finished experiment of an unfinished job.
ResultIsJobResult == \A e \in Exps : exp[e] \in Results <=> job[e].status = "COMPLETED"

\* An accepted cancellation is told by both rows, and no result, failure or
\* restart of the attempt that was under way takes it back.
CancelAgreed ==
  \A e \in Exps :
    /\ job[e].status \in {"CANCEL_REQUESTED", "CANCELLED"}
         <=> exp[e] \in {"CANCEL_REQUESTED", "CANCELLED"}
    /\ exp[e] = "CANCELLED" => job[e].status = "CANCELLED"

\* Neither a result nor a cancellation is told by one of the two rows alone.
RowsAgree == ResultIsJobResult /\ CancelAgreed

\* Identical requests share one experiment: no two that a third would join, not
\* even when an interrupted one goes back to the queue.
OneLivePerFingerprint ==
  \A e, f \in Exps :
    /\ Fingerprint[e] = Fingerprint[f]
    /\ exp[e] \in {"QUEUED", "RUNNING"}
    /\ exp[f] \in {"QUEUED", "RUNNING"}
    => e = f

\* A client that saw an experiment end never sees it anything else, and one that
\* was told of a cancellation sees nothing but that.
EndedStaysEnded ==
  [][\A e \in Exps :
       /\ exp[e] \in ExpEnded => exp'[e] = exp[e]
       /\ exp[e] = "CANCEL_REQUESTED" => exp'[e] \in {"CANCEL_REQUESTED", "CANCELLED"}]_vars

\* A restart leaves no experiment waiting for a job that is over.
RestartSettles ==
  [][phase = "down" /\ phase' = "up" =>
       \A e \in Exps : exp'[e] \in ExpEnded <=> job'[e].status \in Terminal]_vars

\* audit-closure F15: the final states of experiment and job are committed
\* together.  finish_runtime_job(FAILED) and reap_expired_jobs end the job alone.
EndTogether == \A e \in Exps : exp[e] \in ExpEnded <=> job[e].status \in Terminal
=============================================================================

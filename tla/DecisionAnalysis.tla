-------------------------- MODULE DecisionAnalysis --------------------------
(***************************************************************************)
(* Decision analyses of one plan with one input: the A-numbered rows of    *)
(* decision_analysis_runs, the jobs and synchronous requests that ask for  *)
(* them, and the bindings that say which attempt of which job computes     *)
(* which analysis.  Identical requests share one analysis: its owner       *)
(* computes, followers wait.  An exact retry makes a new analysis under a  *)
(* command of its own.                                                     *)
(*                                                                         *)
(* A job attempt is a pool thread (thread) that watches a child process    *)
(* (proc); both write to the database, only the job's authority keeps      *)
(* them apart, and a child may outlive a killed parent.  The analyses      *)
(* themselves, and the proof manifests over them, are left out.            *)
(***************************************************************************)
EXTENDS JobRow, Sequences, FiniteSets

CONSTANTS
  Jobs,        \* analysis jobs
  Callers,     \* synchronous requests, each under its own key
  Retries,     \* those that are exact retries of an analysis
  NoJob,
  MaxCalls,    \* bound: how often a caller repeats its request
  MaxExpiries, \* bound: the last attempt of a job whose lease may run out
  MaxRestarts  \* bound: how often the service stops or dies

Requests == Jobs \cup Callers

ASSUME RequestsAssumption == Jobs \cap Callers = {} /\ Retries \subseteq Requests /\ NoJob \notin Requests
ASSUME BoundsAssumption == {MaxCalls, MaxExpiries, MaxRestarts} \subseteq Nat

VARIABLES
  rows,     \* runtime_jobs
  result,   \* their result_resource_id
  runs,     \* decision_analysis_runs: status and whose attempt computes it
  bind,     \* job_analysis_bindings of each job's latest attempt
  command,  \* command_keys of the retries
  proc,     \* what executes each attempt of a request: a child, or the caller
  thread,   \* the pool threads
  process   \* stopping, and how many restarts there were

tables == <<rows, result, runs, bind, command>>
vars == <<tables, proc, thread, process>>

NoRun == 0
RunEnded == {"COMPLETED", "FAILED", "INTERRUPTED"}
RunStatus == {"RUNNING"} \cup RunEnded
CommandStatus == {"NONE", "RESERVED", "ANALYSIS_RESERVED", "FAILED_RETRYABLE", "COMPLETED"}
Place == {"none", "start", "resume", "begin", "reserve", "record", "compute", "finish", "conclude", "undo",
          "said", "dead"}
Watching == {"watch", "follow"}

TypeOK ==
  /\ rows \in [Jobs -> Row]
  /\ result \in [Jobs -> 0 .. Len(runs)]
  /\ runs \in Seq([status : RunStatus, by : Requests, gen : Nat])
  /\ bind \in [Jobs -> [gen : Nat, run : 0 .. Len(runs), owns : BOOLEAN]]
  /\ command \in [Retries -> [status : CommandStatus, run : 0 .. Len(runs), of : 0 .. Len(runs)]]
  /\ proc \in [Requests -> Seq([at : Place, w : Workers \cup {NoWorker}, run : 0 .. Len(runs),
                                say : RunStatus \cup {"NOTHING", "ERROR"}])]
  /\ thread \in [Workers -> [at : {"idle", "spawn", "report", "failing"} \cup Watching, job : Jobs \cup {NoJob},
                             gen : Nat, say : Status, run : 0 .. Len(runs)]]
  /\ process \in [stopping : BOOLEAN, restarts : 0 .. MaxRestarts]

NewProc(w, place) == [at |-> place, w |-> w, run |-> NoRun, say |-> "NOTHING"]
IdleThread == [at |-> "idle", job |-> NoJob, gen |-> 0, say |-> "ABSENT", run |-> NoRun]

Init ==
  /\ rows = [j \in Jobs |-> AbsentRow]
  /\ result = [j \in Jobs |-> NoRun]
  /\ runs = <<>>
  /\ bind = [j \in Jobs |-> [gen |-> 0, run |-> NoRun, owns |-> FALSE]]
  /\ command = [r \in Retries |-> [status |-> "NONE", run |-> NoRun, of |-> NoRun]]
  /\ proc = [r \in Requests |-> <<>>]
  /\ thread = [w \in Workers |-> IdleThread]
  /\ process = [stopping |-> FALSE, restarts |-> 0]

-----------------------------------------------------------------------------
(* Requests.                                                               *)

\* A retry names an analysis that exists.
Names(r) ==
  IF r \in Retries
  THEN \E n \in DOMAIN runs :
         command' = IF command[r].of = NoRun THEN [command EXCEPT ![r].of = n] ELSE command
  ELSE UNCHANGED command

\* queue_decision_analysis_job, queue_analysis_retry: a repeated key returns
\* its job (no step).
Queue(j) ==
  /\ rows[j].status = "ABSENT" /\ ~process.stopping
  /\ Names(j)
  /\ rows' = [rows EXCEPT ![j] = QueuedRow]
  /\ UNCHANGED <<result, runs, bind, proc, thread, process>>

\* create_decision_analysis_run, retry_decision_analysis_run.
Call(c) ==
  /\ Len(proc[c]) < MaxCalls /\ ~process.stopping
  /\ Names(c)
  /\ proc' = [proc EXCEPT ![c] = Append(@, NewProc(NoWorker, "start"))]
  /\ UNCHANGED <<rows, result, runs, bind, thread, process>>

-----------------------------------------------------------------------------
(* What executes an attempt: execute_decision_analysis_run, and around it   *)
(* retry_decision_analysis_run.                                            *)

At(r, g, place) == proc[r][g].at = place
Go(r, g, place) == proc' = [proc EXCEPT ![r][g].at = place]
GoWith(r, g, place, s) == proc' = [proc EXCEPT ![r][g].at = place, ![r][g].say = s]
Say(r, g, s) == GoWith(r, g, "said", s)
Fail(r, g) == IF r \in Retries THEN Go(r, g, "undo") ELSE Say(r, g, "ERROR")

\* _assert_job_authority; a caller needs none.
Owns(r, g) == r \in Jobs => HasAuthority(rows[r], proc[r][g].w, g)

\* _bind_job_analysis.
\* Wrong variant: whoever asks for an analysis is bound as its owner.
BoundAsOwner(j, g, n, owns) == [bind EXCEPT ![j] = [gen |-> g, run |-> n, owns |-> TRUE]]

Bound(j, g, n, owns) == [bind EXCEPT ![j] = [gen |-> g, run |-> n, owns |-> owns]]

Bind(r, g, n, owns) == bind' = IF r \in Jobs THEN Bound(r, g, n, owns) ELSE bind

CommandTo(r, s, n) == [command EXCEPT ![r].status = s, ![r].run = n]

CreateRun(r, g, next) ==
  LET n == Len(runs) + 1 IN
  /\ runs' = Append(runs, [status |-> "RUNNING", by |-> r, gen |-> g])
  /\ Bind(r, g, n, TRUE)
  /\ proc' = [proc EXCEPT ![r][g].run = n, ![r][g].at = next]

Newest == Len(runs)

\* The newest analysis of the input answers, is waited for, or is resumed by a
\* job; a failed one asks for an explicit retry.
Reuse(r, g) ==
  LET s == runs[Newest].status IN
  /\ Bind(r, g, Newest, FALSE)
  /\ \/ s \in {"RUNNING", "COMPLETED"} /\ Say(r, g, s)
     \/ s = "INTERRUPTED" /\ r \in Jobs /\ Go(r, g, "resume")
     \/ /\ (s = "FAILED") \/ (s = "INTERRUPTED" /\ r \in Callers)
        /\ Say(r, g, "ERROR")
  /\ UNCHANGED runs

Reserve(r, g) ==
  /\ r \notin Retries /\ At(r, g, "start")
  /\ \/ Owns(r, g) /\ IF runs = <<>> THEN CreateRun(r, g, "compute") ELSE Reuse(r, g)
     \/ ~Owns(r, g) /\ Fail(r, g) /\ UNCHANGED <<runs, bind>>
  /\ UNCHANGED <<rows, result, command, thread, process>>

\* force_new: a number of its own, whatever else there is.
ReserveNew(r, g) ==
  /\ At(r, g, "resume") \/ At(r, g, "reserve")
  /\ \/ Owns(r, g) /\ CreateRun(r, g, IF r \in Retries THEN "record" ELSE "compute")
     \/ ~Owns(r, g) /\ Fail(r, g) /\ UNCHANGED <<runs, bind>>
  /\ UNCHANGED <<rows, result, command, thread, process>>

\* The command of a retry: only failed analyses are retried; a key in use
\* answers with its analysis.
LookUp(r, g) ==
  /\ r \in Retries /\ At(r, g, "start")
  /\ LET c == command[r] IN
       IF runs[c.of].status \notin {"FAILED", "INTERRUPTED"} THEN Say(r, g, "ERROR")
       ELSE IF c.status \in {"NONE", "FAILED_RETRYABLE"} THEN Go(r, g, "begin")
       ELSE Say(r, g, IF c.run = NoRun THEN "ERROR" ELSE runs[c.run].status)
  /\ UNCHANGED <<tables, thread, process>>

Begin(r, g) ==
  /\ At(r, g, "begin")
  /\ IF command[r].status \in {"NONE", "FAILED_RETRYABLE"}
     THEN command' = CommandTo(r, "RESERVED", NoRun) /\ Go(r, g, "reserve")
     ELSE Say(r, g, "ERROR") /\ UNCHANGED command
  /\ UNCHANGED <<rows, result, runs, bind, thread, process>>

\* update_command_record: anybody may, unless the command is completed.
Record(r, g) ==
  /\ At(r, g, "record")
  /\ IF command[r].status = "COMPLETED" THEN Go(r, g, "undo") /\ UNCHANGED command
     ELSE /\ command' = CommandTo(r, "ANALYSIS_RESERVED", proc[r][g].run)
          /\ Go(r, g, "compute")
  /\ UNCHANGED <<rows, result, runs, bind, thread, process>>

Undo(r, g) ==
  /\ At(r, g, "undo")
  /\ command' = IF command[r].status = "COMPLETED" THEN command
                ELSE CommandTo(r, "FAILED_RETRYABLE", NoRun)
  /\ Say(r, g, "ERROR")
  /\ UNCHANGED <<rows, result, runs, bind, thread, process>>

\* The analysis ends one way or the other, or takes its process with it.
Compute(r, g) ==
  /\ At(r, g, "compute")
  /\ \/ \E s \in {"COMPLETED", "FAILED"} : GoWith(r, g, "finish", s)
     \/ r \in Jobs /\ proc' = [proc EXCEPT ![r][g] = NewProc(NoWorker, "dead")]
  /\ UNCHANGED <<tables, thread, process>>

\* finish_decision_analysis_run: analysis, command and job in one transaction.
\* A completed analysis of a plan that changed meanwhile fails.
\* Wrong variant: the command of a retry is left to its handler.
CommandLeft(r, n) == command

CommandDone(r, n) ==
  IF r \in Jobs \cap Retries /\ command[r].status # "NONE"
  THEN CommandTo(r, "COMPLETED", n) ELSE command

\* Wrong variant: the job is left to its thread.
JobLeft(r, s) == rows

JobDone(r, s) == [rows EXCEPT ![r] = Released(@, s)]

AfterEnd(r) == IF r \in Retries THEN "conclude" ELSE "said"

FinishAs(r, g, s) ==
  LET n == proc[r][g].run IN
  /\ runs' = [runs EXCEPT ![n].status = s]
  /\ rows' = IF r \in Jobs THEN JobDone(r, s) ELSE rows
  /\ result' = IF r \in Jobs THEN [result EXCEPT ![r] = n] ELSE result
  /\ command' = CommandDone(r, n)
  /\ GoWith(r, g, AfterEnd(r), s)

Finish(r, g) ==
  LET n == proc[r][g].run IN
  /\ At(r, g, "finish")
  /\ \/ /\ Owns(r, g) /\ runs[n].status = "RUNNING"
        /\ \E s \in {proc[r][g].say, "FAILED"} : FinishAs(r, g, s)
     \/ /\ Owns(r, g) /\ runs[n].status # "RUNNING"
        /\ GoWith(r, g, AfterEnd(r), runs[n].status)
        /\ UNCHANGED <<rows, result, runs, command>>
     \/ ~Owns(r, g) /\ Fail(r, g) /\ UNCHANGED <<rows, result, runs, command>>
  /\ UNCHANGED <<bind, thread, process>>

Conclude(r, g) ==
  /\ At(r, g, "conclude")
  /\ command' = IF command[r].status = "COMPLETED" THEN command
                ELSE CommandTo(r, "COMPLETED", proc[r][g].run)
  /\ Go(r, g, "said")
  /\ UNCHANGED <<rows, result, runs, bind, thread, process>>

ProcStep(r, g) ==
  \/ Reserve(r, g) \/ ReserveNew(r, g) \/ LookUp(r, g) \/ Begin(r, g) \/ Record(r, g) \/ Undo(r, g)
  \/ Compute(r, g) \/ Finish(r, g) \/ Conclude(r, g)

-----------------------------------------------------------------------------
(* The job rows and the analysis that goes with each attempt.              *)

\* _interrupt_job_analysis: only the attempt that computes an analysis
\* interrupts it.
\* Wrong variant: the cancellation and the reaper leave the analysis running.
LeftRunning(j) == runs

Interrupted(j) ==
  [n \in DOMAIN runs |->
    IF bind[j].owns /\ bind[j].gen = rows[j].gen /\ bind[j].run = n /\ runs[n].status = "RUNNING"
    THEN [runs[n] EXCEPT !.status = "INTERRUPTED"] ELSE runs[n]]

Cancel(j) ==
  /\ Cancellable(rows[j]) /\ ~process.stopping
  /\ rows' = [rows EXCEPT ![j] = Cancelled(@)]
  /\ runs' = Interrupted(j)
  /\ UNCHANGED <<result, bind, command, proc, thread, process>>

RunOut(j) ==
  /\ rows[j].owner # NoWorker /\ rows[j].lease > -1 /\ rows[j].gen <= MaxExpiries
  /\ rows' = [rows EXCEPT ![j].lease = -1]
  /\ UNCHANGED <<result, runs, bind, command, proc, thread, process>>

Reap(j) ==
  /\ Expired(rows[j]) /\ ~process.stopping
  /\ rows' = [rows EXCEPT ![j] = Reaped(@)]
  /\ runs' = Interrupted(j)
  /\ UNCHANGED <<result, bind, command, proc, thread, process>>

-----------------------------------------------------------------------------
(* The pool thread: _run_decision_job, _execute_decision_job.               *)

Thr(w, at) == thread[w].at = at
ThrGo(w, at) == thread' = [thread EXCEPT ![w].at = at]
Child(w) == proc[thread[w].job][thread[w].gen]
StopChild(w) == proc' = [proc EXCEPT ![thread[w].job][thread[w].gen] = NewProc(NoWorker, "dead")]
Report(w, s, n) == thread' = [thread EXCEPT ![w].at = "report", ![w].say = s, ![w].run = n]

\* The dispatcher hands out no job that a thread still works on.
Claim(w, j) ==
  /\ Thr(w, "idle") /\ ~process.stopping /\ rows[j].status \in {"QUEUED", "INTERRUPTED"}
  /\ \A v \in Workers : thread[v].job # j
  /\ rows' = [rows EXCEPT ![j] = Claimed(@, w)]
  /\ runs' = Interrupted(j)
  /\ proc' = [proc EXCEPT ![j] = Append(@, NewProc(w, "none"))]
  /\ thread' = [thread EXCEPT ![w] = [IdleThread EXCEPT !.at = "spawn", !.job = j, !.gen = rows[j].gen + 1]]
  /\ UNCHANGED <<result, bind, command, process>>

Spawn(w) ==
  /\ Thr(w, "spawn")
  /\ \/ proc' = [proc EXCEPT ![thread[w].job][thread[w].gen].at = "start"] /\ ThrGo(w, "watch")
     \/ ThrGo(w, "failing") /\ UNCHANGED proc
  /\ UNCHANGED <<tables, process>>

\* The job ended elsewhere, was cancelled, or the service stops.
SeeRow(w) ==
  LET s == rows[thread[w].job].status IN
  /\ thread[w].at \in Watching
  /\ \/ s \in Terminal /\ StopChild(w) /\ thread' = [thread EXCEPT ![w] = IdleThread]
     \/ s = "CANCEL_REQUESTED" /\ StopChild(w) /\ Report(w, "CANCELLED", NoRun)
     \/ s \notin Terminal \cup {"CANCEL_REQUESTED"} /\ process.stopping /\ StopChild(w) /\ Report(w, "INTERRUPTED", NoRun)
  /\ UNCHANGED <<tables, process>>

\* The child's message.
Hear(w) ==
  /\ Thr(w, "watch") /\ Child(w).at = "said"
  /\ CASE Child(w).say = "ERROR" -> ThrGo(w, "failing")
       [] Child(w).say = "RUNNING" -> ThrGo(w, "follow")
       [] OTHER -> Report(w, IF Child(w).say = "COMPLETED" THEN "COMPLETED" ELSE "FAILED",
                          IF Child(w).run # NoRun THEN Child(w).run
                          ELSE IF thread[w].job \in Retries THEN command[thread[w].job].run
                          ELSE bind[thread[w].job].run)
  /\ UNCHANGED <<tables, proc, process>>

\* A follower waits for the analysis it is bound to.
Follow(w) ==
  LET b == bind[thread[w].job] IN
  /\ Thr(w, "follow")
  /\ b.gen = thread[w].gen /\ b.run # NoRun /\ runs[b.run].status # "RUNNING"
  /\ Report(w, IF runs[b.run].status = "COMPLETED" THEN "COMPLETED" ELSE "FAILED", b.run)
  /\ UNCHANGED <<tables, proc, process>>

\* Deadline, memory, a dead child, a refused heartbeat.
GiveUp(w) ==
  /\ thread[w].at \in Watching
  /\ StopChild(w) /\ ThrGo(w, "failing")
  /\ UNCHANGED <<tables, process>>

\* finish_runtime_job with the authority of the attempt.
FinishJob(w, s, n) ==
  LET j == thread[w].job IN
  IF Finishes(rows[j], w, thread[w].gen)
  THEN /\ rows' = [rows EXCEPT ![j] = AfterFinish(@, w, thread[w].gen, s)]
       /\ runs' = IF FinalStatus(rows[j], s) = "COMPLETED" THEN runs ELSE Interrupted(j)
       /\ result' = [result EXCEPT ![j] = IF n = NoRun /\ bind[j].owns /\ bind[j].gen = thread[w].gen
                                          THEN bind[j].run ELSE n]
  ELSE UNCHANGED <<rows, runs, result>>

ReportJob(w) ==
  LET j == thread[w].job IN
  /\ Thr(w, "report")
  /\ FinishJob(w, thread[w].say, thread[w].run)
  /\ IF Finishes(rows[j], w, thread[w].gen) \/ rows[j].status \in Terminal
     THEN StopChild(w) /\ thread' = [thread EXCEPT ![w] = IdleThread]
     ELSE ThrGo(w, "failing") /\ UNCHANGED proc
  /\ UNCHANGED <<bind, command, process>>

FailJob(w) ==
  LET b == bind[thread[w].job] IN
  /\ Thr(w, "failing")
  /\ FinishJob(w, "FAILED", IF b.gen = thread[w].gen THEN b.run ELSE NoRun)
  /\ StopChild(w)
  /\ thread' = [thread EXCEPT ![w] = IdleThread]
  /\ UNCHANGED <<bind, command, process>>

ThreadStep(w) ==
  Spawn(w) \/ SeeRow(w) \/ Hear(w) \/ Follow(w) \/ GiveUp(w) \/ ReportJob(w) \/ FailJob(w)

-----------------------------------------------------------------------------
(* The service.                                                            *)

Stop ==
  /\ process.restarts < MaxRestarts /\ ~process.stopping
  /\ process' = [process EXCEPT !.stopping = TRUE]
  /\ UNCHANGED <<tables, proc, thread>>

\* Wrong variant: the recovery leaves the analyses to their jobs.
RecoversNoRun == runs

RecoveredRuns == [n \in DOMAIN runs |-> [runs[n] EXCEPT !.status = IF @ = "RUNNING" THEN "INTERRUPTED" ELSE @]]

\* A stop when all threads are done, or a death at any point: children of a
\* killed parent may go on; _recover_runtime_owned settles the tables.
Restart ==
  /\ process.restarts < MaxRestarts
  /\ process' = [stopping |-> FALSE, restarts |-> process.restarts + 1]
  /\ rows' = [j \in Jobs |-> Recovered(rows[j])]
  /\ runs' = RecoveredRuns
  /\ command' = [r \in Retries |-> [command[r] EXCEPT !.status =
       IF @ \in {"RESERVED", "ANALYSIS_RESERVED"} THEN "FAILED_RETRYABLE" ELSE @]]
  /\ thread' = [w \in Workers |-> IdleThread]
  /\ \E orphans \in SUBSET Jobs :
       proc' = [r \in Requests |-> IF r \in orphans THEN proc[r]
                                   ELSE [g \in DOMAIN proc[r] |-> NewProc(NoWorker, "dead")]]
  /\ UNCHANGED <<result, bind>>

Next ==
  \/ \E j \in Jobs : Queue(j) \/ Cancel(j) \/ RunOut(j) \/ Reap(j)
  \/ \E c \in Callers : Call(c)
  \/ \E r \in Requests : \E g \in DOMAIN proc[r] : ProcStep(r, g)
  \/ \E w \in Workers : ThreadStep(w) \/ \E j \in Jobs : Claim(w, j)
  \/ Stop \/ Restart

Spec == Init /\ [][Next]_vars

\* Threads go on, and so does what executes an attempt (each takes a bounded
\* number of steps, so that one condition per request is enough); the
\* dispatcher reaps and hands out jobs; a service that is being stopped is
\* started again.
FairSpec ==
  /\ Spec
  /\ \A r \in Requests : WF_vars(\E g \in DOMAIN proc[r] : ProcStep(r, g))
  /\ \A w \in Workers : WF_vars(ThreadStep(w))
  /\ \A j \in Jobs : WF_vars(Reap(j))
  /\ WF_vars(\E w \in Workers, j \in Jobs : Claim(w, j))
  /\ WF_vars(process.stopping /\ Restart)

-----------------------------------------------------------------------------
(* What identical requests may rely on.                                    *)

\* No analysis runs that nobody computes (spec.md: no pseudo-running state is
\* left behind): its job still has the attempt that computes it.
RunningHasOwner ==
  \A n \in DOMAIN runs : runs[n].status = "RUNNING" =>
    LET r == runs[n].by IN
      IF r \in Jobs THEN rows[r].status = "RUNNING" /\ rows[r].gen = runs[n].gen
      ELSE proc[r][runs[n].gen].at \notin {"said", "dead"}

\* At every step, and after a death at any, the tables agree about who computes.
Consistent == TypeOK /\ RunningHasOwner

\* A completed job names a completed analysis, and the job that computed one
\* is completed with it, whatever its thread reports afterwards.
AnswerIsShared ==
  /\ \A j \in Jobs : rows[j].status = "COMPLETED" => result[j] # NoRun /\ runs[result[j]].status = "COMPLETED"
  /\ \A n \in DOMAIN runs : runs[n].status = "COMPLETED" /\ runs[n].by \in Jobs =>
       rows[runs[n].by].status = "COMPLETED" /\ result[runs[n].by] = n

\* A follower that is cancelled, fails or loses its lease leaves the analysis
\* to its owner: only the owner's attempt, or a restart, interrupts it.
OnlyOwnerInterrupts ==
  [][\A n \in DOMAIN runs : runs[n].status = "RUNNING" /\ runs'[n].status = "INTERRUPTED" =>
       \/ process' # process
       \/ runs[n].by \in Jobs /\ rows'[runs[n].by] # rows[runs[n].by]]_vars

\* The command of a retry job is completed by the analysis it names, in the
\* transaction that completes the job: a repeated key never computes again.
RetryAnswers ==
  \A j \in Jobs \cap Retries : rows[j].status = "COMPLETED" =>
    command[j].status = "COMPLETED" /\ command[j].run = result[j]

\* Whoever asked under whatever key reads the same analysis.
AnswersAgree == AnswerIsShared /\ RetryAnswers

\* Every accepted job ends, whatever happens to the owner it follows.
EveryJobEnds == \A j \in Jobs : rows[j].status = "QUEUED" ~> rows[j].status \in Terminal
=============================================================================

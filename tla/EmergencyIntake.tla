-------------------------- MODULE EmergencyIntake --------------------------
(***************************************************************************)
(* One emergency work order, received by _run_replan of backend/main.py    *)
(* and intake_emergency_work_order of backend/storage.py: the order, its   *)
(* receipts, the replan commands and the REPLAN jobs that plan it, with    *)
(* the users who edit, start, delete or cancel it meanwhile.               *)
(*                                                                         *)
(* A request names an intake key and a command key; both have defaults     *)
(* made from the order, so a client that retries sends the same request,   *)
(* and one that wants another attempt sends a new command key under the    *)
(* old intake key.  Each request has its own job (emergency_job_id).  The  *)
(* content hash of the order covers its fields and its status: an edit or  *)
(* a start changes it.                                                     *)
(***************************************************************************)
EXTENDS JobRow, Sequences, FiniteSets

CONSTANTS
  Requests,     \* requests for the order
  IntakeKeys,   \* keys of emergency_intake_receipts
  IntakeOf,     \* the intake key of each request; the command key is the request
  ContentOf,    \* the order each request describes
  Reported,     \* the content the order has when it is created without an intake
  Edited,       \* the content an edit gives it
  MaxRevision,  \* bound: data revisions
  MaxPlans,     \* bound: plan versions
  MaxRestarts   \* bound: restarts of the process

ASSUME RequestsAssumption ==
  /\ IntakeOf \in [Requests -> IntakeKeys]
  /\ Edited # Reported /\ \A r \in Requests : ContentOf[r] # Edited
  /\ "none" \notin {Reported, Edited} \cup {ContentOf[r] : r \in Requests}
ASSUME BoundsAssumption == {MaxRevision, MaxPlans, MaxRestarts} \subseteq Nat

VARIABLES
  order,     \* the work order in the scenario, or NoOrder
  rev,       \* the scenario's data revision
  receipts,  \* emergency_intake_receipts, by intake key
  commands,  \* command_keys of the namespace :replan, by request
  plans,     \* versions published by these jobs: what they contain, and for whom
  rows,      \* runtime_jobs, by request
  result,    \* result_resource_id of each job
  work,      \* where each worker thread is
  deletion,  \* the DELETE handler: what it has read
  process    \* starts so far, and whether it is being stopped

vars == <<order, rev, receipts, commands, plans, rows, result, work, deletion, process>>
scenario == <<order, rev>>
ledger == <<receipts, commands>>
jobs == <<rows, result>>

NoPlan == 0
NoReq == "none"
NoOrder == [content |-> "none", status |-> "PENDING"]
Pending(c) == [content |-> c, status |-> "PENDING"]
Contents == {"none", Reported, Edited} \cup {ContentOf[r] : r \in Requests}
Order == [content : Contents, status : {"PENDING", "STARTED"}]

Receipt == [status : {"NONE", "ACTIVE", "CONSUMED", "CANCELLED"}, order : Order, plan : Nat, rev : Nat]
Command ==
  [status : {"NONE", "INTAKE_COMMITTED", "REPLAN_RUNNING", "COMPLETED", "FAILED", "FAILED_RETRYABLE"},
   plan : Nat]
Step ==
  {"idle", "intake", "command", "prepare", "mark", "solve", "record", "publish", "command failed", "finish"}
Thread ==
  [at : Step, req : Requests \cup {NoReq}, gen : Nat, rev : Nat,
   report : {"none", "COMPLETED", "FAILED", "INTERRUPTED"}]
IdleThread == [at |-> "idle", req |-> NoReq, gen |-> 0, rev |-> 0, report |-> "none"]

TypeOK ==
  /\ order \in Order
  /\ rev \in 0 .. MaxRevision
  /\ receipts \in [IntakeKeys -> Receipt]
  /\ commands \in [Requests -> Command]
  /\ plans \in Seq([rev : Nat, order : Order, req : Requests])
  /\ rows \in [Requests -> Row]
  /\ result \in [Requests -> 0 .. Len(plans)]
  /\ work \in [Workers -> Thread]
  /\ deletion \in [at : {"idle", "read", "checked"}, rev : Nat]
  /\ process \in [starts : 0 .. MaxRestarts, stopping : BOOLEAN]

Init ==
  /\ order = NoOrder
  /\ rev = 0
  /\ receipts = [k \in IntakeKeys |-> [status |-> "NONE", order |-> NoOrder, plan |-> NoPlan, rev |-> 0]]
  /\ commands = [r \in Requests |-> [status |-> "NONE", plan |-> NoPlan]]
  /\ plans = <<>>
  /\ rows = [r \in Requests |-> AbsentRow]
  /\ result = [r \in Requests |-> NoPlan]
  /\ work = [w \in Workers |-> IdleThread]
  /\ deletion = [at |-> "idle", rev |-> 0]
  /\ process = [starts |-> 0, stopping |-> FALSE]

Receive(k) == receipts[k]
ActiveKeys == {k \in IntakeKeys : receipts[k].status = "ACTIVE"}
Revise(o) == rev < MaxRevision /\ rev' = rev + 1 /\ order' = o

-----------------------------------------------------------------------------
(* intake_emergency_work_order, one transaction.  The receipt, the order,  *)
(* the revision and the job are written together; a receipt that exists is *)
(* checked and only the job is added.                                      *)

\* The request matches a receipt that may be replayed.
Replayable(r) ==
  LET c == Receive(IntakeOf[r]) IN
  /\ c.status \in {"ACTIVE", "CONSUMED"}
  /\ c.order = Pending(ContentOf[r])
  /\ order # NoOrder

\* No receipt: the order is new, or is there exactly as described.
Fresh(r) ==
  /\ Receive(IntakeOf[r]).status = "NONE"
  /\ order \in {NoOrder, Pending(ContentOf[r])}

\* Wrong variant: only the worker's own intake, a replay, adds the job.
ReplayInserts(r) ==
  rows' = IF rows[r].status = "ABSENT" /\ Replayable(r) THEN [rows EXCEPT ![r] = QueuedRow] ELSE rows

InsertJob(r) ==
  rows' = IF rows[r].status = "ABSENT" THEN [rows EXCEPT ![r] = QueuedRow] ELSE rows

NewReceipt(r, d) ==
  receipts' = [receipts EXCEPT ![IntakeOf[r]] =
    [status |-> "ACTIVE", order |-> Pending(ContentOf[r]), plan |-> NoPlan, rev |-> d]]

Intake(r) ==
  \/ Replayable(r) /\ UNCHANGED <<scenario, receipts>> /\ InsertJob(r)
  \/ Fresh(r) /\ order = NoOrder /\ Revise(Pending(ContentOf[r])) /\ NewReceipt(r, rev + 1) /\ InsertJob(r)
  \/ Fresh(r) /\ order # NoOrder /\ UNCHANGED scenario /\ NewReceipt(r, rev) /\ InsertJob(r)

IntakeRefused(r) == ~Replayable(r) /\ ~Fresh(r)

-----------------------------------------------------------------------------
(* The client: _run_replan outside a job.  A finished command answers by   *)
(* itself, anything else goes through the intake and waits for the job.    *)

\* consume_emergency_intake_receipt for plan n: a receipt that was consumed
\* keeps its first plan.
Consumable(k, n) ==
  \/ receipts[k].status = "CONSUMED"
  \/ receipts[k].status = "ACTIVE" /\ order # NoOrder /\ order = receipts[k].order
Consume(k, n) ==
  receipts' = IF receipts[k].status = "CONSUMED" THEN receipts
              ELSE [receipts EXCEPT ![k].status = "CONSUMED", ![k].plan = n]

ReplayCommand(r) ==
  /\ commands[r].status = "COMPLETED"
  /\ Consumable(IntakeOf[r], commands[r].plan)
  /\ Consume(IntakeOf[r], commands[r].plan)
  /\ UNCHANGED <<scenario, commands, plans, jobs, work, deletion, process>>

Submit(r) ==
  /\ commands[r].status \notin {"COMPLETED", "FAILED"}
  /\ Intake(r)
  /\ UNCHANGED <<commands, plans, result, work, deletion, process>>

-----------------------------------------------------------------------------
(* The job: _run_replan_job and the rest of _run_replan.                   *)

Thr(w, at) == work[w].at = at
Go(w, at) == work' = [work EXCEPT ![w].at = at]
Report(w, s) == work' = [work EXCEPT ![w].at = "finish", ![w].report = s]
Owns(w) == HasAuthority(rows[work[w].req], w, work[w].gen)

\* The dispatcher hands out no job that a thread still works on.
Claim(w, r) ==
  /\ Thr(w, "idle") /\ Claimable(rows[r]) /\ ~process.stopping
  /\ \A v \in Workers : work[v].at # "idle" => work[v].req # r
  /\ rows' = [rows EXCEPT ![r] = Claimed(@, w)]
  /\ work' = [work EXCEPT ![w] = [IdleThread EXCEPT !.at = "intake", !.req = r, !.gen = rows[r].gen + 1]]
  /\ UNCHANGED <<scenario, ledger, plans, result, deletion, process>>

\* The worker repeats the intake: it finds its receipt and its own job.
JobIntake(w) ==
  LET r == work[w].req IN
  /\ Thr(w, "intake") /\ commands[r].status \notin {"COMPLETED", "FAILED"}
  /\ \/ Intake(r) /\ work' = [work EXCEPT ![w].at = "command", ![w].rev = rev']
     \/ IntakeRefused(r) /\ Report(w, "FAILED") /\ UNCHANGED <<scenario, receipts, rows>>
  /\ UNCHANGED <<commands, plans, result, deletion, process>>

\* The command ended before: its plan, or its error, is the answer.
JobReplays(w) ==
  LET r == work[w].req IN
  /\ Thr(w, "intake") /\ commands[r].status \in {"COMPLETED", "FAILED"}
  /\ IF commands[r].status = "COMPLETED" /\ Consumable(IntakeOf[r], commands[r].plan)
     THEN Consume(IntakeOf[r], commands[r].plan) /\ Report(w, "COMPLETED")
     ELSE Report(w, "FAILED") /\ UNCHANGED receipts
  /\ UNCHANGED <<scenario, commands, plans, jobs, deletion, process>>

SetCommand(r, s) == commands' = [commands EXCEPT ![r].status = s]

\* begin_command_record: a new or retryable command is taken; a running one is
\* somebody else's, a finished one answers.
Takes(r) == commands[r].status \in {"NONE", "FAILED_RETRYABLE"}

BeginCommand(w) ==
  LET r == work[w].req IN
  /\ Thr(w, "command")
  /\ \/ Takes(r) /\ SetCommand(r, "INTAKE_COMMITTED") /\ Go(w, "prepare") /\ UNCHANGED receipts
     \/ /\ ~Takes(r) /\ UNCHANGED commands
        /\ IF commands[r].status = "COMPLETED" /\ Consumable(IntakeOf[r], commands[r].plan)
           THEN Consume(IntakeOf[r], commands[r].plan) /\ Report(w, "COMPLETED")
           ELSE Report(w, "FAILED") /\ UNCHANGED receipts
  /\ UNCHANGED <<scenario, plans, jobs, deletion, process>>

\* prepare_replan_run: the reservation is for the revision the intake returned.
SameRevision(w) == rev = work[w].rev

Prepare(w) ==
  /\ Thr(w, "prepare")
  /\ IF Owns(w) /\ SameRevision(w) THEN Go(w, "mark") ELSE Go(w, "command failed")
  /\ UNCHANGED <<scenario, ledger, plans, jobs, deletion, process>>

Ended(s) == s \in {"COMPLETED", "FAILED"}

MarkRunning(w) ==
  LET r == work[w].req IN
  /\ Thr(w, "mark")
  /\ IF Ended(commands[r].status) THEN Report(w, "FAILED") /\ UNCHANGED commands
     ELSE SetCommand(r, "REPLAN_RUNNING") /\ Go(w, "solve")
  /\ UNCHANGED <<scenario, receipts, plans, jobs, deletion, process>>

\* The solver ends, fails, or notices that the service stops.
Solve(w) ==
  /\ Thr(w, "solve")
  /\ \/ Go(w, "record") \/ Go(w, "command failed")
     \/ process.stopping /\ Report(w, "INTERRUPTED")
  /\ UNCHANGED <<scenario, ledger, plans, jobs, deletion, process>>

\* complete_schedule_run stores the run for the holder of the job only.  Its
\* refusal is a PublicationConflict, which _run_replan does not handle: the job
\* fails, and the command is told nothing.
Record(w) ==
  /\ Thr(w, "record")
  /\ IF Owns(w) THEN Go(w, "publish") ELSE Report(w, "FAILED")
  /\ UNCHANGED <<scenario, ledger, plans, jobs, deletion, process>>

\* publish_plan: plan, command, receipts and job in one transaction.
\* Wrong variant: a later plan claims consumed receipts as well.
ReceiptsReclaimed(n) ==
  [k \in IntakeKeys |->
    IF receipts[k].status \in {"ACTIVE", "CONSUMED"} /\ order # NoOrder
    THEN [receipts[k] EXCEPT !.status = "CONSUMED", !.plan = n] ELSE receipts[k]]

ReceiptsAfter(n) ==
  [k \in IntakeKeys |->
    IF k \in ActiveKeys /\ order # NoOrder
    THEN [receipts[k] EXCEPT !.status = "CONSUMED", !.plan = n] ELSE receipts[k]]

Publishes(w) ==
  LET r == work[w].req
      n == Len(plans) + 1
  IN /\ Owns(w) /\ rev = work[w].rev
     /\ n <= MaxPlans
     /\ plans' = Append(plans, [rev |-> rev, order |-> order, req |-> r])
     /\ commands' = [commands EXCEPT ![r] = [status |-> "COMPLETED", plan |-> n]]
     /\ receipts' = ReceiptsAfter(n)
     /\ rows' = [rows EXCEPT ![r] = Released(@, "COMPLETED")]
     /\ result' = [result EXCEPT ![r] = n]

Publish(w) ==
  /\ Thr(w, "publish")
  /\ \/ Publishes(w) /\ work' = [work EXCEPT ![w] = IdleThread]
     \/ Go(w, "command failed") /\ UNCHANGED <<ledger, plans, jobs>>
  /\ UNCHANGED <<scenario, deletion, process>>

\* update_command_record refuses to change a command that ended.
FailUnlessEnded(r) == IF Ended(commands[r].status) THEN UNCHANGED commands ELSE SetCommand(r, "FAILED")

FailCommand(w) ==
  /\ Thr(w, "command failed")
  /\ FailUnlessEnded(work[w].req)
  /\ Report(w, "FAILED")
  /\ UNCHANGED <<scenario, receipts, plans, jobs, deletion, process>>

\* finish_runtime_job.
Finish(w) ==
  LET r == work[w].req IN
  /\ Thr(w, "finish")
  /\ rows' = [rows EXCEPT ![r] = AfterFinish(@, w, work[w].gen, work[w].report)]
  /\ result' = IF rows'[r].status = "COMPLETED" THEN [result EXCEPT ![r] = commands[r].plan] ELSE result
  /\ work' = [work EXCEPT ![w] = IdleThread]
  /\ UNCHANGED <<scenario, ledger, plans, deletion, process>>

\* A stalled thread's lease runs out, MaxAttempts times at most; the
\* dispatcher reaps it.
RunOut(r) ==
  /\ rows[r].owner # NoWorker /\ rows[r].lease > -1 /\ rows[r].gen <= MaxAttempts
  /\ rows' = [rows EXCEPT ![r].lease = -1]
  /\ UNCHANGED <<scenario, ledger, plans, result, work, deletion, process>>

Reap(r) ==
  /\ Expired(rows[r])
  /\ rows' = [rows EXCEPT ![r] = Reaped(@)]
  /\ UNCHANGED <<scenario, ledger, plans, result, work, deletion, process>>

\* Shutdown: nothing is claimed any more.
Stop ==
  /\ process.starts < MaxRestarts /\ ~process.stopping
  /\ process' = [process EXCEPT !.stopping = TRUE]
  /\ UNCHANGED <<scenario, ledger, plans, jobs, work, deletion>>

\* The process ends at any point; _recover_runtime_owned settles jobs and
\* commands before anything runs.
\* Wrong variants: only commands that were solving are recovered; commands
\* that were published as well; a status nothing else knows.
RecoversRunning(s) == IF s = "REPLAN_RUNNING" THEN "FAILED_RETRYABLE" ELSE s
RecoversAll(s) == IF s # "NONE" THEN "FAILED_RETRYABLE" ELSE s
RecoversAsInterrupted(s) ==
  IF s \in {"REPLAN_RUNNING", "INTAKE_COMMITTED"} THEN "INTERRUPTED" ELSE s

RecoveredCommand(s) ==
  IF s \in {"REPLAN_RUNNING", "INTAKE_COMMITTED"} THEN "FAILED_RETRYABLE" ELSE s

Restart ==
  /\ process.starts < MaxRestarts
  /\ process' = [starts |-> process.starts + 1, stopping |-> FALSE]
  /\ rows' = [r \in Requests |-> Recovered(rows[r])]
  /\ commands' = [r \in Requests |-> [commands[r] EXCEPT !.status = RecoveredCommand(@)]]
  /\ work' = [w \in Workers |-> IdleThread]
  /\ deletion' = [at |-> "idle", rev |-> 0]
  /\ UNCHANGED <<scenario, receipts, plans, result>>

-----------------------------------------------------------------------------
(* The users.                                                              *)

\* cancel_emergency_intake: the newest active receipt, the order as it was
\* reported and not started.  The order and all its waiting jobs go.
\* Wrong variant: jobs that are already running are left alone.
WaitingOnly(r) ==
  IF rows[r].status \in {"QUEUED", "INTERRUPTED"} THEN Cancelled(rows[r]) ELSE rows[r]

JobCancelled(r) == IF Cancellable(rows[r]) THEN Cancelled(rows[r]) ELSE rows[r]

Newest(k) == k \in ActiveKeys /\ \A j \in ActiveKeys : receipts[j].rev <= receipts[k].rev

CancelIntake(k) ==
  /\ Newest(k) /\ order # NoOrder /\ order = receipts[k].order
  /\ Revise(NoOrder)
  /\ rows' = [r \in Requests |-> JobCancelled(r)]
  /\ receipts' = [receipts EXCEPT ![k].status = "CANCELLED"]
  /\ UNCHANGED <<commands, plans, result, work, deletion, process>>

\* create_work_order, update_work_order, the start event, and any other edit.
Create == order = NoOrder /\ Revise(Pending(Reported))
Edit == order # NoOrder /\ order.content # Edited /\ Revise([order EXCEPT !.content = Edited])
Start ==
  /\ order # NoOrder /\ order.status = "PENDING"
  /\ plans # <<>> /\ plans[Len(plans)].order # NoOrder
  /\ Revise([order EXCEPT !.status = "STARTED"])
EditOther == Revise(order)
ChangeScenario ==
  /\ Create \/ Edit \/ Start \/ EditOther
  /\ UNCHANGED <<ledger, plans, jobs, work, deletion, process>>

\* delete_work_order: the scenario, the active receipt, the save.
DeleteRead ==
  /\ deletion.at = "idle" /\ order # NoOrder /\ order.status = "PENDING"
  /\ deletion' = [at |-> "read", rev |-> rev]
  /\ UNCHANGED <<scenario, ledger, plans, jobs, work, process>>
DeleteCheck ==
  /\ deletion.at = "read"
  /\ deletion' = [deletion EXCEPT !.at = IF ActiveKeys = {} THEN "checked" ELSE "idle"]
  /\ UNCHANGED <<scenario, ledger, plans, jobs, work, process>>
DeleteSave ==
  /\ deletion.at = "checked"
  /\ IF deletion.rev = rev THEN Revise(NoOrder) ELSE UNCHANGED scenario
  /\ deletion' = [deletion EXCEPT !.at = "idle"]
  /\ UNCHANGED <<ledger, plans, jobs, work, process>>

JobStep(w) ==
  \/ JobIntake(w) \/ JobReplays(w) \/ BeginCommand(w) \/ Prepare(w) \/ MarkRunning(w)
  \/ Solve(w) \/ Record(w) \/ Publish(w) \/ FailCommand(w) \/ Finish(w)

Next ==
  \/ \E r \in Requests : Submit(r) \/ ReplayCommand(r) \/ RunOut(r) \/ Reap(r)
  \/ \E w \in Workers : JobStep(w) \/ \E r \in Requests : Claim(w, r)
  \/ \E k \in IntakeKeys : CancelIntake(k)
  \/ ChangeScenario \/ DeleteRead \/ DeleteCheck \/ DeleteSave
  \/ Stop \/ Restart

-----------------------------------------------------------------------------
(* What the intake promises.                                               *)

\* Demand that was accepted is planned by somebody: the receipt and the job
\* are one transaction, so no crash leaves a receipt that nobody works on.
NoDemandWithoutJob ==
  \A k \in IntakeKeys : receipts[k].status # "NONE" =>
    \E r \in Requests : IntakeOf[r] = k /\ rows[r].status # "ABSENT"

\* The attempt that marked the command is over, or can no longer write.
Abandoned(row) ==
  \/ row.status \in {"CANCEL_REQUESTED", "CANCELLED", "INTERRUPTED", "FAILED"}
  \/ row.status = "RUNNING" /\ row.lease <= 0

\* A command that says it is being worked on has a thread, or the process is
\* about to end.  The one exception is a replan whose job was cancelled or lost
\* its lease before its run was stored: its command goes on saying that the
\* replan runs until the process is started again.
CommandHasThread ==
  \A r \in Requests :
    LET heard == process.stopping \/ \E w \in Workers : work[w].req = r IN
    /\ commands[r].status = "INTAKE_COMMITTED" => heard
    /\ commands[r].status = "REPLAN_RUNNING" => heard \/ Abandoned(rows[r])

\* Between any two transactions, and after a death between any two, every
\* receipt has its job and every running command its thread, an abandoned
\* replan excepted.
Consistent == TypeOK /\ NoDemandWithoutJob /\ CommandHasThread

\* A completed job, its command and its plan tell the same: one version, made
\* for this request, with the emergency order in it, whatever was published,
\* retried or recovered meanwhile.
OneAnswer ==
  \A r \in Requests : rows[r].status = "COMPLETED" =>
    /\ result[r] \in DOMAIN plans
    /\ commands[r] = [status |-> "COMPLETED", plan |-> result[r]]
    /\ plans[result[r]].req = r /\ plans[result[r]].order # NoOrder

\* After a cancelled intake none of its jobs can go on, running or waiting.
CancelledIsNotPlanned ==
  \A r \in Requests : receipts[IntakeOf[r]].status = "CANCELLED" =>
    rows[r].status \in {"ABSENT", "CANCEL_REQUESTED", "CANCELLED", "FAILED"}

\* The receipt names the plan that covered the demand first; later plans for
\* the same order, and late acknowledgements, do not change it.
FirstConsumptionKept ==
  [][\A k \in IntakeKeys : receipts[k].status \in {"CONSUMED", "CANCELLED"} =>
       receipts'[k] = receipts[k]]_vars

Spec == Init /\ [][Next]_vars

\* The dispatcher claims what waits and reaps what expired, every thread goes
\* on, and a process that is being stopped is started again.
FairSpec ==
  /\ Spec
  /\ \A w \in Workers : WF_vars(JobStep(w)) /\ WF_vars(\E r \in Requests : Claim(w, r))
  /\ \A r \in Requests : WF_vars(Reap(r))
  /\ WF_vars(process.stopping /\ Restart)

\* An accepted emergency job ends, across expired leases, stops and restarts
\* (spec.md: the recovery picks up the same job without a new request).
EveryJobEnds ==
  \A r \in Requests : rows[r].status \in ActiveStatus ~> rows[r].status \in Terminal
=============================================================================

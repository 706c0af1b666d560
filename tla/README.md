# FieldFlow Local: specifications

TLA+ models of the backend in `src/backend`, checked with TLC and, where a
theorem is listed, proved with TLAPS. The reference is the code; every
definition that models code is mapped to its lines in `PROJECT.json` (`map`).

## 1. The system

One Python process (FastAPI, SQLite in WAL mode) serves one planner's desk.
All writes are `BEGIN IMMEDIATE` transactions, so one transaction is one step;
everything that is hard happens *between* transactions: a handler or a pool
thread reads, solves for minutes in a child process, and writes later.

| Component | State it keeps | Operations | What makes it correct |
|---|---|---|---|
| Durable job runtime (`storage.py` 4689-5225, `main.py` 183-277, 3480-3600) | `runtime_jobs`: status, owner, attempt, lease, deadline | enqueue, list, claim, heartbeat, finish, cancel, reap, recover | one thread per job, bounded attempts, a plan exactly for a COMPLETED job, cancel wins or publication wins, every job ends |
| Dispatcher and pool (`main.py` 203-277) | futures, semaphore, list read at the start of a round | prune, reap, list, skip, submit, drain | long jobs leave the short lane free; no job on two threads |
| Solve commands (`command_keys`; `main.py` 640-740) | status per key | reserve, update, fail, complete in the publication | tells what was published; RUNNING only with somebody behind it, an abandoned replan excepted (section 5) |
| Strategy experiments (`main.py` 5440-5700, `storage.py` 9021-9150) | `strategy_experiments` beside its job | queue or join, save, cancel, finish, recover | result and job end together, cancellation is not taken back, one live experiment per fingerprint |
| Revisions D, plan versions V, applicability (`storage.py` 3045-3420, 3698-3796, 6157-6760) | `scenarios`, `scenario_revisions`, `plan_versions`, `plan_applicability`, `publication_keys` | edit, reset, publish, activate, restore | V bound to its D, one active plan, judged against the current D, no lost update |
| Reservations and schedule runs (`storage.py` 6762-7482) | `planning_reservations`, `schedule_runs`, `schedule_candidates` | reserve, complete, fail, recover | a candidate is published only over what its reservation froze |
| Execution events (`storage.py` 5284-5650) | `work_order_execution_events` | start, complete | facts are never undone |
| Emergency intake (`storage.py` 4220-4690, `main.py` 2100-2520) | `emergency_intake_receipts`, the order, its command and job | receive, replay, replan, consume, cancel, delete, recover | one answer per command, a cancelled order is never planned, a receipt keeps the plan that consumed it first |
| Manual reassignment (`main.py` 1690-2090) | `command_keys` of the saga and of its solve, the schedule run, lock objects per key | reserve, save the lock, replan, publish, resume | one lock, one plan, over the plan the dispatcher had seen; an end for a client that asks again |
| Decision analysis (`main.py` 3040-3755, `storage.py` 7540-7900) | `decision_analysis_runs`, `job_analysis_bindings`, retry commands | reserve or follow, compute, finish, retry, interrupt, recover | nothing runs without an owner, everybody reads one answer |
| Risk comparison (`main.py` 3979-4400, `storage.py` 8236-8620) | `risk_comparison_sagas`, `risk_comparison_runs` | reserve, start each side, record, save, complete | compares what is completed, one answer per key |
| Scheduling (`scheduler.py`, `normalization.py`, `verification.py`, `execution.py`) | none; it reads the event log | solve, replan, normalise, verify | what a solver returns is publishable, work in hand is kept, nobody is in two places |
| Artifact blobs, outbox, file lock and CLI, migrations, decision metrics, report, HTTP, frontend, scripts | | | not modelled (section 7) |

Interaction: an HTTP handler enqueues a job; the dispatcher thread hands it to
a pool thread; the thread claims it (owner + attempt number = its *authority*),
reserves a schedule run, solves in a child process while heartbeating, and
publishes; the publication transaction writes plan, applicability, active
pointer, command and job together. Clients cancel, edit and execute at any
time; the reaper takes a lost lease away; a stop, crash or restart may come
between any two transactions.

The code's hazards are listed at their lines in `PROJECT.json` (`hazards`),
each with the properties that would show it going wrong, or why none does yet.

## 2. Modules

    JobContract        what a client may rely on about a job (abstract)
    JobRow             one row of runtime_jobs: a function per transaction on it
    RuntimeJobs        jobs + dispatcher + pool + commands + plans + process   (EXTENDS JobRow, implements JobContract)
    Experiments        experiment rows + their jobs + worker threads           (EXTENDS JobRow)
    ScenarioLedger     what D/V versions promise (abstract)
    PlanPublication    one scenario's tables + concurrent requests             (implements ScenarioLedger)
    EmergencyIntake    an emergency order, its receipts, commands and jobs      (EXTENDS JobRow)
    ManualReassignment the saga of one reassignment and everybody else
    DecisionAnalysis   analyses of one input, shared, retried, interrupted      (EXTENDS JobRow)
    RiskComparison     sagas that compare two analyses
    Schedules          visits, travel, and what the verifier demands of routes (no state)
    RouteContract      what any engine that builds routes promises (abstract)   (EXTENDS Schedules)
    GreedySchedule     the greedy baseline, order by order                      (implements RouteContract but for locked orders it leaves out)
    FieldDay           replans of a day while services begin and end            (EXTENDS RouteContract)
    MC...              TLC's constants, small instances, symmetry and bounds
    JobRowProofs       what the functions of JobRow do to a row
    ...Proofs          theorems about the module of that name
    AnalysisProofs     theorems about DecisionAnalysis and RiskComparison
    RouteProofs        theorems about RouteContract, GreedySchedule and FieldDay

`JobRow` holds the guards and effects of the row transactions as operators on
one row (`Claimable`/`Claimed`, `HasAuthority`, `Released`, `Finishes`/
`AfterFinish`, `Cancelled`, `Reaped`, `Recovered`), so that the two modules
that own such rows, and the proofs about both, share them.

Definitions that begin with a comment "Wrong variant" are not part of the
models: each is a plausible bug (a dropped comparison, a missing half of a
transaction, an off-by-one) in the definition that follows it. Putting it in
that definition's place must break the property named in `mutants`.

### RuntimeJobs

`row` is `runtime_jobs`; `cmd` the `schedule-solve` command of each keyed job;
`plans` counts the versions a job has published. `pc/on/gen` are the pool
threads with the job and attempt number they hold in memory; `dpc/pending/
listed` the dispatcher's place, futures and the rest of the list it read;
`phase` the process. The child process has no state of its own: it only
answers its thread through a pipe. Leases count ticks of one clock; the 30, 60
and 120 s leases of the code are one constant, since only *held* and *expired*
are told apart. `HasAuthority` is `_assert_job_authority`: status, owner,
generation, lease and cancellation. `SolveStopped` is `ServiceStopping`, a
`BaseException` that passes the `except Exception` handlers, so its command
stays RUNNING until the next start. A solve is stored (`Record`,
`complete_schedule_run`) before its plan is published (`Publish`), and both ask
for authority. A refused publication reaches every lane as an `HTTPException`,
and the command is failed (`PublishRefused`, then `UndoCommand`, the two a step
apart). The refusal to store the run does not: it is a `PublicationConflict`
that `publish_outcome` lets through. `run_baseline` and `run_optimize_api` hear
of every exception; `_run_replan` hears of `HTTPException` only, so the command
of a refused replan (`ReplanJobs`) is left as it is and just the job ends
(`RecordRefused`). `CommandHasOwner` names this exception. Not modelled: progress numbers, job kinds
other than planning jobs, the order in which listed jobs are submitted.

### Experiments

`job` and `exp` are the two rows. `pc` follows `_run_experiment`: claimed,
begin, then for each strategy check, solve, round, save, beat, at last
conclude and report; `stop`, `giveup`, `failing` and `interrupt` are its ways
out. `SaveExperiment` is `save_experiment` under the thread's authority: an
ended row is left alone, an accepted cancellation overrides, an end releases
the job in the same transaction. The dispatcher's list is not repeated here
(RuntimeJobs shows that a job is never on two threads), nor are candidates.

### PlanPublication

`head`, `chain`, `events`, `plans`, `appl`, `keys` and `run` are the tables of
one scenario; `req` holds what each handler has read (revision, expected
active plan, source, key) and how far it is. One module-level request is one
HTTP request or one solved candidate, and passes through separate
transactions:

    edit         read scenario | read active plan | save, comparing both
    reset        read scenario | read events      | save, comparing the revision
    solve        read scenario | reserve | complete run | publish
    activate     read scenario | look key up | reserve | complete | publish
    restore      read scenario | look key up | read active plan | reserve | complete | publish + revision
    experiment   read scenario | read active plan | reserve | complete | asked for, later | publish

Execution (`Start`, `CompleteOrder`) reads and writes in one transaction. The baseline,
optimize and replan commands are all "solve": they differ in what they refuse,
and replan refuses least. A snapshot is one data value and the order statuses;
since a snapshot contains its own revision number, equality of
snapshot hashes is equality of revisions. The publication compares the
revision, the active plan and the execution watermark with the reservation,
looks the key up again, deactivates the old plan, inserts the version, and for
a restore the revision. Refusals are `Refuse`: any handler may also fail for a
reason the model leaves out. `CrashAndRestart` drops all handlers, fails
running schedule runs and leaves stored strategy candidates publishable.
Left out: reattestation of legacy plans (it follows activation), resuming an
interrupted run (manual reassignment), what applicability says about a plan,
manifests and hashes of stored records.

### EmergencyIntake

One emergency order, reported by several requests. A request is an intake key
and a command key; `receipts`, `commands` and `rows` are the three tables, and
each request has its own job. The client (`ReplayCommand`, `Submit`), the job
(`Claim` to `Finish`) and the users (`Create`, `Edit`, `Start`,
`CancelIntake`, deletion in two steps) are `_run_replan` called from outside
and from inside a job, and the handlers beside it. The order is a content and a
status: the hash the code compares covers both. `Takes`, `MarkRunning` and
`FailUnlessEnded` are the three ways in which a command ledger refuses.
A job whose lease ran out meets, in its next attempt, the command its first
attempt left; only a restart makes such a command retryable, so a second attempt
in the same process ends FAILED, which the model shows and `EveryJobEnds` allows.
So does a replan that may no longer store its run (`Record`): nobody tells its
command, which stays REPLAN_RUNNING until a restart. `CommandHasThread`, in
`Consistent`, names this exception and no other. Whatever else fails, in the
solver or in the publication, is told in a step of its own (`FailCommand`).

### ManualReassignment

`command` is the row of `:manual-reassignment`, `solve` the row of the replan
inside it, `run` the schedule run, `mutex` the reference-counted lock objects.
`saga[t]` is the program counter of a request thread with the revision it last
read. The status a call *read* (`seen`) decides where it goes on, not the one it
finds when it writes. Others edit, lock, unlock, publish, or replan under the
same key; a restart recovers the run and the solve command and leaves the saga
to its client. The request names the plan the dispatcher had seen. The code makes
that field optional (`main.py:1925`, `main.py:778`): a request without it is
replanned over whichever plan is active when the replan is prepared, nothing is
promised about the plan it replaces, and it is not modelled.

### DecisionAnalysis

`runs` are the A-numbered analyses of one input; `bind` says which attempt of a
job waits for or computes which of them. `proc[r][g]` is what executes attempt
`g` of request `r`: a child process of a job, or the handler of a synchronous
request; `thread` is the pool thread that watches the child through its pipe.
Both write to the database, and only the job's authority keeps them apart: a
child whose parent was killed goes on (`Restart` picks which), until its
authority fails. `Interrupted` is the half transaction that claims,
cancellations, reaping and failed finishes share.

### RiskComparison

`sagas` and `saved` are the two tables, `analyses` those of each plan (the
one that counts is the newest), `call` the handlers. A side is done when the
analysis in hand was *read* as completed; `Save` trusts these readings, which is
right because a completed analysis stays completed. `met` is a history variable:
the keys of which two calls were under way together.

### Schedules, RouteContract, GreedySchedule, FieldDay

A scenario is a record of functions of orders and technicians (time windows,
locks, skills as `able`, shifts, a travel matrix of any shape). `Schedules`
holds what normalisation derives of a route (`Normalized`) and every group of
checks of `verification.py` (`Stands` and its parts: coverage, manual locks, visits,
legs, entry, return, derived values). `RouteContract` is the routing model of
`optimized_schedule` without the search: any routes that satisfy the constraints.
An order may be left out unless it is `Bound`: "a valid manual lock is a hard
commitment" and has no disjunction. A lock whose technician cannot be given the
order is no such commitment: the precheck takes the order out, and the verifier
refuses the plan.
`GreedySchedule` is `baseline_schedule`, one action per order in the code's sorting
order, with the reasons an order is left out for. It knows no commitment: a
locked order waits for its turn and is left out if it no longer fits
(`DropsCommitment`), the one step the contract does not allow; the verifier
refuses such a baseline.
`FieldDay` joins the two with time: the event log of services that begin and end
early, late or over time (`Start`, `Complete` are `storage.py` 5284-5650), the
projections made from it (`execution.py`), `replan_schedule` with its frozen
visits, moved entries and shifted numbers, the verifier, and the publication
that follows minutes later, refused if the log moved.

## 3. Runs

| Run | Instance | Shows |
|---|---|---|
| `runtime_jobs` | 2 long jobs, one keyed; 2 threads; 1 long lane; 2 attempts; 1 stop | single flight, lane, attempts, plan = COMPLETED job, JobContract |
| `runtime_jobs_live` | a replan and a long optimization, both keyed, 1 thread, 1 stop, fair | command tells the truth and has an owner, an abandoned replan excepted; every job ends; an accepted cancellation ends CANCELLED |
| `stale_failure` | 1 keyed job, 1 thread | **violation**: a thread without its lease writes the command's failure |
| `experiments` | 2 identical requests, 2 threads, 2 strategies, 1 stop | result with job end, cancellation agreed, one live per fingerprint, ends final, restart settles |
| `experiments_orphan` | 1 experiment | **violation**: a job ends and its experiment stays live |
| `plan_publication` | 3 requests of any kind, 1 order, 2 data values, 1 key of each kind, 1 experiment | history, one active plan, current projection, facts kept, once per key, ScenarioLedger |
| `emergency_intake` | 2 intakes of one order under 2 keys, 2 threads, 2 attempts, 1 stop, fair | receipt, command, job and plan agree, the command of an abandoned replan excepted; cancelled is not planned; first consumption kept; every job ends |
| `manual_reassignment` | 1 request, 2 threads, others' revisions up to 2 and plans up to 2, 1 death, fair | one saga at a time, one lock and one plan, over the plan that was seen; every command ends |
| `decision_analysis` | 2 jobs (one a retry), 1 caller, 2 threads, 2 attempts, 1 stop, fair | running has an owner, one answer, only owners interrupt, every job ends |
| `risk_comparison` | 2 keys, 2 threads, 3 calls, 3 analyses per plan, 1 death | compared is completed, one answer per key, completed stays |
| `greedy_baseline` | 128 days of 3 orders, 2 technicians, 2 matrices | RouteContract is implemented, but for locked orders left out; left out only for earlier orders |
| `field_day` | 3 days of 2 or 3 orders, 2 technicians, times 0 to 4 | bookings kept, work reachable, solved replans publishable, plans follow work |

Properties that are conjunctions keep their parts by name in the module:
`JobsBounded` is single flight, the short lane and the attempts; `CommandsAgree`
that a command tells of its publication and has an owner, checked where replans and
other lanes, all keyed, meet expiry, cancellation and a stop; `RowsAgree` result and
cancellation; `ActiveIsCurrent` one active plan judged by current data;
`Consistent`, in each module that has it, the type and the agreement of its
tables.

Bounds. `MaxRestarts` limits stops and crashes; one is enough for every pair
(state at the stop, recovery of it), and recovery leaves no memory but the
rows. `MaxAttempts` is 2 of the code's 3: first, last, and one past the last
are all reached. `LeaseTicks` is 2 where heartbeats renew leases that have aged,
and 1 in the modules where a lease is only held or run out.
`QueueLimit`, `LongLanes` and `ExperimentLimit` are reached.
Two threads and two jobs give every pair of actors; a third job adds only a
queue. `MaxRevision` is above what three requests and one order can make in
all but a few interleavings (four of at most five), so it cuts nothing that
the properties see. Three requests are a version, and two requests that race
over it. Symmetry is used on threads, experiments and requests, in safety runs
only, where the specification never orders them.

Constraints, where an instance is still too large:

* `ThreadPerJob` (emergency, decision): a job has one thread at a time and any
  idle thread may take it, so the thread is named after the job. It loses no
  interleaving.
* `OneStalls` (emergency): only the first job's lease runs out. The jobs are
  alike, and two that stall together add nothing but a longer queue.
* `NotBoth`, `EndsUndisturbed` (decision): the analyses are disturbed by a
  synchronous request, or by lost leases and cancellations, or by a stop, not by
  all three in one behaviour; and the service ends in the first attempt.
* `Made`, `ThirdOfOnePlan` (risk): each plan begins without analyses or with a
  failed one and its successful retry, others make a third of the second plan
  only, and nobody dies then. That is enough for the newest analysis to change
  under both sides.
* `Horizon`, `Times`, `Patience`, `Estimates`, `Overrun` (day): minutes up to 4,
  replans asked for at minute 2, no waiting beyond what windows force, and
  estimates of remaining work given or not. Services may begin late and overrun.

Random simulation with larger constants met no violation of the safety
properties either: DecisionAnalysis with two calls, two expiries and two
restarts; EmergencyIntake with two restarts and without `OneStalls`;
ManualReassignment with four revisions, three foreign plans and three deaths;
RiskComparison with six calls, five analyses and two deaths and without its
constraint; FieldDay with requests at minutes 1 to 5 of a horizon of seven and
an overrun of two. `ThreadPerJob` stayed in force where it is used.

## 4. Fairness

The runs with liveness assume it of the service's own threads and of nothing
else: no fairness of clients, edits, heartbeats, crashes or cancellations, with
the one exception below.

* `runtime_jobs_live`: the dispatcher thread and each pool thread go on (loops
  with no other exit), a solve ends because `_solve_in_process` kills the child
  at its deadline (limit + 15 s), the clock ticks, and a process that stopped is
  started again.
* `emergency_intake`: each step of a thread that works on a job, reaping,
  handing out jobs, and a start after a stop.
* `decision_analysis`: one condition for what executes a request's attempts
  (each takes a bounded number of steps), one per pool thread, reaping, one for
  handing out some job, and a start after a stop. Weak fairness of "some job is
  taken" is what a loop over the list gives; it does not promise that a given
  one is, and the queue is short enough that each is.
* `manual_reassignment`: the threads, and a client that asks again while the
  command is resumable. The code has no other way to end such a command (a
  restart leaves it to its client), so the property says what the client's
  retries are worth and not that the service ends it by itself.

Weak fairness suffices: nothing disables a step that a thread is waiting to
take, except another step of that thread.

TLC checks liveness on the states the constraints leave. A behaviour that a
constraint cuts is not refuted by it: for `EveryJobEnds` in the two constrained
runs the cut behaviours are those with a second disturbance.

## 5. Findings

Two runs show the code doing something else than the documents say.

* `stale_failure`: `fail_solve_command` writes FAILED into the command ledger
  without checking owner, generation, lease or cancellation, where `spec.md`
  says all results are checked. The next attempt of the job reads that FAILED
  and gives up.
* `experiments_orphan`: a job that fails outside `save_experiment`, or is
  reaped for the last time, leaves its experiment QUEUED or RUNNING until the
  next restart, where the audit closure says the two end together.

### Divergences seen while modelling

These have no run of their own; the models take the step the code takes, and
the properties say what still holds.

* `main.py:1429`: the deletion of a work order looks for an active receipt in a
  transaction of its own, and an intake of an order that is there already
  (`storage.py:4397`) adds a receipt without a new revision, so the deletion's
  compare-and-set does not see it. The order goes and its receipt stays active;
  `task.md:30` has the deletion answer 409, `spec.md:81` an explicit
  cancellation.
* `main.py:1848`: only a call that *resumes* a reassignment compares the
  scenario with the revision of the lock; the call that saved the lock goes on to
  replan whatever revision it reads next. `CHANGELOG.md:51` makes context changes
  after the lock terminal. What holds instead is `PlannedOverSeenPlan`.
* `main.py:1804`, `main.py:1721`: after a death between the save of the lock and
  its record, and one more edit, the command ends FAILED with the advice that
  nothing was saved, while the lock is there.
* `main.py:3088`: an interrupted analysis is read in one transaction and resumed
  in another, so after a restart two jobs of one input may compute it twice;
  `README.md:56` of the repository says running and completed records are reused.
* `main.py:4087`: `BEFORE_COMPLETED` and `AFTER_COMPLETED` are recorded over
  analyses that failed or still run; the save then refuses. `main.py:4004`: a key
  that has a comparison is answered before its saga is looked at, so a saga whose
  call died between save and completion stays AFTER_COMPLETED for ever, where
  `spec.md:103` has it go on from the stage that failed.
* `storage.py:8483`: a key that is given the comparison another key saved of the
  same analyses is not recorded with it. Two calls of such a key that overlap can
  be answered differently: one with the foreign comparison, the other, having
  read a newer analysis, with its own. `OneAnswerPerKey` states exactly this
  exception, and TLC reaches it.
* `scheduler.py:1161`: a replan moves the place a technician starts from, and the
  routing model ends routes where they begin, so a solved replan may fail the
  verifier's return home (`verification.py:482`, `spec.md:74`). `scheduler.py:1163`:
  it frees a technician in service at the projected end, the verifier compares the
  next leg with the planned end (`verification.py:429`). `main.py:796`: a first
  replan without a plan compares its metrics with an internal one the verifier
  does not have, where `scheduler.py:545` wants a valid result immediately
  verifiable.
* `verification.py:300`: of a technician who began a service, the verifier looks
  for the visit that follows it by the *number* the service had in the old plan.
  The candidate is numbered anew, so the visit found may be the second or third
  after the service, whose arrival includes the visits before it, and it is
  compared with the direct way to it. Where no way is shorter by way of a visit
  (`NoShortcut`) the comparison is harmless: so it is with the built-in provider,
  whose rounding costs at most one minute where a service takes at least one. An
  imported matrix (`travel.py:54`) may have such a shortcut, and then a solved
  replan is refused; TLC finds it with four orders. `SolvedStands` names these
  four cases, and section 6 says why there is no fifth.
* `main.py:1052`, `main.py:2614`: a replan that is cancelled, reaped or out of lease
  when it stores its run is refused by `storage.py:7369` with a
  `PublicationConflict` that nobody on its way turns into an `HTTPException`, and
  the replan's handler hears of nothing else. `_run_replan_job` ends the job, and
  the command says RUNNING, or REPLAN_RUNNING, with no thread behind it:
  the next attempt and every retry of the key are told that the request is being
  solved (`main.py:678`), until a restart makes it retryable (`spec.md:87`).
  `CommandHasOwner` and `CommandHasThread` state exactly this exception, for this
  lane only.
* `scheduler.py:752`: the greedy baseline leaves a locked order out when its
  technician's day is full at its turn, where the routing model holds that "a valid
  manual lock is a hard commitment" (`scheduler.py:939`), and the verifier refuses
  the whole baseline (`verification.py:154`). `scheduler.py:934`: the routing model
  itself leaves out a locked order that its technician cannot be given, and the
  verifier refuses that plan too.
* `storage.py:5765`, `storage.py:5805`: the remaining minutes of a service in hand
  default to the order's duration; `spec.md:63` has them come from
  `active_service_default_remaining_minutes`.

## 6. Theorems

Each of the modules `...Proofs` proves the safety properties of the runs of its
components for any sets of jobs, threads, experiments, requests, orders, keys,
technicians, scenarios and data, any limits, lease lengths, numbers of restarts,
analyses and revisions, any log of services and any number of replans:
`RuntimeJobsProofs`, `ExperimentsProofs`, `PlanPublicationProofs`,
`EmergencyIntakeProofs` and `ManualReassignmentProofs` of the module they are
named after, `AnalysisProofs` of `DecisionAnalysis` and `RiskComparison`,
`RouteProofs` of `RouteContract`, `GreedySchedule` and `FieldDay`. They rest on the named assumptions on constants
only (`NoJob` is not a job, `MaxAttempts` is positive, the kinds of keys are
disjoint, there are finitely many threads, times are not negative, ...) and on
the facts about one row in `JobRowProofs`.

None of the properties is inductive as it stands; each module has an invariant
(`IInv`, `CompareInv`, `GreedyInv`, `DayInv`) that is, with one lemma per action (or
per group of actions that only move a thread).

* **RuntimeJobs.** `SingleFlight` needs `DispatchInv`: every busy thread's job
  is among the futures, and what is listed but not among the futures has a row
  nobody works on - true of a list that is stale, since a job starts
  to run only through a thread, whose job is a future until the next `Prune`,
  and the list is emptied before that; a cancellation only ends it. `AttemptsBounded` needs
  `RowsInv` (how many attempts an INTERRUPTED row can have behind it while the
  process is up) and `FuturesInv` (the same for a future that outlives the
  phase change). What it bounds is attempts plus stops: recovery requeues a
  RUNNING row whatever its attempt. That the reaper, which alone
  requeues while the process is up, gives a job at the limit up is the action
  property `GivesUpAtLimit`, proved with it. `ShortLaneKept` is about threads while the dispatcher counts
  futures: `LaneInv` bounds the futures, and the threads inject into them.
  `CommandHasOwner` is inductive over `IInv`, because a stopping process never
  comes back up without `Restart`, and because of `ClaimedInv`: a RUNNING row is
  held by the thread of its present attempt, so a replan that is refused has
  lost its row to a cancellation, the reaper or its lease, and an attempt after it
  finds the command reserved and fails.
* **RuntimeKeepsContract.** Every action maps to a step of `JobContract` or to
  a stutter, reaping and restarting many rows at once included.
* **Experiments.** `TablesInv` ties the two rows of an experiment together
  (which pairs of statuses occur), `ThreadsInv` what a busy thread holds: an experiment, and
  a strategy left to solve as long as it has not concluded. That suffices since
  a save and a finish compare the rows before they write.
  `EndedStaysEnded` and `RestartSettles` are action properties proved from it.
* **PlanPublication.** `Sound(q)` is what remains true of the record of a
  handler while others write: its revision exists and never changes, a restore
  read no order under way and completes nothing twice, a reset that saw no
  events still sees none *if* the revision did not move. `PastInv` says no
  earlier revision is ahead of the head in executing an order. Together they
  give `RestoreKeepsStatus`: a version that is restored has every order exactly
  where it is now, which is what both `FactsKept` and the refinement need.
* **RequestsActAtOnce.** A writing step is one step of `ScenarioLedger` over
  the present head and versions, since what the handler compares makes its old
  readings equal to the present; everything else stutters.
* **ManualReassignment.** `MutexInv` ties the lock object to the threads: the
  entry counts whoever has entered, they all have the same object, and whoever
  is past the lock holds it. `ChainInv` is why there is one lock revision: it can
  only be the one after the revision that was asked for, and revisions are never
  taken back. The plan of the saga is the one published under its key
  (`PlansInv`). For `PlannedOverSeenPlan`, `LockInv` says that since the revision
  on record the lock holds or was released, and `RunInv` that the run stands for
  the active plan that was asked for, across restarts too. What a thread has
  read stays true under `Onward`, which every step satisfies.
* **RouteContract.** `HandedOverStands` has no run of its own: the contract is
  what `greedy_baseline` compares with, and the theorem is why that comparison is
  worth something. The invariant says of every route under construction that its
  visits are numbered, allowed, in their windows and reached in time, that each
  order is in one place, that nothing bound is left out, and that the last visit
  leaves time to return. The theorem assumes `LocksServable`: solver and verifier
  disagree on a lock whose technician cannot be given the order.
* **GreedySchedule.** `KeepsContract` is a refinement: a placement is a `Visit`
  at the earliest start, an order left out is a `LeaveOut` if it is not bound and a
  `DropsCommitment` if it is, and the end is a
  `HandOver`, for which `GreedyInv` has to know that no placement was made that could
  not return. `BaselineStands` says what the verifier makes of the result: it accepts
  it unless a locked order was left out. It rests on `BuiltInv`, the part of the
  contract's invariant that speaks of routes and not of who was left out.
  `LeftOutForEarlier` is part of the invariant: it speaks of what was placed before,
  which later placements only lengthen.
* **FieldDay.** The only module where everything the code adds up - leave, travel,
  wait, serve, report - has to come out right, so `DayInv` is the longest
  invariant, and each part answers one question. `LogInv`: what is reported is
  reported once and in order, and a service in hand is the last report of its
  technician. `ProgressInv`: the active plan was worked off from its front, and
  whatever else its technicians reported came before; without it a plan published
  between two reports could leave a hole. `BookedInv` is `BookingKept` with the
  facts of the start event: it survives a publication since the verifier compares
  just these. `SolverInv` carries `RouteInv` of the contract to entries that a
  replan moved, and `ReachedFromEntry` (no visit is reached before the
  technician could come directly), which is what the verifier's look at one later
  visit amounts to. `AskInv` is what minutes of solving may rely on: a request
  that no report has overtaken (`seen` is the length of the log) still freezes
  what it would freeze now. `WorkIsReachable` is inductive over these.
  `PlanFollowsWorkHolds` is about the one step that publishes: the checks of the
  verifier alone, whoever made the candidate, imply it. `SolvedStandsHolds` goes
  through all groups of checks of the verifier: what the solver promises of a
  route is what the verifier asks, for frozen visits, moved entries and shifted
  numbers. That at most one visit of a technician is frozen, so that its number
  is one, follows from `LogInv`.
* **EmergencyIntake.** `Consistent` and `CancelledIsNotPlanned` speak of rows and
  receipts, but are kept by what a thread does later with what it read before:
  `ThreadOK` says what remains true of that (while the revision it read is the
  scenario's, the order is in the scenario; it reports a completion only of a
  completed command). `CommandOK` ties a command to its receipt and its plan, and
  says where a thread can be that works on it: that is why two attempts of one
  job, or a client beside a job, give one answer. `RowsInv` has every job of
  a cancelled intake ended or without authority. `ClaimedInv` says who holds a
  running row; with it, a job whose replan is refused is `Abandoned`, and
  stays so unless another attempt, which finds the command taken, is at it: the
  exception `Consistent` makes. `FirstPlanStaysOnReceipt` is an
  action property: a settled receipt is left alone by every step.
* **DecisionAnalysis.** `RunsInv` has every running analysis bound, as its owner's,
  to the present attempt of the job that computes it, or to a call that is at
  it. That is not inductive without `ProcsInv`, which says of *every* attempt, the
  orphans of killed parents too, what remains true of what it holds: while its
  attempt is the job's present one, the job is bound to the analysis it computes.
  So an orphan either has no authority or is the only one. `ThreadsInv` ties a
  thread to the present attempt of its job (no two threads have one job) and says
  that a report of success was said by the child and is in the tables already;
  this gives `AnswersAgree` although the thread reports long after the
  child has written. `HeldInv` is what the commands of synchronous retries need: at
  most one call works under a command, since a reservation is released only by
  completing, failing or a restart, which ends all calls. What a step leaves alone
  is collected in three shapes (`AttemptMoves`: an attempt moves; `JobKeeps`: the row
  of a job changes; `NewKeeps`: an attempt is added), so that each action only
  proves what it changes. `OnlyOwnersInterrupt` follows from `BindOK`: who
  is bound as owner is who the analysis is run by.
* **RiskComparison.** Calls read and write in different steps, so `CallInv` says
  what remains of a reading: completed analyses stay so, and a thread's own
  analysis is left to it. `SavedInv` has one comparison per key and per content.
  `OneInv` is the heart: an answer is either the key's own comparison, or a
  foreign one that the completed saga names together with its analyses, and then
  the next call of the key, alone under way, starts with these analyses, finds
  both completed, makes nothing new, and is given the same comparison. That is
  why the exception needs two calls together (`met`).

## 7. Only model-checked, and not modelled

Liveness (fairness and ENABLED) is beyond the prover, so only TLC checks
`EveryJobEnds`, `CancelHonoured` and `EveryCommandEnds`. Every safety property and
every action property of a passing run is proved. The two violated properties are counterexamples on one instance and need no more.

Induction: the schemes of the proof library cannot be instantiated by the
backends, but a set of numbers has a least element (`HasMin` in `RouteProofs`),
and the least counterexample does the same work. No recursive definition
is used in a module that is proved about.

Not modelled, and why:

* The search of the routing library, its costs, and what is computed over a
  finished schedule (objective, KPIs, evidence, explanations, strategy
  comparison): the contract allows every solution, so nothing the checks rest on
  depends on which one is found.
* The arithmetic of risk and cost analyses and of plan differences
  (`decision.py`, `planning.py`): their outcomes are choices.
* Artifact blobs: a blob is stored with the row that refers to it in one
  transaction, and pruning looks and deletes in one, so no step comes between.
* The outbox: its marks are advisory; the dispatcher finds durable jobs without
  them.
* The file lock and the command line: exclusion is the operating system's, and
  the commands work on a database nobody else has open.
* The order of jobs within a round of the dispatcher, and the promotion after
  30 s: any order is allowed, so the liveness that is checked covers this one for
  a fixed set of jobs, and says nothing of a stream of short jobs without end.
  The five seconds a shutdown waits for the dispatcher.
* What an applicability says of a plan (only for which revision it was judged),
  manifests, hashes and the isolation of damaged records.
* Schema creation and migration, HTTP routing and validation, reports, the
  frontend, scripts and fixtures.

Worth doing next: a specification of a command key ("at most one effect, one
answer") that the four modules with commands implement.

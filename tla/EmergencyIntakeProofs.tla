----------------------- MODULE EmergencyIntakeProofs -----------------------
(***************************************************************************)
(* EmergencyIntake for any number of requests, intake keys and threads: no *)
(* demand without a job, no running command without a thread but that of   *)
(* an abandoned replan, one answer per request, and nothing planned that   *)
(* was cancelled.                                                          *)
(***************************************************************************)
EXTENDS EmergencyIntake, JobRowProofs

-----------------------------------------------------------------------------
(* The inductive invariant.                                                *)

\* Only a job under way has an owner.
Owned(r) == r.status \notin {"RUNNING", "CANCEL_REQUESTED"} => r.owner = NoWorker

Asked(r) == receipts[IntakeOf[r]].status

\* Statuses that a job cannot leave for work.
Idling == {"ABSENT", "CANCEL_REQUESTED", "CANCELLED", "FAILED"}

\* Receipts and jobs: none without the other.
RowsInv ==
  /\ \A r \in Requests : Owned(rows[r]) /\ (rows[r].status # "ABSENT" => Asked(r) # "NONE")
  /\ NoDemandWithoutJob
  /\ CancelledIsNotPlanned

\* Where a thread is while it is the one that works on a command.
InCommand == {"prepare", "mark", "solve", "record", "publish", "command failed"}

\* A running replan has a thread, or its attempt was abandoned.
Busy(w, r) == work[w].req = r /\ work[w].at # "idle"
Attended(r) == (\E w \in Workers : Busy(w, r)) \/ Abandoned(rows[r])

\* A completed command consumed its receipt with a plan of its own, in which
\* the order is; and only a completed command completes a job.
CommandOK(r) ==
  /\ commands[r].status = "INTAKE_COMMITTED" =>
       process.stopping \/ \E w \in Workers : work[w].req = r /\ work[w].at \in InCommand
  /\ commands[r].status = "REPLAN_RUNNING" => process.stopping \/ Attended(r)
  /\ commands[r].status = "COMPLETED" =>
       /\ Asked(r) = "CONSUMED"
       /\ commands[r].plan \in DOMAIN plans
       /\ plans[commands[r].plan].req = r /\ plans[commands[r].plan].order # NoOrder
  /\ rows[r].status = "COMPLETED" =>
       commands[r].status = "COMPLETED" /\ commands[r].plan = result[r]
CommandsInv == \A r \in Requests : CommandOK(r)

\* Between its intake and its publication a thread goes by the revision it
\* read: while that is the scenario's, the order is in the scenario.
Planning == {"command", "prepare", "mark", "solve", "record", "publish"}

\* What a command is once its replan was marked running, whoever reads it.
Marked == {"REPLAN_RUNNING", "COMPLETED", "FAILED"}
ThreadOK(t) ==
  /\ t.at # "idle" => t.req \in Requests
  /\ t.at = "finish" => t.report # "none"
  /\ t.report = "COMPLETED" => t.req \in Requests /\ commands[t.req].status = "COMPLETED"
  /\ t.at \in {"solve", "record"} => commands[t.req].status \in Marked
  /\ t.rev <= rev
  /\ t.at \in Planning /\ t.rev = rev => order # NoOrder
ThreadsInv == \A w \in Workers : ThreadOK(work[w])

IInv == TypeOK /\ RowsInv /\ CommandsInv /\ ThreadsInv

\* While a thread works for a request, nobody else has its job: as long as the
\* job runs, it is in the name of that attempt.
ClaimedInv ==
  \A w \in Workers : work[w].at # "idle" =>
    LET row == rows[work[w].req] IN
    /\ row.status \notin {"ABSENT", "QUEUED"}
    /\ row.status = "RUNNING" => row.owner = w /\ row.gen = work[w].gen

\* A receipt that was consumed or cancelled is settled.
ReceiptsKept ==
  \A k \in IntakeKeys : receipts[k].status \in {"CONSUMED", "CANCELLED"} => receipts'[k] = receipts[k]

LEMMA InitIInv == Init => IInv
<1> SUFFICES ASSUME Init PROVE IInv
  OBVIOUS
<1> USE DEF Init
<1>1. NoOrder \in Order
  BY DEF NoOrder, Order, Contents
<1>2. TypeOK
  <2>1. receipts \in [IntakeKeys -> Receipt] /\ commands \in [Requests -> Command]
    BY <1>1 DEF Receipt, Command, NoPlan
  <2>2. rows \in [Requests -> Row] /\ plans \in Seq([rev : Nat, order : Order, req : Requests])
    BY NewRows
  <2>3. work \in [Workers -> Thread]
    BY DEF IdleThread, Thread, Step
  <2> QED BY <1>1, <2>1, <2>2, <2>3, BoundsAssumption DEF TypeOK, NoPlan
<1>3. RowsInv
  BY DEF RowsInv, Owned, NoDemandWithoutJob, CancelledIsNotPlanned, AbsentRow
<1>4. CommandsInv
  BY DEF CommandsInv, CommandOK, AbsentRow
<1>5. ThreadsInv
  <2> SUFFICES ASSUME NEW w \in Workers PROVE ThreadOK(work[w])
    BY DEF ThreadsInv
  <2>1. work[w].at = "idle" /\ work[w].report = "none" /\ work[w].rev = 0
    BY DEF IdleThread
  <2> QED BY <2>1 DEF ThreadOK, Planning
<1> QED BY <1>2, <1>3, <1>4, <1>5 DEF IInv

-----------------------------------------------------------------------------
(* What each table's part of the invariant asks of a step.                 *)

\* Jobs move on, receipts stay.
LEMMA RowsMove ==
  ASSUME IInv, receipts' = receipts, NEW new \in [Requests -> Row], rows' = new,
         \A r \in Requests :
           /\ Owned(new[r])
           /\ rows[r].status = "ABSENT" <=> new[r].status = "ABSENT"
           /\ rows[r].status \in Idling => new[r].status \in Idling
  PROVE  RowsInv'
BY DEF IInv, RowsInv, NoDemandWithoutJob, CancelledIsNotPlanned, Asked, Idling

\* Jobs stay, receipts are consumed.
LEMMA ReceiptsMove ==
  ASSUME IInv, rows' = rows,
         \A k \in IntakeKeys :
           \/ receipts'[k].status = receipts[k].status
           \/ receipts[k].status # "NONE" /\ receipts'[k].status = "CONSUMED"
  PROVE  RowsInv'
<1>1. \A r \in Requests : IntakeOf[r] \in IntakeKeys
  BY RequestsAssumption
<1> QED
  BY <1>1 DEF IInv, RowsInv, NoDemandWithoutJob, CancelledIsNotPlanned, Asked, Idling

LEMMA AttendedKept ==
  ASSUME NEW r \in Requests, \A w \in Workers : Busy(w, r) => Busy(w, r)',
         Abandoned(rows[r]) => Abandoned(rows'[r])
  PROVE  Attended(r) => Attended(r)'
BY DEF Attended

\* A command that is left alone keeps its answer.
LEMMA CommandMoves ==
  ASSUME IInv, NEW r \in Requests, commands'[r] = commands[r],
         rows'[r].status = "COMPLETED" =>
           commands[r].status = "COMPLETED" /\ result'[r] = commands[r].plan,
         \A n \in DOMAIN plans : n \in DOMAIN plans' /\ plans'[n] = plans[n],
         ReceiptsKept,
         process.stopping => process'.stopping,
         commands[r].status = "INTAKE_COMMITTED" =>
           \/ process'.stopping
           \/ \A w \in Workers : work[w].req = r /\ work[w].at \in InCommand =>
                work'[w].req = r /\ work'[w].at \in InCommand,
         commands[r].status = "REPLAN_RUNNING" => process'.stopping \/ (Attended(r) => Attended(r)')
  PROVE  CommandOK(r)'
<1>1. IntakeOf[r] \in IntakeKeys
  BY RequestsAssumption
<1>2. CommandOK(r)
  BY DEF IInv, CommandsInv
<1>3. /\ commands'[r].status = "INTAKE_COMMITTED" =>
           process'.stopping \/ \E w \in Workers : work'[w].req = r /\ work'[w].at \in InCommand
      /\ commands'[r].status = "REPLAN_RUNNING" => process'.stopping \/ Attended(r)'
  BY <1>2 DEF CommandOK
<1>4. ASSUME commands'[r].status = "COMPLETED"
      PROVE  /\ Asked(r)' = "CONSUMED"
             /\ commands'[r].plan \in DOMAIN plans'
             /\ plans'[commands'[r].plan].req = r /\ plans'[commands'[r].plan].order # NoOrder
  BY <1>1, <1>2, <1>4 DEF CommandOK, ReceiptsKept, Asked
<1> QED
  BY <1>2, <1>3, <1>4 DEF CommandOK

\* Threads other than w are where they were, and the scenario moves on only
\* with its revision.
LEMMA ThreadsMove ==
  ASSUME IInv, NEW w \in Workers,
         \A v \in Workers \ {w} : work'[v] = work[v],
         ThreadOK(work[w])',
         rev' \in Nat, rev <= rev', rev' = rev => order' = order,
         \/ commands' = commands
         \/ \A r \in Requests : /\ commands[r].status = "COMPLETED" => commands'[r].status = "COMPLETED"
                                /\ commands[r].status \in Marked => commands'[r].status \in Marked
  PROVE  ThreadsInv'
<1> SUFFICES ASSUME NEW v \in Workers PROVE ThreadOK(work[v])'
  BY DEF ThreadsInv
<1>1. CASE v = w
  BY <1>1
<1>2. CASE v # w
  <2>1. work'[v] = work[v] /\ ThreadOK(work[v]) /\ work[v].rev \in Nat /\ rev \in Nat
    BY <1>2, BoundsAssumption DEF IInv, ThreadsInv, TypeOK, Thread
  <2>2. \A r \in Requests : /\ commands[r].status = "COMPLETED" => commands'[r].status = "COMPLETED"
                            /\ commands[r].status \in Marked => commands'[r].status \in Marked
    BY DEF Marked
  <2>3. work[v].at \in {"solve", "record"} => work[v].req \in Requests /\ commands[work[v].req].status \in Marked
    BY <2>1 DEF ThreadOK
  <2>4. work'[v].at \in {"solve", "record"} =>
          commands'[work'[v].req].status \in Marked
    BY <2>1, <2>2, <2>3
  <2> QED BY <2>1, <2>2, <2>4 DEF ThreadOK
<1> QED BY <1>1, <1>2

LEMMA ThreadsStay ==
  ASSUME IInv, work' = work, rev' \in Nat, rev <= rev', rev' = rev => order' = order,
         \/ commands' = commands
         \/ \A r \in Requests : /\ commands[r].status = "COMPLETED" => commands'[r].status = "COMPLETED"
                                /\ commands[r].status \in Marked => commands'[r].status \in Marked
  PROVE  ThreadsInv'
<1> SUFFICES ASSUME NEW v \in Workers PROVE ThreadOK(work[v])'
  BY DEF ThreadsInv
<1>1. ThreadOK(work[v]) /\ work[v].rev \in Nat /\ rev \in Nat
  BY BoundsAssumption DEF IInv, ThreadsInv, TypeOK, Thread
<1>2. \A r \in Requests : /\ commands[r].status = "COMPLETED" => commands'[r].status = "COMPLETED"
                          /\ commands[r].status \in Marked => commands'[r].status \in Marked
  BY DEF Marked
<1>3. work[v].at \in {"solve", "record"} => work[v].req \in Requests /\ commands[work[v].req].status \in Marked
  BY <1>1 DEF ThreadOK
<1>4. work'[v].at \in {"solve", "record"} =>
        commands'[work'[v].req].status \in Marked
  BY <1>2, <1>3
<1> QED BY <1>1, <1>2, <1>4 DEF ThreadOK

\* What Go and Report do to a thread.
LEMMA Moved ==
  ASSUME TypeOK, NEW w \in Workers
  PROVE  /\ \A s \in Step : Go(w, s) =>
              /\ work' \in [Workers -> Thread]
              /\ \A v \in Workers \ {w} : work'[v] = work[v]
              /\ work'[w] = [work[w] EXCEPT !.at = s]
         /\ \A s \in {"COMPLETED", "FAILED", "INTERRUPTED"} : Report(w, s) =>
              /\ work' \in [Workers -> Thread]
              /\ \A v \in Workers \ {w} : work'[v] = work[v]
              /\ work'[w] = [work[w] EXCEPT !.at = "finish", !.report = s]
<1>1. work \in [Workers -> Thread] /\ work[w] \in Thread
  BY DEF TypeOK
<1>2. ASSUME NEW s \in Step, Go(w, s) PROVE work' = [work EXCEPT ![w] = [work[w] EXCEPT !.at = s]]
  BY <1>1, <1>2 DEF Go
<1>3. \A s \in Step : [work[w] EXCEPT !.at = s] \in Thread
  BY <1>1 DEF Thread
<1>4. ASSUME NEW s, Report(w, s)
      PROVE  work' = [work EXCEPT ![w] = [work[w] EXCEPT !.at = "finish", !.report = s]]
  BY <1>1, <1>4 DEF Report
<1>5. \A s \in {"COMPLETED", "FAILED", "INTERRUPTED"} :
        [work[w] EXCEPT !.at = "finish", !.report = s] \in Thread
  BY <1>1 DEF Thread, Step
<1>6. ASSUME NEW t \in Thread, work' = [work EXCEPT ![w] = t]
      PROVE  /\ work' \in [Workers -> Thread]
             /\ \A v \in Workers \ {w} : work'[v] = work[v]
             /\ work'[w] = t
  BY <1>1, <1>6
<1>7. ASSUME NEW s \in Step, Go(w, s)
      PROVE  /\ work' \in [Workers -> Thread]
             /\ \A v \in Workers \ {w} : work'[v] = work[v]
             /\ work'[w] = [work[w] EXCEPT !.at = s]
  BY <1>2, <1>3, <1>6, <1>7
<1>8. ASSUME NEW s \in {"COMPLETED", "FAILED", "INTERRUPTED"}, Report(w, s)
      PROVE  /\ work' \in [Workers -> Thread]
             /\ \A v \in Workers \ {w} : work'[v] = work[v]
             /\ work'[w] = [work[w] EXCEPT !.at = "finish", !.report = s]
  BY <1>4, <1>5, <1>6, <1>8
<1> QED BY <1>7, <1>8

-----------------------------------------------------------------------------
(* The parts that several actions share.                                   *)

\* The intake of a request leaves it with a live receipt, a job and the order.
LEMMA IntakeDoes ==
  ASSUME IInv, NEW r \in Requests, Intake(r)
  PROVE  /\ order' \in Order /\ rev' \in 0 .. MaxRevision /\ receipts' \in [IntakeKeys -> Receipt]
         /\ rows' \in [Requests -> Row]
         /\ rev <= rev' /\ (rev' = rev => order' = order) /\ order' # NoOrder
         /\ rows'[r].status # "ABSENT"
         /\ \A q \in Requests : \/ rows'[q] = rows[q]
                                \/ rows[q].status = "ABSENT" /\ rows'[q] = QueuedRow /\ q = r
         /\ receipts'[IntakeOf[r]].status \in {"ACTIVE", "CONSUMED"}
         /\ \A k \in IntakeKeys : \/ receipts'[k] = receipts[k]
                                  \/ receipts[k].status = "NONE" /\ k = IntakeOf[r]
         /\ RowsInv' /\ ReceiptsKept
<1>0. TypeOK /\ RowsInv /\ IntakeOf[r] \in IntakeKeys
  BY RequestsAssumption DEF IInv
<1>1. /\ rows' \in [Requests -> Row] /\ rows'[r].status # "ABSENT"
      /\ \A q \in Requests : \/ rows'[q] = rows[q]
                             \/ rows[q].status = "ABSENT" /\ rows'[q] = QueuedRow /\ q = r
  <2>1. InsertJob(r) /\ rows \in [Requests -> Row] /\ QueuedRow \in Row /\ QueuedRow.status = "QUEUED"
    BY <1>0, NewRows DEF Intake, TypeOK, QueuedRow, AbsentRow
  <2> QED BY <2>1 DEF InsertJob
<1>2. /\ Pending(ContentOf[r]) \in Order /\ Pending(ContentOf[r]) # NoOrder
      /\ rev \in 0 .. MaxRevision /\ MaxRevision \in Nat
  BY <1>0, RequestsAssumption, BoundsAssumption DEF Pending, Order, Contents, NoOrder, TypeOK
<1>3. /\ order' \in Order /\ rev' \in 0 .. MaxRevision
      /\ rev <= rev' /\ (rev' = rev => order' = order) /\ order' # NoOrder
  BY <1>0, <1>2 DEF Intake, Replayable, Fresh, Revise, scenario, TypeOK
<1>4. /\ receipts' \in [IntakeKeys -> Receipt]
      /\ receipts'[IntakeOf[r]].status \in {"ACTIVE", "CONSUMED"}
      /\ \A k \in IntakeKeys : \/ receipts'[k] = receipts[k]
                               \/ receipts[k].status = "NONE" /\ k = IntakeOf[r]
  <2>1. CASE Replayable(r) /\ UNCHANGED receipts
    BY <2>1, <1>0 DEF Replayable, Receive, TypeOK
  <2>2. ASSUME Fresh(r), NEW d \in Nat, NewReceipt(r, d)
        PROVE  /\ receipts' \in [IntakeKeys -> Receipt]
               /\ receipts'[IntakeOf[r]].status = "ACTIVE"
               /\ \A k \in IntakeKeys : \/ receipts'[k] = receipts[k]
                                        \/ receipts[k].status = "NONE" /\ k = IntakeOf[r]
    <3>1. receipts[IntakeOf[r]].status = "NONE"
      BY <2>2 DEF Fresh, Receive
    <3>2. [status |-> "ACTIVE", order |-> Pending(ContentOf[r]), plan |-> NoPlan, rev |-> d] \in Receipt
      BY <1>2, <2>2 DEF Receipt, NoPlan
    <3> QED BY <3>1, <3>2, <2>2, <1>0 DEF NewReceipt, TypeOK
  <2>3. rev \in Nat /\ rev + 1 \in Nat
    BY <1>2
  <2> QED BY <2>1, <2>2, <2>3 DEF Intake
<1>5. ReceiptsKept
  BY <1>4 DEF ReceiptsKept
<1>6. RowsInv'
  <2>1. \A q \in Requests : Owned(rows'[q]) /\ (rows'[q].status # "ABSENT" => Asked(q)' # "NONE")
    BY <1>0, <1>1, <1>4, RequestsAssumption DEF RowsInv, Owned, Asked, QueuedRow, AbsentRow
  <2>2. NoDemandWithoutJob'
    BY <1>0, <1>1, <1>4, RequestsAssumption DEF RowsInv, NoDemandWithoutJob, QueuedRow, AbsentRow
  <2>3. CancelledIsNotPlanned'
    BY <1>0, <1>1, <1>4, RequestsAssumption DEF RowsInv, CancelledIsNotPlanned, QueuedRow, AbsentRow
  <2> QED BY <2>1, <2>2, <2>3 DEF RowsInv
<1> QED BY <1>1, <1>3, <1>4, <1>5, <1>6

\* A receipt is consumed at most once.
LEMMA ConsumeDoes ==
  ASSUME IInv, NEW k \in IntakeKeys, NEW n \in Nat, Consumable(k, n), Consume(k, n)
  PROVE  /\ receipts' \in [IntakeKeys -> Receipt]
         /\ receipts'[k].status = "CONSUMED"
         /\ \A j \in IntakeKeys :
              \/ receipts'[j] = receipts[j]
              \/ receipts[j].status = "ACTIVE" /\ receipts'[j].status = "CONSUMED"
         /\ ReceiptsKept
<1>1. receipts \in [IntakeKeys -> Receipt] /\ receipts[k].status \in {"ACTIVE", "CONSUMED"}
  BY DEF IInv, TypeOK, Consumable
<1>2. CASE receipts[k].status = "CONSUMED"
  BY <1>1, <1>2 DEF Consume, ReceiptsKept
<1>3. CASE receipts[k].status = "ACTIVE"
  <2>1. [receipts[k] EXCEPT !.status = "CONSUMED", !.plan = n] \in Receipt
    BY <1>1 DEF Receipt
  <2>2. receipts' = [receipts EXCEPT ![k] = [receipts[k] EXCEPT !.status = "CONSUMED", !.plan = n]]
    BY <1>1, <1>3 DEF Consume
  <2>3. [receipts[k] EXCEPT !.status = "CONSUMED", !.plan = n].status = "CONSUMED"
    BY <1>1 DEF Receipt
  <2> QED BY <1>1, <1>3, <2>1, <2>2, <2>3 DEF ReceiptsKept
<1> QED BY <1>1, <1>2, <1>3

-----------------------------------------------------------------------------
(* The client and the beginning of the job.                                *)

\* A step that leaves jobs, commands and plans alone.
LEMMA AnswersStay ==
  ASSUME IInv, UNCHANGED <<commands, plans, rows, result>>, ReceiptsKept,
         process.stopping => process'.stopping,
         \A w \in Workers : work[w].at \in InCommand =>
           \/ process'.stopping
           \/ commands[work[w].req].status # "INTAKE_COMMITTED"
           \/ work'[w].req = work[w].req /\ work'[w].at \in InCommand,
         \A w \in Workers : work[w].at # "idle" => work'[w].req = work[w].req /\ work'[w].at # "idle"
  PROVE  CommandsInv'
<1> SUFFICES ASSUME NEW r \in Requests PROVE CommandOK(r)'
  BY DEF CommandsInv
<1>1. rows[r].status = "COMPLETED" =>
        commands[r].status = "COMPLETED" /\ result[r] = commands[r].plan
  BY DEF IInv, CommandsInv, CommandOK
<1>2. Attended(r) => Attended(r)'
  BY AttendedKept DEF Busy
<1> QED BY <1>1, <1>2, CommandMoves

LEMMA SubmitStep ==
  ASSUME IInv, NEW r \in Requests, Submit(r)
  PROVE  IInv' /\ ReceiptsKept
<1>1. Intake(r) /\ UNCHANGED <<commands, plans, result, work, deletion, process>>
  BY DEF Submit
<1>2. TypeOK'
  BY <1>1, IntakeDoes DEF IInv, TypeOK
<1>3. CommandsInv'
  <2> SUFFICES ASSUME NEW q \in Requests PROVE CommandOK(q)'
    BY DEF CommandsInv
  <2>1. rows'[q].status = "COMPLETED" =>
          commands[q].status = "COMPLETED" /\ result[q] = commands[q].plan
    BY <1>1, IntakeDoes DEF IInv, CommandsInv, CommandOK, QueuedRow, AbsentRow
  <2>2. Attended(q) => Attended(q)'
    BY <1>1, IntakeDoes, AttendedKept DEF Busy, Abandoned
  <2> QED BY <1>1, <2>1, <2>2, IntakeDoes, CommandMoves
<1>4. ThreadsInv'
  <2>1. rev' \in Nat
    BY <1>1, IntakeDoes, BoundsAssumption
  <2> QED BY <1>1, <2>1, IntakeDoes, ThreadsStay
<1> QED BY <1>1, <1>2, <1>3, <1>4, IntakeDoes DEF IInv

LEMMA ReplayCommandStep ==
  ASSUME IInv, NEW r \in Requests, ReplayCommand(r)
  PROVE  IInv' /\ ReceiptsKept
<1>1. /\ IntakeOf[r] \in IntakeKeys /\ commands[r].plan \in Nat
      /\ Consumable(IntakeOf[r], commands[r].plan) /\ Consume(IntakeOf[r], commands[r].plan)
      /\ UNCHANGED <<order, rev, commands, plans, rows, result, work, deletion, process>>
  BY RequestsAssumption DEF ReplayCommand, IInv, TypeOK, Command, scenario, jobs
<1>2. TypeOK'
  BY <1>1, ConsumeDoes DEF IInv, TypeOK
<1>3. RowsInv'
  BY <1>1, ConsumeDoes, ReceiptsMove
<1>4. CommandsInv'
  BY <1>1, ConsumeDoes, AnswersStay
<1>5. ThreadsInv'
  BY <1>1, BoundsAssumption, ThreadsStay DEF IInv, TypeOK
<1> QED BY <1>1, <1>2, <1>3, <1>4, <1>5, ConsumeDoes DEF IInv

\* A thread that does not touch a command, nor leaves one in progress.
LEMMA ThreadMoves ==
  ASSUME IInv, NEW w \in Workers, work' \in [Workers -> Thread],
         \A v \in Workers \ {w} : work'[v] = work[v],
         UNCHANGED <<order, rev, commands, plans, rows, result, deletion, process>>,
         receipts' \in [IntakeKeys -> Receipt], ReceiptsKept, RowsInv',
         ThreadOK(work[w])', work'[w].req = work[w].req, work'[w].at # "idle",
         work[w].at \in InCommand =>
           \/ process.stopping
           \/ commands[work[w].req].status # "INTAKE_COMMITTED"
           \/ work'[w].at \in InCommand
  PROVE  IInv'
<1>1. TypeOK'
  BY DEF IInv, TypeOK
<1>2. CommandsInv'
  BY AnswersStay
<1>3. ThreadsInv'
  BY BoundsAssumption, ThreadsMove DEF IInv, TypeOK
<1> QED BY <1>1, <1>2, <1>3 DEF IInv

LEMMA JobIntakeStep ==
  ASSUME IInv, NEW w \in Workers, JobIntake(w)
  PROVE  IInv' /\ ReceiptsKept
<1> DEFINE r == work[w].req
<1>1. /\ r \in Requests /\ work[w].at = "intake" /\ work[w] \in Thread
      /\ UNCHANGED <<commands, plans, result, deletion, process>>
      /\ ThreadOK(work[w])
  BY DEF JobIntake, Thr, IInv, ThreadsInv, ThreadOK, TypeOK
<1>2. CASE Intake(r) /\ work' = [work EXCEPT ![w].at = "command", ![w].rev = rev']
  <2>1. rev' \in Nat /\ rev \in Nat /\ rev <= rev'
    BY <1>1, <1>2, IntakeDoes, BoundsAssumption DEF IInv, TypeOK
  <2>2. /\ work' \in [Workers -> Thread]
        /\ \A v \in Workers \ {w} : work'[v] = work[v]
        /\ work'[w] = [work[w] EXCEPT !.at = "command", !.rev = rev']
    <3>1. [work[w] EXCEPT !.at = "command", !.rev = rev'] \in Thread
      BY <1>1, <2>1 DEF Thread, Step
    <3> QED BY <3>1, <1>2 DEF IInv, TypeOK
  <2>3. TypeOK'
    BY <1>1, <1>2, <2>2, IntakeDoes DEF IInv, TypeOK
  <2>4. CommandsInv'
    <3> SUFFICES ASSUME NEW q \in Requests PROVE CommandOK(q)'
      BY DEF CommandsInv
    <3>1. rows'[q].status = "COMPLETED" =>
            commands[q].status = "COMPLETED" /\ result[q] = commands[q].plan
      BY <1>1, <1>2, IntakeDoes DEF IInv, CommandsInv, CommandOK, QueuedRow, AbsentRow
    <3>2. \A v \in Workers : work[v].at \in InCommand => work'[v] = work[v]
      BY <1>1, <2>2 DEF InCommand
    <3>3. ReceiptsKept
      BY <1>1, <1>2, IntakeDoes
    <3>4. \A v \in Workers : Busy(v, q) => Busy(v, q)'
      BY <1>1, <2>2 DEF Busy, Thread
    <3>5. Attended(q) => Attended(q)'
      BY <1>1, <1>2, <3>4, IntakeDoes, AttendedKept DEF Abandoned
    <3> QED BY <1>1, <3>1, <3>2, <3>3, <3>5, CommandMoves
  <2>5. ThreadOK(work[w])'
    <3>1. /\ work'[w].at = "command" /\ work'[w].req = r /\ work'[w].rev = rev'
          /\ work'[w].report = work[w].report
      BY <1>1, <2>2 DEF Thread
    <3>2. order' # NoOrder
      BY <1>1, <1>2, IntakeDoes
    <3> QED BY <1>1, <2>1, <3>1, <3>2 DEF ThreadOK
  <2>6. ThreadsInv'
    BY <1>1, <1>2, <2>1, <2>2, <2>5, IntakeDoes, ThreadsMove
  <2> QED BY <1>1, <1>2, <2>3, <2>4, <2>6, IntakeDoes DEF IInv
<1>3. CASE Report(w, "FAILED") /\ UNCHANGED <<scenario, receipts, rows>>
  <2>1. /\ work' \in [Workers -> Thread]
        /\ \A v \in Workers \ {w} : work'[v] = work[v]
        /\ work'[w] = [work[w] EXCEPT !.at = "finish", !.report = "FAILED"]
    BY <1>3, Moved DEF IInv
  <2>2. ThreadOK(work[w])' /\ work'[w].req = r /\ work'[w].at = "finish"
    BY <1>1, <1>3, <2>1 DEF ThreadOK, Thread, Planning, scenario
  <2>3. RowsInv'
    BY <1>3, ReceiptsMove
  <2>4. receipts' \in [IntakeKeys -> Receipt] /\ ReceiptsKept
    BY <1>3 DEF IInv, TypeOK, ReceiptsKept
  <2> QED BY <1>1, <1>3, <2>1, <2>2, <2>3, <2>4, ThreadMoves DEF scenario, InCommand
<1> QED BY <1>2, <1>3 DEF JobIntake

\* The answer of a command that ended before the thread came to it.
LEMMA ThreadAnswers ==
  ASSUME IInv, NEW w \in Workers, work[w].at \in {"intake", "command"},
         IF /\ commands[work[w].req].status = "COMPLETED"
            /\ Consumable(IntakeOf[work[w].req], commands[work[w].req].plan)
         THEN Consume(IntakeOf[work[w].req], commands[work[w].req].plan) /\ Report(w, "COMPLETED")
         ELSE Report(w, "FAILED") /\ UNCHANGED receipts,
         UNCHANGED <<order, rev, commands, plans, rows, result, deletion, process>>
  PROVE  IInv' /\ ReceiptsKept
<1> DEFINE r == work[w].req
<1>1. /\ r \in Requests /\ work[w] \in Thread /\ ThreadOK(work[w])
      /\ IntakeOf[r] \in IntakeKeys /\ commands[r].plan \in Nat
      /\ work[w].at \notin InCommand
  BY RequestsAssumption DEF IInv, ThreadsInv, ThreadOK, TypeOK, Command, InCommand
<1>2. CASE commands[r].status = "COMPLETED" /\ Consumable(IntakeOf[r], commands[r].plan)
  <2>1. Consume(IntakeOf[r], commands[r].plan) /\ Report(w, "COMPLETED")
    BY <1>2
  <2>2. /\ work' \in [Workers -> Thread]
        /\ \A v \in Workers \ {w} : work'[v] = work[v]
        /\ work'[w] = [work[w] EXCEPT !.at = "finish", !.report = "COMPLETED"]
    BY <2>1, Moved DEF IInv
  <2>3. receipts' \in [IntakeKeys -> Receipt] /\ ReceiptsKept /\ RowsInv'
    BY <1>1, <1>2, <2>1, ConsumeDoes, ReceiptsMove
  <2>4. ThreadOK(work[w])' /\ work'[w].req = r /\ work'[w].at = "finish"
    BY <1>1, <1>2, <2>2 DEF ThreadOK, Thread, Planning
  <2> QED BY <1>1, <2>2, <2>3, <2>4, ThreadMoves
<1>3. CASE ~(commands[r].status = "COMPLETED" /\ Consumable(IntakeOf[r], commands[r].plan))
  <2>1. Report(w, "FAILED") /\ UNCHANGED receipts
    BY <1>3
  <2>2. /\ work' \in [Workers -> Thread]
        /\ \A v \in Workers \ {w} : work'[v] = work[v]
        /\ work'[w] = [work[w] EXCEPT !.at = "finish", !.report = "FAILED"]
    BY <2>1, Moved DEF IInv
  <2>3. receipts' \in [IntakeKeys -> Receipt] /\ ReceiptsKept /\ RowsInv'
    BY <2>1, ReceiptsMove DEF IInv, TypeOK, ReceiptsKept
  <2>4. ThreadOK(work[w])' /\ work'[w].req = r /\ work'[w].at = "finish"
    BY <1>1, <2>2 DEF ThreadOK, Thread, Planning
  <2> QED BY <1>1, <2>2, <2>3, <2>4, ThreadMoves
<1> QED BY <1>2, <1>3

LEMMA JobReplaysStep ==
  ASSUME IInv, NEW w \in Workers, JobReplays(w)
  PROVE  IInv' /\ ReceiptsKept
BY ThreadAnswers DEF JobReplays, Thr, scenario, jobs

-----------------------------------------------------------------------------
(* The command: begun, marked, failed.                                     *)

\* One command is given another status by the thread w that works on it.
LEMMA CommandStep ==
  ASSUME IInv, NEW w \in Workers, NEW s \in {"INTAKE_COMMITTED", "REPLAN_RUNNING", "FAILED"},
         work[w].req \in Requests, commands[work[w].req].status # "COMPLETED",
         SetCommand(work[w].req, s),
         work' \in [Workers -> Thread], \A v \in Workers \ {w} : work'[v] = work[v],
         work[w].at # "idle", work'[w].req = work[w].req, work'[w].at # "idle",
         s # "FAILED" => work'[w].at \in InCommand,
         s = "INTAKE_COMMITTED" => commands[work[w].req].status \notin Marked,
         ThreadOK(work[w])',
         UNCHANGED <<order, rev, receipts, plans, rows, result, deletion, process>>
  PROVE  IInv' /\ ReceiptsKept
<1> DEFINE r == work[w].req
<1>1. /\ commands' \in [Requests -> Command]
      /\ \A q \in Requests \ {r} : commands'[q] = commands[q]
      /\ commands'[r].status = s
  <2>1. commands \in [Requests -> Command] /\ commands[r] \in Command
    BY DEF IInv, TypeOK
  <2>2. [commands[r] EXCEPT !.status = s] \in Command /\ [commands[r] EXCEPT !.status = s].status = s
    BY <2>1 DEF Command
  <2>3. commands' = [commands EXCEPT ![r] = [commands[r] EXCEPT !.status = s]]
    BY <2>1 DEF SetCommand
  <2> QED BY <2>1, <2>2, <2>3
<1>2. TypeOK' /\ ReceiptsKept
  BY <1>1 DEF IInv, TypeOK, ReceiptsKept
<1>3. RowsInv'
  BY ReceiptsMove
<1>4. CommandsInv'
  <2> SUFFICES ASSUME NEW q \in Requests PROVE CommandOK(q)'
    BY DEF CommandsInv
  <2>1. rows[q].status = "COMPLETED" =>
          commands[q].status = "COMPLETED" /\ result[q] = commands[q].plan
    BY DEF IInv, CommandsInv, CommandOK
  <2>2. CASE q = r
    <3>1. rows'[q].status # "COMPLETED"
      BY <2>1, <2>2
    <3>2. s # "FAILED" => work'[w].req = q /\ work'[w].at \in InCommand
      BY <2>2
    <3>3. Attended(q)'
      BY <2>2 DEF Attended, Busy
    <3> QED BY <1>1, <2>2, <3>1, <3>2, <3>3 DEF CommandOK
  <2>3. CASE q # r
    <3>1. \A v \in Workers : work[v].req = q => work'[v] = work[v]
      BY <2>3
    <3>2. Attended(q) => Attended(q)'
      BY <3>1, AttendedKept DEF Busy
    <3> QED BY <1>1, <1>2, <2>1, <2>3, <3>1, <3>2, CommandMoves
  <2> QED BY <2>2, <2>3
<1>5. ThreadsInv'
  <2>1. \A q \in Requests : /\ commands[q].status = "COMPLETED" => commands'[q].status = "COMPLETED"
                            /\ commands[q].status \in Marked => commands'[q].status \in Marked
    BY <1>1 DEF Marked
  <2>2. rev' \in Nat /\ rev <= rev'
    BY BoundsAssumption DEF IInv, TypeOK
  <2> QED BY <2>1, <2>2, ThreadsMove
<1> QED BY <1>2, <1>3, <1>4, <1>5 DEF IInv

\* What a thread that works on a command is.
LEMMA Working ==
  ASSUME IInv, NEW w \in Workers, work[w].at # "idle"
  PROVE  /\ work[w].req \in Requests /\ work[w] \in Thread /\ ThreadOK(work[w])
         /\ work[w].gen \in Nat /\ work[w].rev \in Nat
BY DEF IInv, ThreadsInv, ThreadOK, TypeOK, Thread

LEMMA BeginCommandStep ==
  ASSUME IInv, NEW w \in Workers, BeginCommand(w)
  PROVE  IInv' /\ ReceiptsKept
<1> DEFINE r == work[w].req
<1>1. /\ work[w].at = "command"
      /\ UNCHANGED <<order, rev, plans, rows, result, deletion, process>>
      /\ r \in Requests /\ work[w] \in Thread /\ ThreadOK(work[w])
  BY Working DEF BeginCommand, Thr, scenario, jobs
<1>2. CASE Takes(r) /\ SetCommand(r, "INTAKE_COMMITTED") /\ Go(w, "prepare") /\ UNCHANGED receipts
  <2>1. /\ work' \in [Workers -> Thread]
        /\ \A v \in Workers \ {w} : work'[v] = work[v]
        /\ work'[w] = [work[w] EXCEPT !.at = "prepare"]
    BY <1>2, Moved DEF IInv, Step
  <2>2. /\ work'[w].req = r /\ work'[w].at = "prepare" /\ work'[w].report = work[w].report
        /\ work'[w].rev = work[w].rev
    BY <1>1, <2>1 DEF Thread
  <2>3. commands[r].status # "COMPLETED" /\ commands[r].status \notin Marked
    BY <1>2 DEF Takes, Marked
  <2>4. ThreadOK(work[w])'
    BY <1>1, <2>2, <2>3 DEF ThreadOK, Planning
  <2>5. work'[w].at \in InCommand
    BY <2>2 DEF InCommand
  <2> QED BY <1>1, <1>2, <2>1, <2>2, <2>3, <2>4, <2>5, CommandStep
<1>3. CASE /\ UNCHANGED commands
           /\ IF commands[r].status = "COMPLETED" /\ Consumable(IntakeOf[r], commands[r].plan)
              THEN Consume(IntakeOf[r], commands[r].plan) /\ Report(w, "COMPLETED")
              ELSE Report(w, "FAILED") /\ UNCHANGED receipts
  BY <1>1, <1>3, ThreadAnswers
<1> QED BY <1>2, <1>3 DEF BeginCommand

\* A thread goes on to s without a word to anybody.
LEMMA GoesOn ==
  ASSUME IInv, NEW w \in Workers, NEW s \in InCommand, Go(w, s),
         work[w].at \in {"prepare", "mark", "solve", "record", "publish"},
         s \in {"solve", "record"} => commands[work[w].req].status \in Marked,
         UNCHANGED <<order, rev, receipts, commands, plans, rows, result, deletion, process>>
  PROVE  IInv' /\ ReceiptsKept
<1>1. work[w].req \in Requests /\ work[w] \in Thread /\ ThreadOK(work[w]) /\ s \in Step
  BY Working DEF InCommand, Step
<1>2. /\ work' \in [Workers -> Thread]
      /\ \A v \in Workers \ {w} : work'[v] = work[v]
      /\ work'[w] = [work[w] EXCEPT !.at = s]
  BY <1>1, Moved DEF IInv
<1>3. /\ work'[w].req = work[w].req /\ work'[w].at = s /\ work'[w].report = work[w].report
      /\ work'[w].rev = work[w].rev
  BY <1>1, <1>2 DEF Thread
<1>4. ThreadOK(work[w])'
  BY <1>1, <1>3 DEF ThreadOK, Planning, InCommand, Marked
<1>5. receipts' \in [IntakeKeys -> Receipt] /\ ReceiptsKept /\ RowsInv'
  BY ReceiptsMove DEF IInv, TypeOK, ReceiptsKept
<1>6. work'[w].at # "idle"
  BY <1>3 DEF InCommand
<1> QED BY <1>2, <1>3, <1>4, <1>5, <1>6, ThreadMoves

LEMMA PrepareStep ==
  ASSUME IInv, NEW w \in Workers, Prepare(w)
  PROVE  IInv' /\ ReceiptsKept
<1>1. /\ work[w].at = "prepare"
      /\ UNCHANGED <<order, rev, receipts, commands, plans, rows, result, deletion, process>>
      /\ Go(w, "mark") \/ Go(w, "command failed")
      /\ {"mark", "command failed"} \subseteq InCommand
  BY DEF Prepare, Thr, scenario, ledger, jobs, InCommand
<1> QED BY <1>1, GoesOn

\* A thread reports, its replan marked running or the process stopping.
LEMMA Reports ==
  ASSUME IInv, NEW w \in Workers, work[w].at # "idle",
         NEW s \in {"FAILED", "INTERRUPTED"}, Report(w, s),
         process.stopping \/ commands[work[w].req].status # "INTAKE_COMMITTED",
         UNCHANGED <<order, rev, receipts, commands, plans, rows, result, deletion, process>>
  PROVE  IInv' /\ ReceiptsKept
<1>1. work[w].req \in Requests /\ work[w] \in Thread /\ ThreadOK(work[w])
  BY Working
<1>2. /\ work' \in [Workers -> Thread]
      /\ \A v \in Workers \ {w} : work'[v] = work[v]
      /\ work'[w] = [work[w] EXCEPT !.at = "finish", !.report = s]
  BY Moved DEF IInv
<1>3. ThreadOK(work[w])' /\ work'[w].req = work[w].req /\ work'[w].at = "finish"
  BY <1>1, <1>2 DEF ThreadOK, Planning, Thread
<1>4. receipts' \in [IntakeKeys -> Receipt] /\ ReceiptsKept /\ RowsInv'
  BY ReceiptsMove DEF IInv, TypeOK, ReceiptsKept
<1> QED BY <1>2, <1>3, <1>4, ThreadMoves

LEMMA SolveStep ==
  ASSUME IInv, NEW w \in Workers, Solve(w)
  PROVE  IInv' /\ ReceiptsKept
<1>1. /\ work[w].at = "solve"
      /\ UNCHANGED <<order, rev, receipts, commands, plans, rows, result, deletion, process>>
      /\ \/ Go(w, "record") \/ Go(w, "command failed")
         \/ process.stopping /\ Report(w, "INTERRUPTED")
      /\ {"record", "command failed"} \subseteq InCommand
  BY DEF Solve, Thr, scenario, ledger, jobs, InCommand
<1>2. commands[work[w].req].status \in Marked
  BY <1>1, Working DEF ThreadOK
<1> QED BY <1>1, <1>2, GoesOn, Reports

\* Who may not record the run reports, and leaves the command marked.
LEMMA RecordStep ==
  ASSUME IInv, NEW w \in Workers, Record(w)
  PROVE  IInv' /\ ReceiptsKept
<1>1. /\ work[w].at = "record"
      /\ UNCHANGED <<order, rev, receipts, commands, plans, rows, result, deletion, process>>
      /\ Go(w, "publish") \/ Report(w, "FAILED")
      /\ "publish" \in InCommand
  BY DEF Record, Thr, scenario, ledger, jobs, InCommand
<1>2. commands[work[w].req].status # "INTAKE_COMMITTED"
  BY <1>1, Working DEF ThreadOK, Marked
<1> QED BY <1>1, <1>2, GoesOn, Reports

LEMMA MarkRunningStep ==
  ASSUME IInv, NEW w \in Workers, MarkRunning(w)
  PROVE  IInv' /\ ReceiptsKept
<1> DEFINE r == work[w].req
<1>1. /\ work[w].at = "mark"
      /\ UNCHANGED <<order, rev, receipts, plans, rows, result, deletion, process>>
      /\ r \in Requests /\ work[w] \in Thread /\ ThreadOK(work[w])
  BY Working DEF MarkRunning, Thr, scenario, jobs
<1>2. CASE Ended(commands[r].status)
  BY <1>1, <1>2, Reports DEF MarkRunning, Ended
<1>3. CASE ~Ended(commands[r].status)
  <2>1. SetCommand(r, "REPLAN_RUNNING") /\ Go(w, "solve") /\ commands[r].status # "COMPLETED"
    BY <1>3 DEF MarkRunning, Ended
  <2>2. /\ work' \in [Workers -> Thread]
        /\ \A v \in Workers \ {w} : work'[v] = work[v]
        /\ work'[w] = [work[w] EXCEPT !.at = "solve"]
    BY <2>1, Moved DEF IInv, Step
  <2>3. /\ work'[w].req = r /\ work'[w].at = "solve" /\ work'[w].report = work[w].report
        /\ work'[w].rev = work[w].rev
    BY <1>1, <2>2 DEF Thread
  <2>4. commands'[r].status = "REPLAN_RUNNING"
    BY <1>1, <2>1 DEF SetCommand, IInv, TypeOK, Command
  <2>5. ThreadOK(work[w])' /\ work'[w].at \in InCommand
    BY <1>1, <2>1, <2>3, <2>4 DEF ThreadOK, Planning, InCommand, Marked
  <2> QED BY <1>1, <2>1, <2>2, <2>3, <2>5, CommandStep
<1> QED BY <1>2, <1>3

LEMMA FailCommandStep ==
  ASSUME IInv, NEW w \in Workers, FailCommand(w)
  PROVE  IInv' /\ ReceiptsKept
<1> DEFINE r == work[w].req
<1>1. /\ work[w].at = "command failed" /\ Report(w, "FAILED")
      /\ UNCHANGED <<order, rev, receipts, plans, rows, result, deletion, process>>
      /\ r \in Requests /\ work[w] \in Thread /\ ThreadOK(work[w])
  BY Working DEF FailCommand, Thr, scenario, jobs
<1>2. CASE Ended(commands[r].status)
  BY <1>1, <1>2, Reports DEF FailCommand, FailUnlessEnded, Ended
<1>3. CASE ~Ended(commands[r].status)
  <2>1. SetCommand(r, "FAILED") /\ commands[r].status # "COMPLETED"
    BY <1>3 DEF FailCommand, FailUnlessEnded, Ended
  <2>2. /\ work' \in [Workers -> Thread]
        /\ \A v \in Workers \ {w} : work'[v] = work[v]
        /\ work'[w] = [work[w] EXCEPT !.at = "finish", !.report = "FAILED"]
    BY <1>1, Moved DEF IInv
  <2>3. /\ work'[w].req = r /\ work'[w].at = "finish" /\ work'[w].report = "FAILED"
        /\ work'[w].rev = work[w].rev
    BY <1>1, <2>2 DEF Thread
  <2>4. ThreadOK(work[w])'
    BY <1>1, <2>3 DEF ThreadOK, Planning
  <2> QED BY <1>1, <2>1, <2>2, <2>3, <2>4, CommandStep
<1> QED BY <1>2, <1>3

-----------------------------------------------------------------------------
(* The publication and the end of the job.                                 *)

\* The publication consumes every active receipt, with the order in the plan.
LEMMA PublishesStep ==
  ASSUME IInv, NEW w \in Workers, Thr(w, "publish"), Publishes(w),
         work' = [work EXCEPT ![w] = IdleThread], UNCHANGED <<scenario, deletion, process>>
  PROVE  IInv' /\ ReceiptsKept
<1> DEFINE r == work[w].req
           n == Len(plans) + 1
           made == [rev |-> rev, order |-> order, req |-> r]
<1>1. /\ work[w].at = "publish" /\ r \in Requests /\ work[w] \in Thread /\ ThreadOK(work[w])
      /\ rows[r].status = "RUNNING" /\ rev = work[w].rev
      /\ UNCHANGED <<order, rev, deletion, process>>
      /\ TypeOK
  BY Working DEF Publishes, Thr, scenario, Owns, HasAuthority, IInv
<1>2. order # NoOrder /\ order \in Order
  BY <1>1 DEF ThreadOK, Planning, TypeOK
<1>3. /\ plans' = Append(plans, made) /\ n \in Nat /\ DOMAIN plans = 1 .. Len(plans)
      /\ plans' \in Seq([rev : Nat, order : Order, req : Requests])
      /\ Len(plans') = n /\ DOMAIN plans' = 1 .. n /\ plans'[n] = made
      /\ \A m \in DOMAIN plans : m \in DOMAIN plans' /\ plans'[m] = plans[m]
  <2>1. made \in [rev : Nat, order : Order, req : Requests]
    BY <1>1, <1>2, BoundsAssumption DEF TypeOK
  <2>2. plans' = Append(plans, made) /\ plans \in Seq([rev : Nat, order : Order, req : Requests])
    BY <1>1 DEF Publishes, TypeOK
  <2> QED BY <2>1, <2>2
<1>4. /\ commands' \in [Requests -> Command]
      /\ commands'[r].status = "COMPLETED" /\ commands'[r].plan = n
      /\ \A q \in Requests \ {r} : commands'[q] = commands[q]
  BY <1>1, <1>3 DEF Publishes, TypeOK, Command
<1>5. /\ receipts' \in [IntakeKeys -> Receipt]
      /\ \A k \in IntakeKeys :
           /\ receipts[k].status = "ACTIVE" => receipts'[k].status = "CONSUMED"
           /\ receipts[k].status # "ACTIVE" => receipts'[k] = receipts[k]
  <2>1. receipts' = ReceiptsAfter(n) /\ receipts \in [IntakeKeys -> Receipt]
    BY <1>1 DEF Publishes, TypeOK
  <2>2. ASSUME NEW k \in IntakeKeys
        PROVE  /\ [receipts[k] EXCEPT !.status = "CONSUMED", !.plan = n] \in Receipt
               /\ [receipts[k] EXCEPT !.status = "CONSUMED", !.plan = n].status = "CONSUMED"
    BY <1>3, <2>1 DEF Receipt
  <2> QED BY <1>2, <2>1, <2>2 DEF ReceiptsAfter, ActiveKeys
<1>6. /\ rows' \in [Requests -> Row]
      /\ rows'[r].status = "COMPLETED" /\ rows'[r].owner = NoWorker
      /\ \A q \in Requests \ {r} : rows'[q] = rows[q]
  <2>1. Released(rows[r], "COMPLETED") \in Row /\ rows \in [Requests -> Row]
    BY <1>1, ReleasedRow DEF TypeOK, Status, Terminal
  <2> QED BY <1>1, <2>1 DEF Publishes, Released
<1>7. /\ result' \in [Requests -> 0 .. n] /\ result'[r] = n
      /\ \A q \in Requests \ {r} : result'[q] = result[q]
  <2>1. result \in [Requests -> 0 .. Len(plans)] /\ result' = [result EXCEPT ![r] = n] /\ Len(plans) \in Nat
    BY <1>1, <1>3 DEF Publishes, TypeOK
  <2> QED BY <1>1, <2>1
<1>8. /\ work' \in [Workers -> Thread]
      /\ \A v \in Workers \ {w} : work'[v] = work[v]
      /\ work'[w] = IdleThread
  <2>1. IdleThread \in Thread
    BY DEF IdleThread, Thread, Step
  <2> QED BY <1>1, <2>1 DEF TypeOK
<1>9. TypeOK'
  BY <1>1, <1>3, <1>4, <1>5, <1>6, <1>7, <1>8 DEF TypeOK
<1>10. ReceiptsKept
  BY <1>5 DEF ReceiptsKept
<1>11. Asked(r) \in {"ACTIVE", "CONSUMED"} /\ IntakeOf[r] \in IntakeKeys
  BY <1>1, RequestsAssumption DEF IInv, RowsInv, CancelledIsNotPlanned, Asked, TypeOK, Receipt
<1>12. RowsInv'
  <2>1. \A q \in Requests : IntakeOf[q] \in IntakeKeys
    BY RequestsAssumption
  <2>2. \A q \in Requests : Owned(rows'[q]) /\ (rows'[q].status # "ABSENT" => Asked(q)' # "NONE")
    BY <1>1, <1>5, <1>6, <2>1 DEF IInv, RowsInv, Owned, Asked
  <2>3. NoDemandWithoutJob'
    BY <1>5, <1>6, <2>1 DEF IInv, RowsInv, NoDemandWithoutJob
  <2>4. CancelledIsNotPlanned'
    BY <1>5, <1>6, <1>11, <2>1 DEF IInv, RowsInv, CancelledIsNotPlanned, Asked
  <2> QED BY <2>2, <2>3, <2>4 DEF RowsInv
<1>13. CommandsInv'
  <2> SUFFICES ASSUME NEW q \in Requests PROVE CommandOK(q)'
    BY DEF CommandsInv
  <2>1. CASE q = r
    <3>1. Asked(q)' = "CONSUMED"
      BY <1>5, <1>11, <2>1 DEF Asked
    <3> QED BY <1>2, <1>3, <1>4, <1>7, <2>1, <3>1 DEF CommandOK
  <2>2. CASE q # r
    <3>1. rows[q].status = "COMPLETED" =>
            commands[q].status = "COMPLETED" /\ result[q] = commands[q].plan
      BY DEF IInv, CommandsInv, CommandOK
    <3>2. \A v \in Workers : work[v].req = q => work'[v] = work[v]
      BY <1>8, <2>2
    <3>3. Attended(q) => Attended(q)'
      BY <1>6, <2>2, <3>2, AttendedKept DEF Busy
    <3> QED BY <1>1, <1>3, <1>4, <1>6, <1>7, <1>10, <2>2, <3>1, <3>2, <3>3, CommandMoves
  <2> QED BY <2>1, <2>2
<1>14. ThreadsInv'
  <2>1. \A q \in Requests : /\ commands[q].status = "COMPLETED" => commands'[q].status = "COMPLETED"
                            /\ commands[q].status \in Marked => commands'[q].status \in Marked
    BY <1>4 DEF Marked
  <2>2. rev' \in Nat /\ rev <= rev'
    BY <1>1, BoundsAssumption DEF TypeOK
  <2>3. ThreadOK(work[w])'
    BY <1>1, <1>8, <2>2 DEF ThreadOK, IdleThread, Planning
  <2> QED BY <1>1, <1>8, <2>1, <2>2, <2>3, ThreadsMove
<1> QED BY <1>9, <1>10, <1>12, <1>13, <1>14 DEF IInv

LEMMA PublishStep ==
  ASSUME IInv, NEW w \in Workers, Publish(w)
  PROVE  IInv' /\ ReceiptsKept
<1>1. CASE Publishes(w) /\ work' = [work EXCEPT ![w] = IdleThread]
  BY <1>1, PublishesStep DEF Publish
<1>2. CASE Go(w, "command failed") /\ UNCHANGED <<ledger, plans, jobs>>
  <2>1. /\ work[w].at = "publish" /\ "command failed" \in InCommand
        /\ UNCHANGED <<order, rev, receipts, commands, plans, rows, result, deletion, process>>
    BY <1>2 DEF Publish, Thr, scenario, ledger, jobs, InCommand
  <2> QED BY <1>2, <2>1, GoesOn
<1> QED BY <1>1, <1>2 DEF Publish

\* One job that exists moves on.
LEMMA RowMoves ==
  ASSUME IInv, NEW r \in Requests, NEW p \in Row, rows' = [rows EXCEPT ![r] = p], Owned(p),
         rows[r].status # "ABSENT", p.status # "ABSENT",
         rows[r].status \in Idling => p.status \in Idling,
         p.status = "COMPLETED" => commands[r].status = "COMPLETED" /\ result'[r] = commands[r].plan,
         \A q \in Requests \ {r} : result'[q] = result[q],
         \A w \in Workers : work[w].at \in InCommand => work'[w] = work[w],
         \A q \in Requests : commands[q].status = "REPLAN_RUNNING" /\ Attended(q) => Attended(q)',
         UNCHANGED <<receipts, commands, plans, process>>
  PROVE  rows' \in [Requests -> Row] /\ RowsInv' /\ CommandsInv' /\ ReceiptsKept
<1>1. rows' \in [Requests -> Row] /\ rows'[r] = p /\ \A q \in Requests \ {r} : rows'[q] = rows[q]
  BY DEF IInv, TypeOK
<1>2. RowsInv'
  <2>1. \A q \in Requests :
          /\ Owned(rows'[q])
          /\ rows[q].status = "ABSENT" <=> rows'[q].status = "ABSENT"
          /\ rows[q].status \in Idling => rows'[q].status \in Idling
    BY <1>1 DEF IInv, RowsInv
  <2> QED BY <1>1, <2>1, RowsMove
<1>3. ReceiptsKept
  BY DEF ReceiptsKept
<1>4. CommandsInv'
  <2> SUFFICES ASSUME NEW q \in Requests PROVE CommandOK(q)'
    BY DEF CommandsInv
  <2>1. rows'[q].status = "COMPLETED" =>
          commands[q].status = "COMPLETED" /\ result'[q] = commands[q].plan
    BY <1>1 DEF IInv, CommandsInv, CommandOK
  <2> QED BY <1>3, <2>1, CommandMoves
<1> QED BY <1>1, <1>2, <1>3, <1>4

\* finish_runtime_job completes a job only with its completed command; whatever
\* it leaves otherwise, the attempt is over.
LEMMA FinishStep ==
  ASSUME IInv, ClaimedInv, NEW w \in Workers, Finish(w)
  PROVE  IInv' /\ ReceiptsKept
<1> DEFINE r == work[w].req
           p == AfterFinish(rows[r], w, work[w].gen, work[w].report)
<1>1. /\ work[w].at = "finish" /\ r \in Requests /\ work[w] \in Thread /\ ThreadOK(work[w])
      /\ work[w].gen \in Nat /\ work[w].report \in {"COMPLETED", "FAILED", "INTERRUPTED"}
      /\ UNCHANGED <<order, rev, receipts, commands, plans, deletion, process>>
      /\ rows' = [rows EXCEPT ![r] = p]
      /\ rows[r] \in Row /\ Owned(rows[r]) /\ TypeOK
  BY Working DEF Finish, Thr, scenario, ledger, IInv, ThreadOK, Thread, RowsInv, TypeOK
<1>2. /\ p \in Row
      /\ \/ p = rows[r]
         \/ rows[r].status = "RUNNING" /\ p.status = work[w].report /\ p.owner = NoWorker
         \/ rows[r].status = "CANCEL_REQUESTED" /\ p.status = "CANCELLED" /\ p.owner = NoWorker
  <2>1. rows[r].status \notin {"RUNNING", "CANCEL_REQUESTED"} => rows[r].owner = NoWorker
    BY <1>1 DEF Owned
  <2> HIDE DEF p
  <2> QED BY <1>1, <2>1, FinishedRow DEF p
<1>3. rows' \in [Requests -> Row] /\ rows'[r] = p
  BY <1>1, <1>2 DEF TypeOK
<1>4. p.status = "COMPLETED" => commands[r].status = "COMPLETED" /\ result'[r] = commands[r].plan
  <2>1. p.status = "COMPLETED" => commands[r].status = "COMPLETED"
    BY <1>1, <1>2 DEF ThreadOK, IInv, CommandsInv, CommandOK
  <2>2. p.status = "COMPLETED" => result' = [result EXCEPT ![r] = commands[r].plan]
    BY <1>3 DEF Finish
  <2>3. result \in [Requests -> 0 .. Len(plans)]
    BY <1>1 DEF TypeOK
  <2> QED BY <1>1, <2>1, <2>2, <2>3
<1>5. result' \in [Requests -> 0 .. Len(plans)] /\ \A q \in Requests \ {r} : result'[q] = result[q]
  <2>1. result \in [Requests -> 0 .. Len(plans)] /\ Len(plans) \in Nat /\ DOMAIN plans = 1 .. Len(plans)
    BY <1>1 DEF TypeOK
  <2>2. CASE p.status = "COMPLETED"
    <3>1. commands[r].plan \in 1 .. Len(plans) /\ result' = [result EXCEPT ![r] = commands[r].plan]
      BY <1>1, <1>3, <1>4, <2>1, <2>2 DEF IInv, CommandsInv, CommandOK, Finish
    <3> QED BY <1>1, <2>1, <3>1
  <2>3. CASE p.status # "COMPLETED"
    <3>1. result' = result
      BY <1>3, <2>3 DEF Finish
    <3> QED BY <2>1, <3>1
  <2> QED BY <2>2, <2>3
<1>6. /\ work' \in [Workers -> Thread] /\ work'[w] = IdleThread
      /\ \A v \in Workers \ {w} : work'[v] = work[v]
  <2>1. IdleThread \in Thread
    BY DEF IdleThread, Thread, Step
  <2> QED BY <1>1, <2>1 DEF TypeOK, Finish
<1>7. commands[r].status = "REPLAN_RUNNING" => Abandoned(p)
  <2> SUFFICES ASSUME commands[r].status = "REPLAN_RUNNING" PROVE Abandoned(p)
    OBVIOUS
  <2>1. rows[r].status # "COMPLETED" /\ work[w].report # "COMPLETED"
    BY <1>1 DEF IInv, CommandsInv, CommandOK, ThreadOK
  <2>2. /\ rows[r].status \notin {"ABSENT", "QUEUED"}
        /\ rows[r].status = "RUNNING" => rows[r].owner = w /\ rows[r].gen = work[w].gen
    BY <1>1 DEF ClaimedInv
  <2>3. CASE Finishes(rows[r], w, work[w].gen)
    BY <1>1, <2>1, <2>2, <2>3
       DEF Finishes, AfterFinish, Released, FinalStatus, Abandoned, Row, Status, ActiveStatus, Terminal
  <2>4. CASE ~Finishes(rows[r], w, work[w].gen)
    <3>1. p = rows[r]
      BY <2>4 DEF AfterFinish
    <3>2. rows[r].status = "RUNNING" => rows[r].lease <= 0
      BY <1>1, <2>2, <2>4 DEF Finishes, HoldsLease, Terminal, Row
    <3> QED BY <1>1, <2>1, <2>2, <3>1, <3>2 DEF Abandoned, Row, Status, ActiveStatus, Terminal
  <2> QED BY <2>3, <2>4
<1>8. RowsInv' /\ CommandsInv' /\ ReceiptsKept
  <2>1. rows[r].status # "ABSENT"
    BY <1>1 DEF ClaimedInv
  <2>2. Owned(p) /\ p.status # "ABSENT" /\ (rows[r].status \in Idling => p.status \in Idling)
    BY <1>1, <1>2, <2>1 DEF Owned, Idling
  <2>3. \A v \in Workers : work[v].at \in InCommand => work'[v] = work[v]
    BY <1>1, <1>6 DEF InCommand
  <2>4. ASSUME NEW q \in Requests, commands[q].status = "REPLAN_RUNNING", Attended(q)
        PROVE  Attended(q)'
    <3>1. CASE q = r
      BY <1>3, <1>7, <2>4, <3>1 DEF Attended
    <3>2. CASE q # r
      <4>1. \A v \in Workers : Busy(v, q) => Busy(v, q)'
        BY <1>6, <3>2 DEF Busy
      <4>2. rows'[q] = rows[q]
        BY <1>1, <3>2 DEF TypeOK
      <4> QED BY <2>4, <4>1, <4>2, AttendedKept
    <3> QED BY <3>1, <3>2
  <2> HIDE DEF p
  <2> QED BY <1>1, <1>2, <1>4, <1>5, <2>1, <2>2, <2>3, <2>4, RowMoves
<1>9. TypeOK'
  BY <1>1, <1>3, <1>5, <1>6 DEF TypeOK
<1>10. ThreadsInv'
  <2>1. rev' \in Nat /\ rev <= rev'
    BY <1>1, BoundsAssumption DEF TypeOK
  <2>2. ThreadOK(work[w])'
    BY <1>1, <1>6, <2>1 DEF ThreadOK, IdleThread, Planning
  <2> QED BY <1>1, <1>6, <2>1, <2>2, ThreadsMove
<1> QED BY <1>8, <1>9, <1>10 DEF IInv

LEMMA ClaimStep ==
  ASSUME IInv, NEW w \in Workers, NEW r \in Requests, Claim(w, r)
  PROVE  IInv' /\ ReceiptsKept
<1> DEFINE p == Claimed(rows[r], w)
<1>1. /\ work[w].at = "idle" /\ Claimable(rows[r]) /\ rows' = [rows EXCEPT ![r] = p]
      /\ UNCHANGED <<order, rev, receipts, commands, plans, result, deletion, process>>
      /\ rows[r] \in Row /\ TypeOK
  BY DEF Claim, Thr, scenario, ledger, IInv, TypeOK
<1>2. p \in Row /\ p.status = "RUNNING" /\ rows[r].gen + 1 \in Nat
  BY <1>1, NewRows DEF Claimed, Row
<1>3. /\ work' \in [Workers -> Thread]
      /\ \A v \in Workers \ {w} : work'[v] = work[v]
      /\ work'[w].at = "intake" /\ work'[w].req = r /\ work'[w].rev = 0 /\ work'[w].report = "none"
  <2> DEFINE t == [IdleThread EXCEPT !.at = "intake", !.req = r, !.gen = rows[r].gen + 1]
  <2>1. t \in Thread /\ t.at = "intake" /\ t.req = r /\ t.rev = 0 /\ t.report = "none"
    BY <1>2 DEF IdleThread, Thread, Step
  <2>2. work' = [work EXCEPT ![w] = t]
    BY DEF Claim
  <2> HIDE DEF t
  <2> QED BY <1>1, <2>1, <2>2 DEF TypeOK
<1>4. rows' \in [Requests -> Row] /\ RowsInv' /\ CommandsInv' /\ ReceiptsKept
  <2>1. /\ Owned(p) /\ rows[r].status # "ABSENT" /\ rows[r].status \notin Idling
        /\ p.status # "ABSENT" /\ p.status # "COMPLETED"
    BY <1>1, <1>2 DEF Owned, Claimable, Idling
  <2>2. \A v \in Workers : work[v].at \in InCommand => work'[v] = work[v]
    BY <1>1, <1>3 DEF InCommand
  <2>3. ASSUME NEW q \in Requests, Attended(q) PROVE Attended(q)'
    <3>1. CASE q = r
      BY <1>3, <3>1 DEF Attended, Busy
    <3>2. CASE q # r
      <4>1. \A v \in Workers : Busy(v, q) => Busy(v, q)'
        BY <1>1, <1>3 DEF Busy
      <4>2. rows'[q] = rows[q]
        BY <1>1, <3>2 DEF TypeOK
      <4> QED BY <2>3, <4>1, <4>2, AttendedKept
    <3> QED BY <3>1, <3>2
  <2> HIDE DEF p
  <2> QED BY <1>1, <1>2, <2>1, <2>2, <2>3, RowMoves
<1>5. TypeOK'
  BY <1>1, <1>3, <1>4 DEF TypeOK
<1>6. ThreadsInv'
  <2>1. rev' \in Nat /\ rev <= rev'
    BY <1>1, BoundsAssumption DEF TypeOK
  <2>2. ThreadOK(work[w])'
    BY <1>3, <2>1 DEF ThreadOK, Planning
  <2> QED BY <1>1, <1>3, <2>1, <2>2, ThreadsMove
<1> QED BY <1>4, <1>5, <1>6 DEF IInv

\* A lease runs out, or the dispatcher reaps what expired.
LEMMA LeaseStep ==
  ASSUME IInv, NEW r \in Requests, RunOut(r) \/ Reap(r)
  PROVE  IInv' /\ ReceiptsKept
<1>1. /\ UNCHANGED <<order, rev, receipts, commands, plans, result, work, deletion, process>>
      /\ rows[r] \in Row /\ Owned(rows[r]) /\ TypeOK
  BY DEF RunOut, Reap, scenario, ledger, IInv, RowsInv, TypeOK
<1>2. ASSUME NEW p \in Row, rows' = [rows EXCEPT ![r] = p],
             rows[r].status \in {"RUNNING", "CANCEL_REQUESTED"}, Owned(p),
             Abandoned(rows[r]) => Abandoned(p),
             \/ p.status = rows[r].status
             \/ p.status = "CANCELLED"
             \/ rows[r].status = "RUNNING" /\ p.status \in {"FAILED", "INTERRUPTED"}
      PROVE  IInv' /\ ReceiptsKept
  <2>0. ASSUME NEW q \in Requests, Attended(q) PROVE Attended(q)'
    <3>1. Abandoned(rows[q]) => Abandoned(rows'[q])
      BY <1>1, <1>2 DEF TypeOK
    <3>2. \A v \in Workers : Busy(v, q) => Busy(v, q)'
      BY <1>1 DEF Busy
    <3> QED BY <2>0, <3>1, <3>2, AttendedKept
  <2>1. rows' \in [Requests -> Row] /\ RowsInv' /\ CommandsInv' /\ ReceiptsKept
    BY <1>1, <1>2, <2>0, RowMoves DEF Idling
  <2>2. TypeOK'
    BY <1>1, <2>1 DEF TypeOK
  <2>3. ThreadsInv'
    BY <1>1, BoundsAssumption, ThreadsStay DEF TypeOK
  <2> QED BY <2>1, <2>2, <2>3 DEF IInv
<1>3. CASE RunOut(r)
  <2> DEFINE p == [rows[r] EXCEPT !.lease = -1]
  <2>1. /\ p \in Row /\ p.status = rows[r].status /\ p.owner = rows[r].owner
        /\ Abandoned(rows[r]) => Abandoned(p)
    BY <1>1 DEF Row, Abandoned
  <2>2. rows' = [rows EXCEPT ![r] = p] /\ rows[r].owner # NoWorker
    BY <1>1, <1>3 DEF RunOut, TypeOK
  <2> HIDE DEF p
  <2> QED BY <1>1, <1>2, <2>1, <2>2 DEF Owned
<1>4. CASE Reap(r)
  <2> DEFINE p == Reaped(rows[r])
  <2>1. rows' = [rows EXCEPT ![r] = p] /\ rows[r].status \in {"RUNNING", "CANCEL_REQUESTED"}
    BY <1>4 DEF Reap, Expired
  <2>2. /\ p \in Row /\ Owned(p)
        /\ \/ p.status = rows[r].status
           \/ p.status = "CANCELLED"
           \/ rows[r].status = "RUNNING" /\ p.status \in {"FAILED", "INTERRUPTED"}
        /\ Abandoned(rows[r]) => Abandoned(p)
    BY <1>1, ReapedRow DEF Owned, Abandoned
  <2> HIDE DEF p
  <2> QED BY <1>2, <2>1, <2>2
<1> QED BY <1>3, <1>4

-----------------------------------------------------------------------------
(* The process and the users.                                              *)

LEMMA RestartStep ==
  ASSUME IInv, Restart
  PROVE  IInv' /\ ReceiptsKept
<1>1. /\ rows' = [r \in Requests |-> Recovered(rows[r])]
      /\ work' = [w \in Workers |-> IdleThread]
      /\ UNCHANGED <<order, rev, receipts, plans, result>>
      /\ \A r \in Requests : rows[r] \in Row /\ Owned(rows[r])
      /\ TypeOK
  BY DEF Restart, scenario, IInv, RowsInv, TypeOK
<1>2. /\ commands' \in [Requests -> Command]
      /\ \A r \in Requests :
           /\ commands'[r].status \notin {"INTAKE_COMMITTED", "REPLAN_RUNNING"}
           /\ commands'[r].plan = commands[r].plan
           /\ commands'[r].status = "COMPLETED" <=> commands[r].status = "COMPLETED"
  <2> DEFINE new(r) == [commands[r] EXCEPT !.status = RecoveredCommand(@)]
  <2>1. ASSUME NEW r \in Requests
        PROVE  /\ new(r) \in Command /\ new(r).plan = commands[r].plan
               /\ new(r).status \notin {"INTAKE_COMMITTED", "REPLAN_RUNNING"}
               /\ new(r).status = "COMPLETED" <=> commands[r].status = "COMPLETED"
    BY <1>1 DEF TypeOK, Command, RecoveredCommand
  <2>2. commands' = [r \in Requests |-> new(r)]
    BY DEF Restart
  <2> HIDE DEF new
  <2> QED BY <2>1, <2>2
<1>3. \A r \in Requests :
        /\ rows'[r] \in Row /\ Owned(rows'[r])
        /\ rows[r].status = "ABSENT" <=> rows'[r].status = "ABSENT"
        /\ rows[r].status \in Idling => rows'[r].status \in Idling
        /\ rows'[r].status = "COMPLETED" => rows[r].status = "COMPLETED"
  BY <1>1, RecoveredRow DEF Owned, Idling
<1>4. rows' \in [Requests -> Row]
  BY <1>1, <1>3
<1>5. RowsInv'
  BY <1>1, <1>3, <1>4, RowsMove
<1>6. ReceiptsKept
  BY <1>1 DEF ReceiptsKept
<1>7. CommandsInv'
  <2> SUFFICES ASSUME NEW r \in Requests PROVE CommandOK(r)'
    BY DEF CommandsInv
  <2>1. CommandOK(r)
    BY DEF IInv, CommandsInv
  <2> QED BY <1>1, <1>2, <1>3, <2>1 DEF CommandOK, Asked
<1>8. ThreadsInv'
  <2> SUFFICES ASSUME NEW w \in Workers PROVE ThreadOK(work[w])'
    BY DEF ThreadsInv
  <2>1. work'[w].at = "idle" /\ work'[w].report = "none" /\ work'[w].rev = 0 /\ rev' \in Nat
    BY <1>1, BoundsAssumption DEF IdleThread, TypeOK
  <2> QED BY <2>1 DEF ThreadOK, Planning
<1>9. TypeOK'
  <2>1. IdleThread \in Thread
    BY DEF IdleThread, Thread, Step
  <2>2. process' \in [starts : 0 .. MaxRestarts, stopping : BOOLEAN] /\ deletion' = [at |-> "idle", rev |-> 0]
    BY <1>1, BoundsAssumption DEF Restart, TypeOK
  <2> QED BY <1>1, <1>2, <1>4, <2>1, <2>2 DEF TypeOK
<1> QED BY <1>5, <1>6, <1>7, <1>8, <1>9 DEF IInv

LEMMA StopStep ==
  ASSUME IInv, Stop
  PROVE  IInv' /\ ReceiptsKept
<1>1. /\ UNCHANGED <<order, rev, receipts, commands, plans, rows, result, work, deletion>>
      /\ process'.stopping /\ TypeOK
      /\ process' \in [starts : 0 .. MaxRestarts, stopping : BOOLEAN]
  BY DEF Stop, scenario, ledger, jobs, IInv, TypeOK
<1>2. TypeOK' /\ ReceiptsKept
  BY <1>1 DEF TypeOK, ReceiptsKept
<1>3. RowsInv' /\ CommandsInv'
  BY <1>1, <1>2, ReceiptsMove, AnswersStay
<1>4. ThreadsInv'
  BY <1>1, BoundsAssumption, ThreadsStay DEF TypeOK
<1> QED BY <1>2, <1>3, <1>4 DEF IInv

\* The intake is cancelled with every job that has not ended: a job that was
\* completed would have consumed the receipt.
LEMMA CancelIntakeStep ==
  ASSUME IInv, NEW k \in IntakeKeys, CancelIntake(k)
  PROVE  IInv' /\ ReceiptsKept
<1>1. /\ receipts[k].status = "ACTIVE" /\ receipts[k] \in Receipt
      /\ rows' = [r \in Requests |-> JobCancelled(r)]
      /\ UNCHANGED <<commands, plans, result, work, deletion, process>>
      /\ rev' = rev + 1 /\ rev' \in 0 .. MaxRevision /\ rev \in Nat /\ order' = NoOrder
      /\ \A r \in Requests : rows[r] \in Row /\ Owned(rows[r])
      /\ TypeOK
  BY BoundsAssumption DEF CancelIntake, Newest, ActiveKeys, Revise, IInv, RowsInv, TypeOK
<1>2. /\ receipts' \in [IntakeKeys -> Receipt] /\ receipts'[k].status = "CANCELLED"
      /\ \A j \in IntakeKeys \ {k} : receipts'[j] = receipts[j]
  <2>1. [receipts[k] EXCEPT !.status = "CANCELLED"] \in Receipt
    BY <1>1 DEF Receipt
  <2>2. [receipts[k] EXCEPT !.status = "CANCELLED"].status = "CANCELLED"
    BY <1>1 DEF Receipt
  <2>3. receipts' = [receipts EXCEPT ![k] = [receipts[k] EXCEPT !.status = "CANCELLED"]]
    BY DEF CancelIntake
  <2> QED BY <1>1, <2>1, <2>2, <2>3 DEF TypeOK
<1>3. \A r \in Requests :
        /\ rows'[r] \in Row /\ Owned(rows'[r])
        /\ rows[r].status = "ABSENT" <=> rows'[r].status = "ABSENT"
        /\ rows[r].status # "COMPLETED" => rows'[r].status \in Idling
        /\ rows[r].status = "COMPLETED" => rows'[r] = rows[r]
  BY <1>1, OwnerKept DEF JobCancelled, Cancellable, Owned, Idling, Row, Status, ActiveStatus, Terminal
<1>4. \A r \in Requests :
        IntakeOf[r] \in IntakeKeys /\ (rows[r].status = "COMPLETED" => Asked(r) = "CONSUMED")
  BY RequestsAssumption DEF IInv, CommandsInv, CommandOK
<1>5. ReceiptsKept
  BY <1>1, <1>2 DEF ReceiptsKept
<1>6. RowsInv'
  <2>1. \A r \in Requests : Owned(rows'[r]) /\ (rows'[r].status # "ABSENT" => Asked(r)' # "NONE")
    BY <1>2, <1>3, <1>4 DEF IInv, RowsInv, Asked
  <2>2. NoDemandWithoutJob'
    BY <1>1, <1>2, <1>3 DEF IInv, RowsInv, NoDemandWithoutJob
  <2>3. CancelledIsNotPlanned'
    BY <1>1, <1>2, <1>3, <1>4 DEF IInv, RowsInv, CancelledIsNotPlanned, Asked, Idling
  <2> QED BY <2>1, <2>2, <2>3 DEF RowsInv
<1>7. CommandsInv'
  <2> SUFFICES ASSUME NEW r \in Requests PROVE CommandOK(r)'
    BY DEF CommandsInv
  <2>1. rows'[r].status = "COMPLETED" =>
          commands[r].status = "COMPLETED" /\ result[r] = commands[r].plan
    BY <1>3 DEF IInv, CommandsInv, CommandOK, Idling
  <2>2. Abandoned(rows[r]) => Abandoned(rows'[r])
    BY <1>1 DEF JobCancelled, Cancellable, Cancelled, Abandoned, Row
  <2>3. Attended(r) => Attended(r)'
    BY <1>1, <2>2, AttendedKept DEF Busy
  <2> QED BY <1>1, <1>5, <2>1, <2>3, CommandMoves
<1>8. ThreadsInv'
  BY <1>1, ThreadsStay
<1>9. TypeOK'
  <2>1. rows' \in [Requests -> Row] /\ NoOrder \in Order
    BY <1>1, <1>3 DEF NoOrder, Order, Contents
  <2> QED BY <1>1, <1>2, <2>1 DEF TypeOK
<1> QED BY <1>5, <1>6, <1>7, <1>8, <1>9 DEF IInv

\* The scenario is edited by its users, or nothing but the DELETE handler moves.
LEMMA EditStep ==
  ASSUME IInv, ChangeScenario \/ DeleteRead \/ DeleteCheck \/ DeleteSave
  PROVE  IInv' /\ ReceiptsKept
<1>1. /\ UNCHANGED <<receipts, commands, plans, rows, result, work, process>>
      /\ TypeOK /\ rev \in Nat
  BY BoundsAssumption DEF ChangeScenario, DeleteRead, DeleteCheck, DeleteSave, ledger, jobs, IInv, TypeOK
<1>2. /\ order' \in Order /\ rev' \in 0 .. MaxRevision
      /\ rev <= rev' /\ (rev' = rev => order' = order)
  <2>1. \A o \in Order : Revise(o) => order' \in Order /\ rev' \in 0 .. MaxRevision /\ rev' = rev + 1
    BY <1>1, BoundsAssumption DEF Revise, TypeOK
  <2>2. /\ NoOrder \in Order /\ Pending(Reported) \in Order /\ order \in Order
        /\ [order EXCEPT !.content = Edited] \in Order
        /\ [order EXCEPT !.status = "STARTED"] \in Order
    BY <1>1 DEF NoOrder, Pending, Order, Contents, TypeOK
  <2>3. CASE ChangeScenario
    <3>1. \E o \in Order : Revise(o)
      BY <2>2, <2>3 DEF ChangeScenario, Create, Edit, Start, EditOther
    <3> QED BY <1>1, <2>1, <3>1
  <2>4. CASE DeleteRead \/ DeleteCheck
    BY <1>1, <2>4 DEF DeleteRead, DeleteCheck, scenario, TypeOK
  <2>5. CASE DeleteSave
    <3>1. Revise(NoOrder) \/ UNCHANGED scenario
      BY <2>5 DEF DeleteSave
    <3> QED BY <1>1, <2>1, <2>2, <3>1 DEF scenario, TypeOK
  <2> QED BY <2>3, <2>4, <2>5
<1>3. deletion' \in [at : {"idle", "read", "checked"}, rev : Nat]
  BY <1>1 DEF ChangeScenario, DeleteRead, DeleteCheck, DeleteSave, TypeOK
<1>4. TypeOK' /\ ReceiptsKept
  BY <1>1, <1>2, <1>3 DEF TypeOK, ReceiptsKept
<1>5. RowsInv' /\ CommandsInv'
  BY <1>1, <1>4, ReceiptsMove, AnswersStay
<1>6. ThreadsInv'
  BY <1>1, <1>2, BoundsAssumption, ThreadsStay
<1> QED BY <1>4, <1>5, <1>6 DEF IInv

-----------------------------------------------------------------------------
(* The claim of a thread on its job.                                       *)

\* A job that was claimed is not claimed anew by moving on.
KeepsClaim(r) ==
  rows[r].status \notin {"ABSENT", "QUEUED"} =>
    /\ rows'[r].status \notin {"ABSENT", "QUEUED"}
    /\ rows'[r].status = "RUNNING" =>
         rows[r].status = "RUNNING" /\ rows'[r].owner = rows[r].owner /\ rows'[r].gen = rows[r].gen

LEMMA ClaimMoves ==
  ASSUME IInv, ClaimedInv, \A r \in Requests : KeepsClaim(r),
         \A w \in Workers : work'[w].at # "idle" =>
           work[w].at # "idle" /\ work'[w].req = work[w].req /\ work'[w].gen = work[w].gen
  PROVE  ClaimedInv'
<1> SUFFICES ASSUME NEW w \in Workers, work'[w].at # "idle"
             PROVE  LET row == rows'[work'[w].req] IN
                    /\ row.status \notin {"ABSENT", "QUEUED"}
                    /\ row.status = "RUNNING" => row.owner = w /\ row.gen = work'[w].gen
  BY DEF ClaimedInv
<1>1. work[w].at # "idle" /\ work[w].req \in Requests /\ KeepsClaim(work[w].req)
  BY Working
<1> QED BY <1>1 DEF ClaimedInv, KeepsClaim

\* A thread that goes on or reports is still the thread of its attempt.
LEMMA ClaimedThread ==
  ASSUME IInv, ClaimedInv, NEW w \in Workers, \A r \in Requests : KeepsClaim(r),
         work[w].at # "idle",
         \/ \E s \in Step : Go(w, s)
         \/ \E s \in {"COMPLETED", "FAILED", "INTERRUPTED"} : Report(w, s)
         \/ work' = [work EXCEPT ![w] = IdleThread]
         \/ work' = [work EXCEPT ![w].at = "command", ![w].rev = rev']
  PROVE  ClaimedInv'
<1>1. work \in [Workers -> Thread] /\ work[w] \in Thread /\ IdleThread.at = "idle"
  BY DEF IInv, TypeOK, IdleThread
<1>2. /\ \A v \in Workers \ {w} : work'[v] = work[v]
      /\ work'[w].at # "idle" => work'[w].req = work[w].req /\ work'[w].gen = work[w].gen
  BY <1>1 DEF Go, Report, Thread
<1> QED BY <1>2, ClaimMoves

LEMMA ClaimedStep == ASSUME IInv, ClaimedInv, [Next]_vars PROVE ClaimedInv'
<1>0. /\ UNCHANGED rows => \A r \in Requests : KeepsClaim(r)
      /\ \A r \in Requests : InsertJob(r) => \A q \in Requests : KeepsClaim(q)
      /\ UNCHANGED work /\ (\A r \in Requests : KeepsClaim(r)) => ClaimedInv'
      /\ rows \in [Requests -> Row] /\ TypeOK
  BY ClaimMoves DEF KeepsClaim, InsertJob, IInv, TypeOK
<1>1. CASE UNCHANGED vars \/ ChangeScenario \/ DeleteRead \/ DeleteCheck \/ DeleteSave \/ Stop
  BY <1>0, <1>1 DEF vars, ChangeScenario, DeleteRead, DeleteCheck, DeleteSave, Stop, jobs
<1>2. ASSUME NEW r \in Requests, Submit(r) \/ ReplayCommand(r) PROVE ClaimedInv'
  BY <1>0, <1>2 DEF Submit, ReplayCommand, Intake, jobs
<1>3. ASSUME NEW r \in Requests, RunOut(r) \/ Reap(r) PROVE ClaimedInv'
  <2>1. rows[r] \in Row /\ UNCHANGED work
    BY <1>0, <1>3 DEF RunOut, Reap
  <2>2. CASE RunOut(r)
    BY <1>0, <2>1, <2>2 DEF RunOut, KeepsClaim, Row
  <2>3. CASE Reap(r)
    BY <1>0, <2>1, <2>3, ReapedRow DEF Reap, KeepsClaim
  <2> QED BY <1>3, <2>2, <2>3
<1>4. ASSUME NEW w \in Workers, JobIntake(w) PROVE ClaimedInv'
  <2>1. work[w].at # "idle" /\ work[w].req \in Requests
    BY <1>4, Working DEF JobIntake, Thr
  <2>2. \A r \in Requests : KeepsClaim(r)
    BY <1>0, <1>4, <2>1 DEF JobIntake, Intake
  <2> QED BY <1>4, <2>1, <2>2, ClaimedThread DEF JobIntake
<1>5. ASSUME NEW w \in Workers, JobReplays(w) \/ BeginCommand(w) \/ Prepare(w) \/ MarkRunning(w)
                                \/ Solve(w) \/ Record(w) \/ FailCommand(w)
      PROVE  ClaimedInv'
  <2>1. /\ work[w].at # "idle" /\ UNCHANGED rows
        /\ \/ \E s \in Step : Go(w, s)
           \/ \E s \in {"COMPLETED", "FAILED", "INTERRUPTED"} : Report(w, s)
    BY <1>5 DEF JobReplays, BeginCommand, Prepare, MarkRunning, Solve, Record, FailCommand, Thr, jobs, Step
  <2> QED BY <1>0, <2>1, ClaimedThread
<1>6. ASSUME NEW w \in Workers, Publish(w) PROVE ClaimedInv'
  <2>1. /\ work[w].at # "idle" /\ work[w].req \in Requests
        /\ (\E s \in Step : Go(w, s)) \/ work' = [work EXCEPT ![w] = IdleThread]
    BY <1>6, Working DEF Publish, Thr, Step
  <2>2. \A r \in Requests : KeepsClaim(r)
    <3>1. CASE Publishes(w)
      <4>1. rows' = [rows EXCEPT ![work[w].req] = Released(@, "COMPLETED")]
        BY <3>1 DEF Publishes
      <4> QED BY <1>0, <2>1, <4>1 DEF Released, KeepsClaim
    <3>2. CASE UNCHANGED jobs
      BY <1>0, <3>2 DEF jobs
    <3> QED BY <1>6, <3>1, <3>2 DEF Publish
  <2> QED BY <2>1, <2>2, ClaimedThread
<1>7. ASSUME NEW w \in Workers, Finish(w) PROVE ClaimedInv'
  <2>1. /\ work[w].at # "idle" /\ work[w].req \in Requests /\ work[w].gen \in Nat
        /\ work[w].report \in {"COMPLETED", "FAILED", "INTERRUPTED"}
        /\ rows[work[w].req] \in Row /\ Owned(rows[work[w].req])
    BY <1>0, <1>7, Working DEF Finish, Thr, ThreadOK, Thread, IInv, RowsInv
  <2>2. \A r \in Requests : KeepsClaim(r)
    BY <1>0, <1>7, <2>1 DEF Finish, AfterFinish, Released, FinalStatus, KeepsClaim
  <2> QED BY <1>7, <2>1, <2>2, ClaimedThread DEF Finish
<1>8. ASSUME NEW w \in Workers, NEW r \in Requests, Claim(w, r) PROVE ClaimedInv'
  <2>1. /\ rows'[r] = Claimed(rows[r], w) /\ \A q \in Requests \ {r} : rows'[q] = rows[q]
        /\ \A v \in Workers \ {w} : work'[v] = work[v] /\ (work[v].at # "idle" => work[v].req # r)
        /\ work'[w].req = r /\ work'[w].gen = rows[r].gen + 1
    BY <1>0, <1>8 DEF Claim, IdleThread, TypeOK
  <2>2. \A v \in Workers : work[v].at # "idle" => work[v].req \in Requests
    BY Working
  <2> QED BY <2>1, <2>2 DEF ClaimedInv, Claimed
<1>9. ASSUME NEW k \in IntakeKeys, CancelIntake(k) PROVE ClaimedInv'
  <2>1. UNCHANGED work /\ \A r \in Requests : rows[r] \in Row /\ rows'[r] = JobCancelled(r)
    BY <1>0, <1>9 DEF CancelIntake
  <2>2. \A r \in Requests : KeepsClaim(r)
    BY <2>1 DEF JobCancelled, Cancellable, Cancelled, KeepsClaim, Row
  <2> QED BY <1>0, <2>1, <2>2
<1>10. CASE Restart
  BY <1>10 DEF Restart, ClaimedInv, IdleThread
<1> QED BY <1>1, <1>2, <1>3, <1>4, <1>5, <1>6, <1>7, <1>8, <1>9, <1>10 DEF Next, JobStep

-----------------------------------------------------------------------------
(* The theorems.                                                           *)

LEMMA NextKeepsIInv == ASSUME IInv, ClaimedInv, [Next]_vars PROVE IInv' /\ ReceiptsKept
<1>1. CASE UNCHANGED vars
  <2>1. UNCHANGED <<order, rev, receipts, commands, plans, rows, result, work, deletion, process>>
    BY <1>1 DEF vars
  <2>2. TypeOK' /\ ReceiptsKept
    BY <2>1 DEF IInv, TypeOK, ReceiptsKept
  <2>3. RowsInv' /\ CommandsInv'
    BY <2>1, <2>2, ReceiptsMove, AnswersStay
  <2>4. ThreadsInv'
    BY <2>1, BoundsAssumption, ThreadsStay DEF IInv, TypeOK
  <2> QED BY <2>2, <2>3, <2>4 DEF IInv
<1>2. ASSUME NEW r \in Requests, Submit(r) \/ ReplayCommand(r) \/ RunOut(r) \/ Reap(r)
      PROVE  IInv' /\ ReceiptsKept
  BY <1>2, SubmitStep, ReplayCommandStep, LeaseStep
<1>3. ASSUME NEW w \in Workers, JobStep(w) PROVE IInv' /\ ReceiptsKept
  BY <1>3, JobIntakeStep, JobReplaysStep, BeginCommandStep, PrepareStep, MarkRunningStep,
     SolveStep, RecordStep, PublishStep, FailCommandStep, FinishStep DEF JobStep
<1>4. ASSUME NEW w \in Workers, NEW r \in Requests, Claim(w, r) PROVE IInv' /\ ReceiptsKept
  BY <1>4, ClaimStep
<1>5. ASSUME NEW k \in IntakeKeys, CancelIntake(k) PROVE IInv' /\ ReceiptsKept
  BY <1>5, CancelIntakeStep
<1>6. CASE ChangeScenario \/ DeleteRead \/ DeleteCheck \/ DeleteSave
  BY <1>6, EditStep
<1>7. CASE Stop \/ Restart
  BY <1>7, StopStep, RestartStep
<1> QED BY <1>1, <1>2, <1>3, <1>4, <1>5, <1>6, <1>7 DEF Next

\* The strengthening holds in every state of the intake.
THEOREM IInvHolds == Spec => [](IInv /\ ClaimedInv)
<1>1. Init => ClaimedInv
  BY DEF Init, IdleThread, ClaimedInv
<1>2. IInv /\ ClaimedInv /\ [Next]_vars => IInv' /\ ClaimedInv'
  BY NextKeepsIInv, ClaimedStep
<1> QED BY InitIInv, <1>1, <1>2, PTL DEF Spec

\* The tables keep their types; every receipt has its job, and every command
\* that says it is being worked on has its thread, unless the process ends or
\* it is that of a replan whose job was cancelled or lost its lease.
THEOREM IntakeIsConsistent == Spec => []Consistent
<1>1. IInv => Consistent
  BY DEF IInv, RowsInv, CommandsInv, CommandOK, Consistent, CommandHasThread, Attended, Busy
<1> QED BY <1>1, IInvHolds, PTL

\* A completed job, its command and its plan tell the same.
THEOREM OneAnswerPerRequest == Spec => []OneAnswer
<1>1. ASSUME IInv PROVE OneAnswer
  <2> SUFFICES ASSUME NEW r \in Requests, rows[r].status = "COMPLETED"
               PROVE  /\ result[r] \in DOMAIN plans
                      /\ commands[r] = [status |-> "COMPLETED", plan |-> result[r]]
                      /\ plans[result[r]].req = r /\ plans[result[r]].order # NoOrder
    BY DEF OneAnswer
  <2>1. CommandOK(r) /\ commands[r] \in Command
    BY <1>1 DEF IInv, CommandsInv, TypeOK
  <2> QED BY <2>1 DEF CommandOK, Command
<1> QED BY <1>1, IInvHolds, PTL

\* No job goes on after its intake was cancelled.
THEOREM CancelledIntakeStaysUnplanned == Spec => []CancelledIsNotPlanned
<1>1. IInv => CancelledIsNotPlanned
  BY DEF IInv, RowsInv
<1> QED BY <1>1, IInvHolds, PTL

\* Neither a later plan nor a late acknowledgement changes a settled receipt.
THEOREM FirstPlanStaysOnReceipt == Spec => FirstConsumptionKept
<1>1. IInv /\ ClaimedInv /\ [Next]_vars => ReceiptsKept
  BY NextKeepsIInv
<1>2. IInv /\ ClaimedInv /\ [Next]_vars =>
        [\A k \in IntakeKeys : receipts[k].status \in {"CONSUMED", "CANCELLED"} =>
           receipts'[k] = receipts[k]]_vars
  BY <1>1 DEF ReceiptsKept
<1> QED BY <1>2, IInvHolds, PTL DEF Spec, FirstConsumptionKept
=============================================================================

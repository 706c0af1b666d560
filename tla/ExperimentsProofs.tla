------------------------- MODULE ExperimentsProofs -------------------------
(***************************************************************************)
(* Experiments for any number of experiments, threads and strategies: the  *)
(* two rows of an experiment always agree, one live experiment answers     *)
(* identical requests, what ended stays, and a restart settles the rest.   *)
(***************************************************************************)
EXTENDS Experiments, JobRowProofs

(* The inductive invariant.                                                *)

Live == {"QUEUED", "RUNNING"}
ExpStatus == {"ABSENT"} \cup ExpActive \cup ExpEnded

\* Which statuses of an experiment go with which status of its job.
Agree(r, x) ==
  /\ r.status = "ABSENT" <=> x = "ABSENT"
  /\ r.status = "QUEUED" => x = "QUEUED"
  /\ r.status \in {"RUNNING", "INTERRUPTED"} => x \in Live
  /\ r.status = "CANCEL_REQUESTED" => x = "CANCEL_REQUESTED"
  /\ r.status = "CANCELLED" => x \in {"CANCELLED", "CANCEL_REQUESTED"}
  /\ r.status = "COMPLETED" => x \in Results
  /\ r.status = "FAILED" => x \in {"FAILED", "INTERRUPTED"} \cup Live

\* Only a job under way has an owner.
Owned(r) == r.status \notin {"RUNNING", "CANCEL_REQUESTED"} => r.owner = NoWorker

TablesInv ==
  /\ job \in [Exps -> Row]
  /\ exp \in [Exps -> ExpStatus]
  /\ \A e \in Exps : Agree(job[e], exp[e]) /\ Owned(job[e])
  /\ OneLivePerFingerprint

\* Places in which strategies are left to solve.
Early == {"claimed", "begin", "check", "solve", "round", "save", "beat"}

ThreadsInv ==
  /\ pc \in [Workers -> PC]
  /\ on \in [Workers -> Exps \cup {NoExp}]
  /\ gen \in [Workers -> Nat]
  /\ left \in [Workers -> 0 .. Profiles]
  /\ \A w \in Workers : pc[w] # "idle" => on[w] \in Exps
  /\ \A w \in Workers : pc[w] \in Early => left[w] >= 1

ProcessInv == phase \in {"up", "stopping", "down"} /\ restarts \in Nat

IInv == TablesInv /\ ThreadsInv /\ ProcessInv

\* What a step may do to the status x of an experiment, as y.
Follows(x, y) ==
  /\ x \in ExpEnded => y = x
  /\ x = "CANCEL_REQUESTED" => y \in {"CANCEL_REQUESTED", "CANCELLED"}

LEMMA InitIInv == Init => IInv
BY ExpsAssumption, LimitsAssumption, NewRows
DEF Init, IInv, TablesInv, ThreadsInv, ProcessInv, Agree, Owned, OneLivePerFingerprint, ExpStatus,
    PC, Early, AbsentRow

-----------------------------------------------------------------------------
(* How the tables change: all rows at once, or one row.                    *)

LEMMA RowsChange ==
  ASSUME TablesInv, NEW jobs \in [Exps -> Row], NEW exps \in [Exps -> ExpStatus],
         job' = jobs, exp' = exps,
         \A e \in Exps : /\ Agree(jobs[e], exps[e]) /\ Owned(jobs[e])
                         /\ exps[e] \in Live => exp[e] \in Live
  PROVE  TablesInv'
BY DEF TablesInv, OneLivePerFingerprint, Live

LEMMA RowChange ==
  ASSUME TablesInv, NEW e \in Exps, NEW r \in Row, NEW x \in ExpStatus,
         job' = [job EXCEPT ![e] = r], exp' = [exp EXCEPT ![e] = x],
         Agree(r, x), Owned(r), x \in Live => exp[e] \in Live, Follows(exp[e], x)
  PROVE  TablesInv' /\ \A f \in Exps : Follows(exp[f], exp'[f])
<1>1. /\ job' \in [Exps -> Row] /\ exp' \in [Exps -> ExpStatus]
      /\ \A f \in Exps : /\ job'[f] = IF f = e THEN r ELSE job[f]
                         /\ exp'[f] = IF f = e THEN x ELSE exp[f]
  BY DEF TablesInv
<1>2. \A f \in Exps : /\ Agree(job'[f], exp'[f]) /\ Owned(job'[f])
                      /\ exp'[f] \in Live => exp[f] \in Live
  BY <1>1 DEF TablesInv
<1>3. TablesInv'
  BY <1>1, <1>2, RowsChange
<1> QED BY <1>1, <1>3 DEF Follows

LEMMA NoRowChange ==
  ASSUME TablesInv, job' = job, exp' = exp
  PROVE  TablesInv' /\ \A f \in Exps : Follows(exp[f], exp'[f])
BY DEF TablesInv, OneLivePerFingerprint, Follows

\* Any thread at work on an experiment that has been claimed may move.
LEMMA Move ==
  ASSUME ThreadsInv, NEW w \in Workers, NEW place \in PC \ {"idle"}, pc[w] # "idle",
         place \in Early => pc[w] \in Early, GoTo(w, place)
  PROVE  ThreadsInv'
BY DEF ThreadsInv, GoTo

LEMMA LeaveStep ==
  ASSUME ThreadsInv, NEW w \in Workers, Leave(w)
  PROVE  ThreadsInv'
BY LimitsAssumption DEF ThreadsInv, Leave, PC, Early

-----------------------------------------------------------------------------
(* The actions.                                                            *)

Kept == \A e \in Exps : Follows(exp[e], exp'[e])

LEMMA QueueStep ==
  ASSUME IInv, NEW e \in Exps, Queue(e)
  PROVE  IInv' /\ Kept
<1>1. job' = [job EXCEPT ![e] = QueuedRow] /\ exp' = [exp EXCEPT ![e] = "QUEUED"] /\ QueuedRow \in Row
  BY NewRows DEF Queue
<1>2. \A f \in Exps : exp[f] \in Live /\ Fingerprint[f] = Fingerprint[e] => f = e
  BY DEF Queue, Joinable, Live
<1>3. /\ Agree(QueuedRow, "QUEUED") /\ Owned(QueuedRow) /\ "QUEUED" \in ExpStatus
      /\ exp[e] = "ABSENT"
  BY DEF Agree, Owned, QueuedRow, AbsentRow, ExpStatus, ExpActive, Queue
<1>4. TablesInv'
  BY <1>1, <1>2, <1>3 DEF IInv, TablesInv, OneLivePerFingerprint, Live
<1>5. Kept
  BY <1>1, <1>3 DEF Kept, Follows, IInv, TablesInv, ExpEnded, Results
<1> QED BY <1>4, <1>5 DEF IInv, Queue, threads, process, ThreadsInv, ProcessInv

LEMMA CancelStep ==
  ASSUME IInv, NEW e \in Exps, Cancel(e)
  PROVE  IInv' /\ Kept
<1> DEFINE r == Cancelled(job[e])
           x == IF exp[e] \in ExpActive THEN r.status ELSE exp[e]
<1>1. job[e] \in Row /\ Agree(job[e], exp[e]) /\ Owned(job[e]) /\ Cancellable(job[e])
  BY DEF IInv, TablesInv, Cancel
<1>2. /\ r \in Row /\ r.owner = job[e].owner
      /\ r.status = IF job[e].status = "RUNNING" THEN "CANCEL_REQUESTED" ELSE "CANCELLED"
  BY <1>1, OwnerKept
<1>3. job' = [job EXCEPT ![e] = r] /\ exp' = [exp EXCEPT ![e] = x]
  BY DEF Cancel
<1> HIDE DEF r
<1>4. /\ x \in ExpStatus /\ Agree(r, x) /\ Owned(r) /\ Follows(exp[e], x) /\ x \notin Live
  BY <1>1, <1>2
  DEF Cancellable, Agree, Owned, Follows, Live, ExpStatus, ExpActive, ExpEnded, Results
<1> HIDE DEF x
<1>5. TablesInv' /\ Kept
  BY <1>2, <1>3, <1>4, RowChange DEF IInv, Kept
<1> QED BY <1>5 DEF IInv, Cancel, threads, process, ThreadsInv, ProcessInv

LEMMA ClaimStep ==
  ASSUME IInv, NEW e \in Exps, NEW w \in Workers, Claim(e, w)
  PROVE  IInv' /\ Kept
<1>1. job[e] \in Row /\ Agree(job[e], exp[e])
  BY DEF IInv, TablesInv
<1>2. /\ Claimed(job[e], w) \in Row /\ Agree(Claimed(job[e], w), exp[e])
      /\ Owned(Claimed(job[e], w)) /\ exp[e] \in ExpStatus /\ Follows(exp[e], exp[e])
  BY <1>1, NewRows
  DEF Claim, Claimed, Agree, Owned, Follows, Live, ExpStatus, ExpActive, ExpEnded, Results
<1>3. job' = [job EXCEPT ![e] = Claimed(job[e], w)] /\ exp' = [exp EXCEPT ![e] = exp[e]]
  BY DEF Claim, IInv, TablesInv
<1>4. TablesInv' /\ Kept
  BY <1>2, <1>3, RowChange DEF IInv, Kept
<1>5. ThreadsInv'
  BY <1>1, LimitsAssumption DEF IInv, ThreadsInv, Claim, Row, PC, Early
<1> QED BY <1>4, <1>5 DEF IInv, Claim, process, ProcessInv

\* Steps of a thread that write nothing.
LEMMA QuietStep ==
  ASSUME IInv, NEW w \in Workers,
         \/ ProviderChanged(w) \/ ReadExperiment(w) \/ NextStrategy(w) \/ SolveEnds(w)
         \/ SolveInterrupted(w) \/ SolveStopped(w) \/ EndRound(w)
  PROVE  IInv' /\ Kept
<1>1. TablesInv' /\ Kept
  BY NoRowChange
  DEF ProviderChanged, ReadExperiment, NextStrategy, SolveEnds, SolveInterrupted, SolveStopped,
      EndRound, tables, IInv, Kept
<1>2. /\ pc[w] \in Early
      /\ \E place \in PC \ {"idle"} : GoTo(w, place)
      /\ UNCHANGED process
  BY DEF ProviderChanged, ReadExperiment, NextStrategy, SolveEnds, SolveInterrupted, SolveStopped,
         EndRound, At, Early, PC
<1>3. ThreadsInv'
  BY <1>2, Move DEF IInv, Early
<1> QED BY <1>1, <1>2, <1>3 DEF IInv, process, ProcessInv

\* save_experiment, whatever the thread wants to write.
LEMMA SaveStep ==
  ASSUME IInv, NEW w \in Workers, NEW s \in {"RUNNING", "FAILED", "CANCELLED"} \cup Results,
         NEW next \in PC \ {"idle"}, next \in Early => pc[w] \in Early,
         pc[w] # "idle", SaveExperiment(w, s, next)
  PROVE  IInv' /\ Kept
<1>1. PICK e \in Exps : e = on[w]
  BY DEF IInv, ThreadsInv
<1>2. job[e] \in Row /\ exp[e] \in ExpStatus /\ Agree(job[e], exp[e]) /\ Owned(job[e])
  BY DEF IInv, TablesInv
<1>3. CASE ~HasAuthorityOrCancel(job[e], w, gen[w])
  <2>1. GoTo(w, "failing") /\ job' = job /\ exp' = exp /\ UNCHANGED process
    BY <1>1, <1>3 DEF SaveExperiment, tables
  <2>2. ThreadsInv'
    BY <2>1, Move DEF IInv, PC, Early
  <2>3. TablesInv' /\ Kept
    BY <2>1, NoRowChange DEF IInv, Kept
  <2> QED BY <2>1, <2>2, <2>3 DEF IInv, process, ProcessInv
<1>4. CASE HasAuthorityOrCancel(job[e], w, gen[w])
  <2> DEFINE x == Saved(exp[e], s)
             r == IF exp[e] \notin ExpEnded /\ x \in ExpEnded
                  THEN Released(job[e], JobStatusOf(x)) ELSE job[e]
  <2>1. \/ job[e].status = "RUNNING" /\ exp[e] \in Live
        \/ job[e].status = "CANCEL_REQUESTED" /\ exp[e] = "CANCEL_REQUESTED"
    BY <1>2, <1>4 DEF HasAuthorityOrCancel, Agree
  <2>2. /\ x = IF exp[e] = "CANCEL_REQUESTED"
               THEN (IF s = "RUNNING" THEN "CANCEL_REQUESTED" ELSE "CANCELLED") ELSE s
        /\ x \in ExpStatus
    BY <2>1 DEF Saved, Live, ExpStatus, ExpActive, ExpEnded, Results
  <2>3. /\ JobStatusOf(x) = IF x \in Results THEN "COMPLETED" ELSE x
        /\ exp[e] \notin ExpEnded
    BY <2>1 DEF JobStatusOf, Live, ExpEnded, Results
  <2>4. GoTo(w, next) /\ UNCHANGED process /\ exp' = [exp EXCEPT ![e] = x]
    BY <1>1, <1>4 DEF SaveExperiment
  <2>5. job' = [job EXCEPT ![e] = r]
    BY <1>1, <1>4 DEF SaveExperiment, IInv, TablesInv
  <2> HIDE DEF x
  <2>6. x \in ExpEnded => JobStatusOf(x) \in Terminal \cap Status
    BY <2>2, <2>3 DEF Status, Terminal, ActiveStatus, ExpEnded, Results
  <2>7. /\ r \in Row
        /\ r.status = IF x \in ExpEnded THEN JobStatusOf(x) ELSE job[e].status
        /\ r.owner = IF x \in ExpEnded THEN NoWorker ELSE job[e].owner
    BY <1>2, <2>3, <2>6, ReleasedRow DEF Released
  <2> HIDE DEF r
  <2>8. Agree(r, x) /\ Owned(r) /\ Follows(exp[e], x) /\ (x \in Live => exp[e] \in Live)
    BY <1>2, <2>1, <2>2, <2>3, <2>7 DEF Agree, Owned, Follows, Live, ExpEnded, Results
  <2>9. TablesInv' /\ Kept
    BY <2>2, <2>4, <2>5, <2>7, <2>8, RowChange DEF IInv, Kept
  <2>10. ThreadsInv'
    BY <2>4, Move DEF IInv
  <2> QED BY <2>4, <2>9, <2>10 DEF IInv, process, ProcessInv
<1> QED BY <1>3, <1>4

LEMMA BeatStep ==
  ASSUME IInv, NEW w \in Workers, Heartbeat(w) \/ Beat(w)
  PROVE  IInv' /\ Kept
<1>1. PICK e \in Exps : e = on[w]
  BY DEF IInv, ThreadsInv, Heartbeat, Beat, At
<1>2. job[e] \in Row /\ exp[e] \in ExpStatus /\ Agree(job[e], exp[e]) /\ Owned(job[e])
  BY DEF IInv, TablesInv
<1>3. /\ Extended(job[e]) \in Row /\ Extended(job[e]).status = job[e].status
      /\ Extended(job[e]).owner = job[e].owner
  BY <1>2, OwnerKept
<1>4. CASE job' = [job EXCEPT ![e] = Extended(job[e])] /\ exp' = exp
  <2>1. exp' = [exp EXCEPT ![e] = exp[e]]
    BY <1>4 DEF IInv, TablesInv
  <2>2. Agree(Extended(job[e]), exp[e]) /\ Owned(Extended(job[e])) /\ Follows(exp[e], exp[e])
    BY <1>2, <1>3 DEF Agree, Owned, Follows
  <2> QED
    <3>1. TablesInv' /\ Kept
      BY <1>2, <1>3, <1>4, <2>1, <2>2, RowChange DEF IInv, Kept
    <3>2. ThreadsInv' /\ ProcessInv'
      BY LimitsAssumption
      DEF Heartbeat, Beat, At, GoTo, IInv, ThreadsInv, ProcessInv, PC, Early, threads, process
    <3> QED BY <3>1, <3>2 DEF IInv
<1>5. CASE job' = job /\ exp' = exp /\ Beat(w)
  <2>1. TablesInv' /\ Kept
    BY <1>5, NoRowChange DEF IInv, Kept
  <2>2. ThreadsInv' /\ ProcessInv'
    BY <1>5, LimitsAssumption
    DEF Beat, At, GoTo, IInv, ThreadsInv, ProcessInv, PC, Early, process
  <2> QED BY <2>1, <2>2 DEF IInv
<1> QED BY <1>1, <1>4, <1>5 DEF Heartbeat, Beat

LEMMA FinishStep ==
  ASSUME IInv, NEW w \in Workers, Finish(w)
  PROVE  IInv' /\ Kept
<1>1. PICK e \in Exps : e = on[w]
  BY DEF IInv, ThreadsInv, Finish
<1>2. /\ job[e] \in Row /\ exp[e] \in ExpStatus /\ Agree(job[e], exp[e]) /\ Owned(job[e])
      /\ gen[w] \in Nat
  BY DEF IInv, TablesInv, ThreadsInv
<1> DEFINE s == Reported(w)
           r == AfterFinish(job[e], w, gen[w], s)
           x == IF Finishes(job[e], w, gen[w])
                THEN ToldExperiment(exp[e], FinalStatus(job[e], s)) ELSE exp[e]
<1>3. s \in {"COMPLETED", "FAILED", "CANCELLED", "INTERRUPTED"}
  BY DEF Reported
<1>4. s = "COMPLETED" => exp[e] \in Results
  BY <1>1 DEF Reported
<1>5. s = "CANCELLED" => exp[e] = "CANCELLED"
  BY <1>1 DEF Reported
<1>6. job' = [job EXCEPT ![e] = r] /\ exp' = [exp EXCEPT ![e] = x]
  BY <1>1 DEF Finish, IInv, TablesInv
<1> HIDE DEF s
<1>7. Finishes(job[e], w, gen[w]) => job[e].status \in {"RUNNING", "CANCEL_REQUESTED"}
  BY <1>2, WorkersAssumption DEF Finishes, HoldsLease, Owned
<1>8. r \in Row /\ Owned(r)
  BY <1>2, <1>3, FinishedRow DEF Owned
<1>9. /\ ~Finishes(job[e], w, gen[w]) => r = job[e]
      /\ Finishes(job[e], w, gen[w]) => r.status = FinalStatus(job[e], s)
  BY DEF AfterFinish, Released
<1> HIDE DEF r
<1>10. /\ x \in ExpStatus /\ Agree(r, x) /\ Follows(exp[e], x)
       /\ x \in Live => exp[e] \in Live
  <2>1. CASE ~Finishes(job[e], w, gen[w])
    BY <1>2, <1>9, <2>1 DEF Follows
  <2>2. CASE Finishes(job[e], w, gen[w]) /\ job[e].status = "RUNNING"
    <3>1. exp[e] \in Live /\ s \in {"FAILED", "INTERRUPTED"}
      BY <1>2, <1>3, <1>4, <1>5, <2>2 DEF Agree, Live, Results
    <3>2. r.status = s /\ x = ToldExperiment(exp[e], s)
      BY <1>9, <2>2 DEF FinalStatus
    <3> QED
      BY <1>2, <3>1, <3>2
      DEF ToldExperiment, Agree, Follows, Live, ExpStatus, ExpActive, ExpEnded, Results
  <2>3. CASE Finishes(job[e], w, gen[w]) /\ job[e].status = "CANCEL_REQUESTED"
    <3>1. exp[e] = "CANCEL_REQUESTED" /\ r.status = "CANCELLED" /\ x = ToldExperiment(exp[e], "CANCELLED")
      BY <1>2, <1>9, <2>3 DEF Agree, FinalStatus
    <3> QED
      BY <3>1 DEF ToldExperiment, Agree, Follows, Live, ExpStatus, ExpActive, ExpEnded, Results
  <2> QED BY <1>7, <2>1, <2>2, <2>3
<1> HIDE DEF x
<1>11. TablesInv' /\ Kept
  BY <1>6, <1>8, <1>10, RowChange DEF IInv, Kept
<1>12. ThreadsInv'
  BY LeaveStep DEF Finish, IInv
<1> QED BY <1>11, <1>12 DEF IInv, Finish, process, ProcessInv

LEMMA ReapStep ==
  ASSUME IInv, ReapExpired \/ Tick
  PROVE  IInv' /\ Kept
<1> DEFINE next == [e \in Exps |-> IF ReapExpired THEN Reaped(job[e]) ELSE Aged(job[e])]
<1>1. \A e \in Exps : job[e] \in Row /\ Agree(job[e], exp[e]) /\ Owned(job[e])
  BY DEF IInv, TablesInv
<1>2. \A e \in Exps : Reaped(job[e]) \in Row /\ Agree(Reaped(job[e]), exp[e]) /\ Owned(Reaped(job[e]))
  BY <1>1, ReapedRow DEF Agree, Owned
<1>3. \A e \in Exps : Aged(job[e]) \in Row /\ Agree(Aged(job[e]), exp[e]) /\ Owned(Aged(job[e]))
  BY <1>1, OwnerKept DEF Agree, Owned
<1>4. exp' = exp /\ exp \in [Exps -> ExpStatus]
  BY DEF ReapExpired, Tick, IInv, TablesInv
<1>5. TablesInv'
  <2>1. CASE ReapExpired
    BY <1>2, <1>4, <2>1, RowsChange DEF ReapExpired, IInv
  <2>2. CASE Tick
    BY <1>3, <1>4, <2>2, RowsChange DEF Tick, IInv
  <2> QED BY <2>1, <2>2
<1>6. Kept
  BY <1>4 DEF Kept, Follows
<1> QED BY <1>5, <1>6 DEF IInv, ReapExpired, Tick, threads, process, ThreadsInv, ProcessInv

\* Recovery of one experiment and its job.
LEMMA RecoveredAgree ==
  ASSUME NEW r \in Row, NEW x \in ExpStatus, Agree(r, x), Owned(r)
  PROVE  LET y == RecoveredExperiment(x, Recovered(r)) IN
         /\ Recovered(r) \in Row /\ y \in ExpStatus
         /\ Agree(Recovered(r), y) /\ Owned(Recovered(r)) /\ Follows(x, y)
         /\ y \in Live => x \in Live
         /\ y \in ExpEnded <=> Recovered(r).status \in Terminal
BY RecoveredRow
DEF RecoveredExperiment, Agree, Owned, Follows, Live, ExpStatus, ExpActive, ExpEnded, Results,
    Terminal, Row, Status, ActiveStatus

LEMMA RestartStep ==
  ASSUME IInv, Restart
  PROVE  /\ IInv' /\ Kept
         /\ \A e \in Exps : exp'[e] \in ExpEnded <=> job'[e].status \in Terminal
<1> DEFINE r(e) == Recovered(job[e])
           y(e) == RecoveredExperiment(exp[e], Recovered(job[e]))
<1>1. \A e \in Exps : /\ r(e) \in Row /\ y(e) \in ExpStatus
                      /\ Agree(r(e), y(e)) /\ Owned(r(e)) /\ Follows(exp[e], y(e))
                      /\ y(e) \in Live => exp[e] \in Live
                      /\ y(e) \in ExpEnded <=> r(e).status \in Terminal
  BY RecoveredAgree DEF IInv, TablesInv
<1>2. job' = [e \in Exps |-> r(e)] /\ exp' = [e \in Exps |-> y(e)]
  BY DEF Restart
<1> HIDE DEF r, y
<1>3. TablesInv'
  BY <1>1, <1>2, RowsChange DEF IInv
<1>4. Kept /\ \A e \in Exps : exp'[e] \in ExpEnded <=> job'[e].status \in Terminal
  BY <1>1, <1>2 DEF Kept
<1> QED BY <1>3, <1>4 DEF IInv, Restart, threads, ThreadsInv, ProcessInv

LEMMA ProcessStep ==
  ASSUME IInv, Shutdown \/ Exited \/ Crash \/ UNCHANGED vars
  PROVE  IInv' /\ Kept
<1>1. TablesInv' /\ Kept
  BY NoRowChange DEF Shutdown, Exited, Crash, vars, tables, IInv, Kept
<1>2. ThreadsInv' /\ ProcessInv'
  BY LimitsAssumption
  DEF Shutdown, Exited, Crash, vars, tables, threads, process, IInv, ThreadsInv, ProcessInv, PC, Early
<1> QED BY <1>1, <1>2 DEF IInv

-----------------------------------------------------------------------------
(* The theorems.                                                           *)

LEMMA IInvPreserved == IInv /\ [Next]_vars => IInv' /\ Kept
<1> SUFFICES ASSUME IInv, [Next]_vars PROVE IInv' /\ Kept
  OBVIOUS
<1>1. ASSUME NEW e \in Exps, Client(e) \/ \E w \in Workers : Claim(e, w) PROVE IInv' /\ Kept
  BY <1>1, QueueStep, CancelStep, ClaimStep DEF Client
<1>2. ASSUME NEW w \in Workers, Attempt(w) \/ Heartbeat(w) PROVE IInv' /\ Kept
  <2>1. CASE SaveBegin(w) \/ SaveRound(w) \/ SaveStop(w) \/ SaveFailure(w) \/ SaveResult(w)
    <3> USE DEF At, PC, Early
    <3>1. CASE SaveBegin(w)
      BY <3>1, SaveStep DEF SaveBegin
    <3>2. CASE SaveRound(w)
      BY <3>2, SaveStep DEF SaveRound
    <3>3. CASE SaveStop(w)
      BY <3>3, SaveStep DEF SaveStop
    <3>4. CASE SaveFailure(w)
      BY <3>4, SaveStep DEF SaveFailure
    <3>5. CASE SaveResult(w)
      <4>1. PICK s \in Results \cup {"FAILED"} : SaveExperiment(w, s, "report")
        BY <3>5 DEF SaveResult
      <4> QED BY <3>5, <4>1, SaveStep DEF SaveResult
    <3> QED BY <2>1, <3>1, <3>2, <3>3, <3>4, <3>5
  <2> QED BY <1>2, <2>1, QuietStep, BeatStep, FinishStep DEF Attempt
<1> QED BY <1>1, <1>2, ReapStep, RestartStep, ProcessStep DEF Next

\* Every behaviour stays inside the inductive invariant.
THEOREM IInvHolds == Spec => []IInv
BY InitIInv, IInvPreserved, PTL DEF Spec

\* Rows, statuses and threads keep their types.
THEOREM TypeCorrect == Spec => []TypeOK
<1>1. IInv => TypeOK
  BY DEF IInv, TablesInv, ThreadsInv, ProcessInv, TypeOK, ExpStatus
<1> QED BY <1>1, IInvHolds, PTL

\* save_experiment commits the result of an experiment together with its job.
THEOREM ResultCommittedWithJob == Spec => []ResultIsJobResult
<1>1. IInv => ResultIsJobResult
  BY DEF IInv, TablesInv, ResultIsJobResult, Agree, Live, ExpStatus, ExpActive, ExpEnded, Results,
         Row, Status, ActiveStatus, Terminal
<1> QED BY <1>1, IInvHolds, PTL

\* An accepted cancellation is in both rows, and stays there.
THEOREM CancellationAgreed == Spec => []CancelAgreed
<1>1. IInv => CancelAgreed
  BY DEF IInv, TablesInv, CancelAgreed, Agree, Live, ExpStatus, ExpActive, ExpEnded, Results,
         Row, Status, ActiveStatus, Terminal
<1> QED BY <1>1, IInvHolds, PTL

\* Experiment row and job row agree about results and cancellations.
THEOREM RowsAlwaysAgree == Spec => []RowsAgree
BY ResultCommittedWithJob, CancellationAgreed, PTL DEF RowsAgree

\* queue_experiment answers identical requests with one live experiment.
THEOREM OneLiveExperiment == Spec => []OneLivePerFingerprint
<1>1. IInv => OneLivePerFingerprint
  BY DEF IInv, TablesInv
<1> QED BY <1>1, IInvHolds, PTL

\* No end of an experiment, and no accepted cancellation, is ever taken back.
THEOREM EndsAreFinal == Spec => EndedStaysEnded
<1>1. Kept => \A e \in Exps :
         /\ exp[e] \in ExpEnded => exp'[e] = exp[e]
         /\ exp[e] = "CANCEL_REQUESTED" => exp'[e] \in {"CANCEL_REQUESTED", "CANCELLED"}
  BY DEF Kept, Follows
<1>2. IInv /\ [Next]_vars => Kept
  BY IInvPreserved
<1> QED BY <1>1, <1>2, IInvHolds, PTL DEF Spec, EndedStaysEnded

\* After _recover_runtime_owned an experiment is over exactly if its job is.
THEOREM RestartSettlesAll == Spec => RestartSettles
<1>1. IInv /\ [Next]_vars =>
        (phase = "down" /\ phase' = "up" =>
           \A e \in Exps : exp'[e] \in ExpEnded <=> job'[e].status \in Terminal)
  <2> SUFFICES ASSUME IInv, [Next]_vars, phase = "down", phase' = "up"
               PROVE  \A e \in Exps : exp'[e] \in ExpEnded <=> job'[e].status \in Terminal
    OBVIOUS
  <2>1. Restart
    BY DEF Next, vars, process, Client, Queue, Cancel, Claim, Attempt, ProviderChanged, ReadExperiment,
           SaveBegin, SaveRound, SaveStop, SaveFailure, SaveResult, NextStrategy, SolveEnds,
           SolveInterrupted, SolveStopped, EndRound, Beat, Finish, Heartbeat, ReapExpired, Tick,
           Shutdown, Exited, Crash, At, Running
  <2> QED BY <2>1, RestartStep
<1> QED BY <1>1, IInvHolds, PTL DEF Spec, RestartSettles
=============================================================================

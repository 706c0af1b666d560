------------------------- MODULE RuntimeJobsProofs -------------------------
(***************************************************************************)
(* RuntimeJobs for any number of jobs and threads: its type invariant, the *)
(* safety properties the run checks, and that it implements JobContract.   *)
(***************************************************************************)
EXTENDS RuntimeJobs, JobRowProofs, FiniteSetTheorems

-----------------------------------------------------------------------------
(* The inductive invariant.                                                *)

\* A thread has a job exactly while it is busy, none is busy in a process that
\* is down, and an attempt is only interrupted by a shutdown.
ThreadsInv ==
  /\ \A w \in Workers : pc[w] = "idle" <=> on[w] = NoJob
  /\ phase = "down" => \A w \in Workers : pc[w] = "idle"
  /\ \A w \in Workers : pc[w] = "interrupt" => phase = "stopping"
  /\ \A w \in Workers : pc[w] = "finish" => row[on[w]].status = "COMPLETED"

\* The dispatcher's futures cover the busy threads, and the list it works on
\* holds nothing another thread may have started.
DispatchInv ==
  /\ \A w \in Workers : on[w] # NoJob => on[w] \in pending
  /\ SingleFlight
  /\ dpc # "drain" => listed = {}
  /\ \A j \in listed \ pending : row[j].status \in {"QUEUED", "INTERRUPTED"} \cup Terminal
  /\ \A w \in Workers : pc[w] = "submitted" =>
       row[on[w]].status \in {"QUEUED", "INTERRUPTED"} \cup Terminal

\* Only a running job has an owner; how many attempts there can have been.
RowsInv ==
  \A j \in Jobs :
    /\ row[j].status \notin {"RUNNING", "CANCEL_REQUESTED"} => row[j].owner = NoWorker
    /\ row[j].status \in {"ABSENT", "QUEUED"} => row[j].gen = 0
    /\ row[j].gen <= MaxAttempts + restarts
    /\ row[j].status = "INTERRUPTED" /\ phase = "up" => row[j].gen < MaxAttempts + restarts

\* A future that has not claimed yet finds a job with an attempt left, also when
\* the shutdown has begun.
FuturesInv ==
  \A w \in Workers : pc[w] = "submitted" /\ row[on[w]].status = "INTERRUPTED" =>
    row[on[w]].gen < MaxAttempts + restarts

IInv ==
  /\ TypeOK /\ ThreadsInv /\ DispatchInv /\ RowsInv /\ FuturesInv
  /\ CompletedIffPublished /\ CommandTellsPublication

LEMMA InitIInv == Init => IInv
<1> SUFFICES ASSUME Init PROVE IInv
  OBVIOUS
<1> USE DEF Init
<1>1. TypeOK
  BY DEF TypeOK, Row, Status, ActiveStatus, Terminal, AbsentRow, PC, CommandStatus
<1>2. ThreadsInv
  BY DEF ThreadsInv
<1>3. DispatchInv
  BY DEF DispatchInv, SingleFlight
<1>4. RowsInv
  BY AttemptsAssumption DEF RowsInv, AbsentRow
<1>5. FuturesInv
  BY DEF FuturesInv
<1>6. CompletedIffPublished /\ CommandTellsPublication
  BY JobsAssumption DEF CompletedIffPublished, CommandTellsPublication, AbsentRow
<1> QED BY <1>1, <1>2, <1>3, <1>4, <1>5, <1>6 DEF IInv

-----------------------------------------------------------------------------
(* One lemma per action that changes more than a thread's place.           *)

LEMMA EnqueueStep ==
  ASSUME IInv, NEW j \in Jobs, Enqueue(j)
  PROVE  IInv'
<1> USE JobsAssumption, WorkersAssumption, AttemptsAssumption
    DEF IInv, TypeOK, Enqueue, store, pool, dispatcher, process
<1>0. row' \in [Jobs -> Row]
  BY NewRows
<1>1. TypeOK'
  BY <1>0 DEF PC, CommandStatus, ThreadsInv
<1>2. ThreadsInv'
  BY <1>0 DEF ThreadsInv, Running, SingleFlight, DispatchInv
<1>3. DispatchInv'
  BY <1>0 DEF DispatchInv, SingleFlight, ThreadsInv, Terminal
<1>4. RowsInv'
  BY <1>0 DEF RowsInv, ThreadsInv, DispatchInv, FuturesInv, Terminal, QueuedRow, AbsentRow
<1>5. FuturesInv'
  BY <1>0 DEF FuturesInv, RowsInv, DispatchInv, ThreadsInv, SingleFlight, Terminal, QueuedRow, AbsentRow
<1>6. CompletedIffPublished'
  BY <1>0 DEF CompletedIffPublished, DispatchInv, Terminal, ThreadsInv, QueuedRow, AbsentRow
<1>7. CommandTellsPublication'
  BY <1>0 DEF CommandTellsPublication, CompletedIffPublished, DispatchInv, ThreadsInv, Terminal, QueuedRow, AbsentRow
<1> QED BY <1>1, <1>2, <1>3, <1>4, <1>5, <1>6, <1>7

LEMMA RequestCancelStep ==
  ASSUME IInv, NEW j \in Jobs, RequestCancel(j)
  PROVE  IInv'
<1> USE JobsAssumption, WorkersAssumption, AttemptsAssumption
    DEF IInv, TypeOK, RequestCancel, Cancellable, store, pool, dispatcher, process
<1>0. /\ row' \in [Jobs -> Row]
      /\ \A k \in Jobs :
         /\ row'[k].gen = row[k].gen /\ row'[k].owner = row[k].owner
         /\ k # j => row'[k].status = row[k].status
      /\ row'[j].status = IF row[j].status = "RUNNING" THEN "CANCEL_REQUESTED" ELSE "CANCELLED"
  BY OwnerKept
<1>1. TypeOK'
  BY <1>0 DEF PC, CommandStatus, ThreadsInv
<1>2. ThreadsInv'
  BY <1>0 DEF ThreadsInv, Running, SingleFlight, DispatchInv
<1>3. DispatchInv'
  BY <1>0 DEF DispatchInv, SingleFlight, ThreadsInv, Terminal
<1>4. RowsInv'
  BY <1>0 DEF RowsInv, ThreadsInv, DispatchInv, FuturesInv, Terminal
<1>5. FuturesInv'
  BY <1>0 DEF FuturesInv, RowsInv, DispatchInv, ThreadsInv, SingleFlight, Terminal
<1>6. CompletedIffPublished'
  BY <1>0 DEF CompletedIffPublished, DispatchInv, Terminal, ThreadsInv
<1>7. CommandTellsPublication'
  BY <1>0 DEF CommandTellsPublication, CompletedIffPublished, DispatchInv, ThreadsInv, Terminal
<1> QED BY <1>1, <1>2, <1>3, <1>4, <1>5, <1>6, <1>7

LEMMA PruneStep ==
  ASSUME IInv, Prune
  PROVE  IInv'
<1> USE JobsAssumption, WorkersAssumption, AttemptsAssumption
    DEF IInv, TypeOK, Prune, store, pool, dispatcher, process
<1>1. TypeOK'
  BY DEF PC, CommandStatus, ThreadsInv
<1>2. ThreadsInv'
  BY DEF ThreadsInv, Running, SingleFlight, DispatchInv
<1>3. DispatchInv'
  BY DEF DispatchInv, SingleFlight, ThreadsInv, Terminal
<1>4. RowsInv'
  BY DEF RowsInv, ThreadsInv, DispatchInv, FuturesInv, Terminal
<1>5. FuturesInv'
  BY DEF FuturesInv, RowsInv, DispatchInv, ThreadsInv, SingleFlight, Terminal
<1>6. CompletedIffPublished'
  BY DEF CompletedIffPublished, DispatchInv, Terminal, ThreadsInv
<1>7. CommandTellsPublication'
  BY DEF CommandTellsPublication, CompletedIffPublished, DispatchInv, ThreadsInv, Terminal
<1> QED BY <1>1, <1>2, <1>3, <1>4, <1>5, <1>6, <1>7

LEMMA ReapExpiredStep ==
  ASSUME IInv, ReapExpired
  PROVE  IInv'
<1> USE JobsAssumption, WorkersAssumption, AttemptsAssumption
    DEF IInv, TypeOK, ReapExpired, store, pool, dispatcher, process
<1>0. /\ row' \in [Jobs -> Row]
      /\ \A k \in Jobs : row[k].gen \in Nat
      /\ \A k \in Jobs :
         /\ row'[k].gen = row[k].gen /\ row'[k].owner \in {row[k].owner, NoWorker}
         /\ \/ row'[k] = row[k]
            \/ /\ row'[k].owner = NoWorker
               /\ \/ row[k].status = "CANCEL_REQUESTED" /\ row'[k].status = "CANCELLED"
                  \/ row[k].status = "RUNNING" /\ row'[k].status = "FAILED"
                  \/ /\ row[k].status = "RUNNING" /\ row'[k].status = "INTERRUPTED"
                     /\ row[k].gen < MaxAttempts
  BY ReapedRow DEF Row
<1>1. TypeOK'
  BY <1>0 DEF PC, CommandStatus, ThreadsInv
<1>2. ThreadsInv'
  BY <1>0 DEF ThreadsInv, Running, SingleFlight, DispatchInv
<1>3. DispatchInv'
  BY <1>0 DEF DispatchInv, SingleFlight, ThreadsInv, Terminal
<1>4. RowsInv'
  BY <1>0 DEF RowsInv, ThreadsInv, DispatchInv, FuturesInv, Terminal
<1>5. FuturesInv'
  BY <1>0 DEF FuturesInv, RowsInv, DispatchInv, ThreadsInv, SingleFlight, Terminal
<1>6. CompletedIffPublished'
  BY <1>0 DEF CompletedIffPublished, DispatchInv, Terminal, ThreadsInv
<1>7. CommandTellsPublication'
  BY <1>0 DEF CommandTellsPublication, CompletedIffPublished, DispatchInv, ThreadsInv, Terminal
<1> QED BY <1>1, <1>2, <1>3, <1>4, <1>5, <1>6, <1>7

LEMMA ListRecoverableStep ==
  ASSUME IInv, ListRecoverable
  PROVE  IInv'
<1> USE JobsAssumption, WorkersAssumption, AttemptsAssumption
    DEF IInv, TypeOK, ListRecoverable, store, pool, dispatcher, process
<1>1. TypeOK'
  BY DEF PC, CommandStatus, ThreadsInv
<1>2. ThreadsInv'
  BY DEF ThreadsInv, Running, SingleFlight, DispatchInv
<1>3. DispatchInv'
  BY DEF DispatchInv, SingleFlight, ThreadsInv, Terminal
<1>4. RowsInv'
  BY DEF RowsInv, ThreadsInv, DispatchInv, FuturesInv, Terminal
<1>5. FuturesInv'
  BY DEF FuturesInv, RowsInv, DispatchInv, ThreadsInv, SingleFlight, Terminal
<1>6. CompletedIffPublished'
  BY DEF CompletedIffPublished, DispatchInv, Terminal, ThreadsInv
<1>7. CommandTellsPublication'
  BY DEF CommandTellsPublication, CompletedIffPublished, DispatchInv, ThreadsInv, Terminal
<1> QED BY <1>1, <1>2, <1>3, <1>4, <1>5, <1>6, <1>7

LEMMA SkipStep ==
  ASSUME IInv, NEW j \in Jobs, Skip(j)
  PROVE  IInv'
<1> USE JobsAssumption, WorkersAssumption, AttemptsAssumption
    DEF IInv, TypeOK, Skip, store, pool, dispatcher, process
<1>1. TypeOK'
  BY DEF PC, CommandStatus, ThreadsInv
<1>2. ThreadsInv'
  BY DEF ThreadsInv, Running, SingleFlight, DispatchInv
<1>3. DispatchInv'
  BY DEF DispatchInv, SingleFlight, ThreadsInv, Terminal
<1>4. RowsInv'
  BY DEF RowsInv, ThreadsInv, DispatchInv, FuturesInv, Terminal
<1>5. FuturesInv'
  BY DEF FuturesInv, RowsInv, DispatchInv, ThreadsInv, SingleFlight, Terminal
<1>6. CompletedIffPublished'
  BY DEF CompletedIffPublished, DispatchInv, Terminal, ThreadsInv
<1>7. CommandTellsPublication'
  BY DEF CommandTellsPublication, CompletedIffPublished, DispatchInv, ThreadsInv, Terminal
<1> QED BY <1>1, <1>2, <1>3, <1>4, <1>5, <1>6, <1>7

LEMMA SubmitStep ==
  ASSUME IInv, NEW j \in Jobs, NEW w \in Workers, Submit(j, w)
  PROVE  IInv'
<1> USE JobsAssumption, WorkersAssumption, AttemptsAssumption
    DEF IInv, TypeOK, Submit, store, pool, dispatcher, process
<1>1. TypeOK'
  BY DEF PC, CommandStatus, ThreadsInv
<1>2. ThreadsInv'
  BY DEF ThreadsInv, Running, SingleFlight, DispatchInv
<1>3. DispatchInv'
  BY DEF DispatchInv, SingleFlight, ThreadsInv, Terminal
<1>4. RowsInv'
  BY DEF RowsInv, ThreadsInv, DispatchInv, FuturesInv, Terminal
<1>5. FuturesInv'
  BY DEF FuturesInv, RowsInv, DispatchInv, ThreadsInv, SingleFlight, Terminal
<1>6. CompletedIffPublished'
  BY DEF CompletedIffPublished, DispatchInv, Terminal, ThreadsInv
<1>7. CommandTellsPublication'
  BY DEF CommandTellsPublication, CompletedIffPublished, DispatchInv, ThreadsInv, Terminal
<1> QED BY <1>1, <1>2, <1>3, <1>4, <1>5, <1>6, <1>7

LEMMA EndRoundStep ==
  ASSUME IInv, EndRound
  PROVE  IInv'
<1> USE JobsAssumption, WorkersAssumption, AttemptsAssumption
    DEF IInv, TypeOK, EndRound, store, pool, dispatcher, process
<1>1. TypeOK'
  BY DEF PC, CommandStatus, ThreadsInv
<1>2. ThreadsInv'
  BY DEF ThreadsInv, Running, SingleFlight, DispatchInv
<1>3. DispatchInv'
  BY DEF DispatchInv, SingleFlight, ThreadsInv, Terminal
<1>4. RowsInv'
  BY DEF RowsInv, ThreadsInv, DispatchInv, FuturesInv, Terminal
<1>5. FuturesInv'
  BY DEF FuturesInv, RowsInv, DispatchInv, ThreadsInv, SingleFlight, Terminal
<1>6. CompletedIffPublished'
  BY DEF CompletedIffPublished, DispatchInv, Terminal, ThreadsInv
<1>7. CommandTellsPublication'
  BY DEF CommandTellsPublication, CompletedIffPublished, DispatchInv, ThreadsInv, Terminal
<1> QED BY <1>1, <1>2, <1>3, <1>4, <1>5, <1>6, <1>7

LEMMA ClaimStep ==
  ASSUME IInv, NEW w \in Workers, Claim(w)
  PROVE  IInv'
<1> USE JobsAssumption, WorkersAssumption, AttemptsAssumption
    DEF IInv, TypeOK, Claim, At, Claimable, store, pool, dispatcher, process
<1>0. /\ on[w] \in Jobs
      /\ \A k \in Jobs : row[k].gen \in Nat
      /\ row' \in [Jobs -> Row]
      /\ row'[on[w]].status = "RUNNING" /\ row'[on[w]].gen = row[on[w]].gen + 1
      /\ \A k \in Jobs : k # on[w] => row'[k] = row[k]
  BY NewRows DEF ThreadsInv, Claimed, Row
<1>1. TypeOK'
  BY <1>0 DEF PC, CommandStatus, ThreadsInv
<1>2. ThreadsInv'
  BY <1>0 DEF ThreadsInv, Running, SingleFlight, DispatchInv
<1>3. DispatchInv'
  BY <1>0 DEF DispatchInv, SingleFlight, ThreadsInv, Terminal
<1>4. RowsInv'
  BY <1>0 DEF RowsInv, ThreadsInv, DispatchInv, FuturesInv, Terminal
<1>5. FuturesInv'
  BY <1>0 DEF FuturesInv, RowsInv, DispatchInv, ThreadsInv, SingleFlight, Terminal
<1>6. CompletedIffPublished'
  BY <1>0 DEF CompletedIffPublished, DispatchInv, Terminal, ThreadsInv
<1>7. CommandTellsPublication'
  BY <1>0 DEF CommandTellsPublication, CompletedIffPublished, DispatchInv, ThreadsInv, Terminal
<1> QED BY <1>1, <1>2, <1>3, <1>4, <1>5, <1>6, <1>7

LEMMA ClaimRefusedStep ==
  ASSUME IInv, NEW w \in Workers, ClaimRefused(w)
  PROVE  IInv'
<1> USE JobsAssumption, WorkersAssumption, AttemptsAssumption
    DEF IInv, TypeOK, ClaimRefused, At, Leave, store, pool, dispatcher, process
<1>1. TypeOK'
  BY DEF PC, CommandStatus, ThreadsInv
<1>2. ThreadsInv'
  BY DEF ThreadsInv, Running, SingleFlight, DispatchInv
<1>3. DispatchInv'
  BY DEF DispatchInv, SingleFlight, ThreadsInv, Terminal
<1>4. RowsInv'
  BY DEF RowsInv, ThreadsInv, DispatchInv, FuturesInv, Terminal
<1>5. FuturesInv'
  BY DEF FuturesInv, RowsInv, DispatchInv, ThreadsInv, SingleFlight, Terminal
<1>6. CompletedIffPublished'
  BY DEF CompletedIffPublished, DispatchInv, Terminal, ThreadsInv
<1>7. CommandTellsPublication'
  BY DEF CommandTellsPublication, CompletedIffPublished, DispatchInv, ThreadsInv, Terminal
<1> QED BY <1>1, <1>2, <1>3, <1>4, <1>5, <1>6, <1>7

LEMMA ReserveCommandStep ==
  ASSUME IInv, NEW w \in Workers, ReserveCommand(w)
  PROVE  IInv'
<1> USE JobsAssumption, WorkersAssumption, AttemptsAssumption
    DEF IInv, TypeOK, ReserveCommand, At, GoTo, store, pool, dispatcher, process
<1>1. TypeOK'
  BY DEF PC, CommandStatus, ThreadsInv
<1>2. ThreadsInv'
  BY DEF ThreadsInv, Running, SingleFlight, DispatchInv
<1>3. DispatchInv'
  BY DEF DispatchInv, SingleFlight, ThreadsInv, Terminal
<1>4. RowsInv'
  BY DEF RowsInv, ThreadsInv, DispatchInv, FuturesInv, Terminal
<1>5. FuturesInv'
  BY DEF FuturesInv, RowsInv, DispatchInv, ThreadsInv, SingleFlight, Terminal
<1>6. CompletedIffPublished'
  BY DEF CompletedIffPublished, DispatchInv, Terminal, ThreadsInv
<1>7. CommandTellsPublication'
  BY DEF CommandTellsPublication, CompletedIffPublished, DispatchInv, ThreadsInv, Terminal
<1> QED BY <1>1, <1>2, <1>3, <1>4, <1>5, <1>6, <1>7

LEMMA MoveStep ==
  ASSUME IInv, NEW w \in Workers, InputsChanged(w) \/ CommandRefused(w) \/ Solved(w) \/ SolveFailed(w) \/ SolveStopped(w)
                                     \/ Record(w) \/ RecordRefused(w) \/ PublishRefused(w)
  PROVE  IInv'
<1> USE JobsAssumption, WorkersAssumption, AttemptsAssumption
    DEF IInv, TypeOK, InputsChanged, CommandRefused, Solved, SolveFailed, SolveStopped, Record, RecordRefused,
        PublishRefused, At, GoTo, store, pool, dispatcher, process
<1>1. TypeOK'
  BY DEF PC, CommandStatus, ThreadsInv
<1>2. ThreadsInv'
  BY DEF ThreadsInv, Running, SingleFlight, DispatchInv
<1>3. DispatchInv'
  BY DEF DispatchInv, SingleFlight, ThreadsInv, Terminal
<1>4. RowsInv'
  BY DEF RowsInv, ThreadsInv, DispatchInv, FuturesInv, Terminal
<1>5. FuturesInv'
  BY DEF FuturesInv, RowsInv, DispatchInv, ThreadsInv, SingleFlight, Terminal
<1>6. CompletedIffPublished'
  BY DEF CompletedIffPublished, DispatchInv, Terminal, ThreadsInv
<1>7. CommandTellsPublication'
  BY DEF CommandTellsPublication, CompletedIffPublished, DispatchInv, ThreadsInv, Terminal
<1> QED BY <1>1, <1>2, <1>3, <1>4, <1>5, <1>6, <1>7

LEMMA HeartbeatStep ==
  ASSUME IInv, NEW w \in Workers, Heartbeat(w)
  PROVE  IInv'
<1> USE JobsAssumption, WorkersAssumption, AttemptsAssumption
    DEF IInv, TypeOK, Heartbeat, At, store, pool, dispatcher, process
<1>0. /\ row' \in [Jobs -> Row]
      /\ \A k \in Jobs :
         /\ row'[k].gen = row[k].gen /\ row'[k].owner = row[k].owner
         /\ row'[k].status = row[k].status
  BY OwnerKept DEF ThreadsInv
<1>1. TypeOK'
  BY <1>0 DEF PC, CommandStatus, ThreadsInv
<1>2. ThreadsInv'
  BY <1>0 DEF ThreadsInv, Running, SingleFlight, DispatchInv
<1>3. DispatchInv'
  BY <1>0 DEF DispatchInv, SingleFlight, ThreadsInv, Terminal
<1>4. RowsInv'
  BY <1>0 DEF RowsInv, ThreadsInv, DispatchInv, FuturesInv, Terminal
<1>5. FuturesInv'
  BY <1>0 DEF FuturesInv, RowsInv, DispatchInv, ThreadsInv, SingleFlight, Terminal
<1>6. CompletedIffPublished'
  BY <1>0 DEF CompletedIffPublished, DispatchInv, Terminal, ThreadsInv
<1>7. CommandTellsPublication'
  BY <1>0 DEF CommandTellsPublication, CompletedIffPublished, DispatchInv, ThreadsInv, Terminal
<1> QED BY <1>1, <1>2, <1>3, <1>4, <1>5, <1>6, <1>7

LEMMA PublishStep ==
  ASSUME IInv, NEW w \in Workers, Publish(w)
  PROVE  IInv'
<1> USE JobsAssumption, WorkersAssumption, AttemptsAssumption
    DEF IInv, TypeOK, Publish, At, GoTo, HasAuthority, store, pool, dispatcher, process
<1>0. /\ on[w] \in Jobs
      /\ row' \in [Jobs -> Row]
      /\ row'[on[w]].status = "COMPLETED" /\ row'[on[w]].gen = row[on[w]].gen
      /\ row'[on[w]].owner = NoWorker
      /\ \A k \in Jobs : k # on[w] => row'[k] = row[k]
  BY ReleasedRow DEF ThreadsInv, Released, Status, Terminal
<1>1. TypeOK'
  BY <1>0 DEF PC, CommandStatus, ThreadsInv
<1>2. ThreadsInv'
  BY <1>0 DEF ThreadsInv, Running, SingleFlight, DispatchInv
<1>3. DispatchInv'
  BY <1>0 DEF DispatchInv, SingleFlight, ThreadsInv, Terminal
<1>4. RowsInv'
  BY <1>0 DEF RowsInv, ThreadsInv, DispatchInv, FuturesInv, Terminal
<1>5. FuturesInv'
  BY <1>0 DEF FuturesInv, RowsInv, DispatchInv, ThreadsInv, SingleFlight, Terminal
<1>6. CompletedIffPublished'
  BY <1>0 DEF CompletedIffPublished, DispatchInv, Terminal, ThreadsInv
<1>7. CommandTellsPublication'
  BY <1>0 DEF CommandTellsPublication, CompletedIffPublished, DispatchInv, ThreadsInv, Terminal
<1> QED BY <1>1, <1>2, <1>3, <1>4, <1>5, <1>6, <1>7

LEMMA UndoCommandStep ==
  ASSUME IInv, NEW w \in Workers, UndoCommand(w)
  PROVE  IInv'
<1> USE JobsAssumption, WorkersAssumption, AttemptsAssumption
    DEF IInv, TypeOK, UndoCommand, At, GoTo, CommandTerminal, store, pool, dispatcher, process
<1>1. TypeOK'
  BY DEF PC, CommandStatus, ThreadsInv
<1>2. ThreadsInv'
  BY DEF ThreadsInv, Running, SingleFlight, DispatchInv
<1>3. DispatchInv'
  BY DEF DispatchInv, SingleFlight, ThreadsInv, Terminal
<1>4. RowsInv'
  BY DEF RowsInv, ThreadsInv, DispatchInv, FuturesInv, Terminal
<1>5. FuturesInv'
  BY DEF FuturesInv, RowsInv, DispatchInv, ThreadsInv, SingleFlight, Terminal
<1>6. CompletedIffPublished'
  BY DEF CompletedIffPublished, DispatchInv, Terminal, ThreadsInv
<1>7. CommandTellsPublication'
  BY DEF CommandTellsPublication, CompletedIffPublished, DispatchInv, ThreadsInv, Terminal
<1> QED BY <1>1, <1>2, <1>3, <1>4, <1>5, <1>6, <1>7

LEMMA FinishStep ==
  ASSUME IInv, NEW w \in Workers, Finish(w)
  PROVE  IInv'
<1> USE JobsAssumption, WorkersAssumption, AttemptsAssumption
    DEF IInv, TypeOK, Finish, Leave, store, pool, dispatcher, process
<1>0. /\ on[w] \in Jobs
      /\ row' \in [Jobs -> Row]
      /\ row'[on[w]].gen = row[on[w]].gen
      /\ \/ row'[on[w]] = row[on[w]]
         \/ /\ row[on[w]].status = "RUNNING" /\ row'[on[w]].owner = NoWorker
            /\ \/ row'[on[w]].status = "FAILED"
               \/ row'[on[w]].status = "INTERRUPTED" /\ phase = "stopping"
         \/ /\ row[on[w]].status = "CANCEL_REQUESTED" /\ row'[on[w]].status = "CANCELLED"
            /\ row'[on[w]].owner = NoWorker
      /\ \A k \in Jobs : k # on[w] => row'[k] = row[k]
  <2>1. on[w] \in Jobs /\ gen[w] \in Nat /\ row[on[w]] \in Row
    BY DEF ThreadsInv
  <2>2. row[on[w]].status \notin {"RUNNING", "CANCEL_REQUESTED"} => row[on[w]].owner = NoWorker
    BY <2>1 DEF RowsInv
  <2>3. ReportedStatus(pc[w]) \in {"COMPLETED", "FAILED", "INTERRUPTED"}
    BY DEF ReportedStatus
  <2>4. pc[w] = "finish" => row[on[w]].status = "COMPLETED"
    BY DEF ThreadsInv
  <2>5. pc[w] = "interrupt" => phase = "stopping"
    BY DEF ThreadsInv
  <2>6. ReportedStatus(pc[w]) = "COMPLETED" => pc[w] = "finish"
    BY DEF ReportedStatus
  <2>7. ReportedStatus(pc[w]) = "INTERRUPTED" => pc[w] = "interrupt"
    BY DEF ReportedStatus
  <2> HIDE DEF ReportedStatus
  <2> DEFINE after == AfterFinish(row[on[w]], w, gen[w], ReportedStatus(pc[w]))
  <2>8. row' = [row EXCEPT ![on[w]] = after]
    OBVIOUS
  <2>9. /\ after \in Row /\ after.gen = row[on[w]].gen
        /\ \/ after = row[on[w]]
           \/ /\ row[on[w]].status = "RUNNING" /\ after.status = ReportedStatus(pc[w])
              /\ after.owner = NoWorker
           \/ /\ row[on[w]].status = "CANCEL_REQUESTED" /\ after.status = "CANCELLED"
              /\ after.owner = NoWorker
    BY <2>1, <2>2, <2>3, FinishedRow
  <2> HIDE DEF after
  <2> QED BY <2>1, <2>3, <2>4, <2>5, <2>6, <2>7, <2>8, <2>9
<1>1. TypeOK'
  BY <1>0 DEF PC, CommandStatus, ThreadsInv
<1>2. ThreadsInv'
  BY <1>0 DEF ThreadsInv, Running, SingleFlight, DispatchInv
<1>3. DispatchInv'
  BY <1>0 DEF DispatchInv, SingleFlight, ThreadsInv, Terminal
<1>4. RowsInv'
  BY <1>0 DEF RowsInv, ThreadsInv, DispatchInv, FuturesInv, Terminal
<1>5. FuturesInv'
  BY <1>0 DEF FuturesInv, RowsInv, DispatchInv, ThreadsInv, SingleFlight, Terminal
<1>6. CompletedIffPublished'
  BY <1>0 DEF CompletedIffPublished, DispatchInv, Terminal, ThreadsInv
<1>7. CommandTellsPublication'
  BY <1>0 DEF CommandTellsPublication, CompletedIffPublished, DispatchInv, ThreadsInv, Terminal
<1> QED BY <1>1, <1>2, <1>3, <1>4, <1>5, <1>6, <1>7

LEMMA TickStep ==
  ASSUME IInv, Tick
  PROVE  IInv'
<1> USE JobsAssumption, WorkersAssumption, AttemptsAssumption
    DEF IInv, TypeOK, Tick, store, pool, dispatcher, process
<1>0. /\ row' \in [Jobs -> Row]
      /\ \A k \in Jobs :
         /\ row'[k].gen = row[k].gen /\ row'[k].owner = row[k].owner
         /\ row'[k].status = row[k].status
  BY OwnerKept
<1>1. TypeOK'
  BY <1>0 DEF PC, CommandStatus, ThreadsInv
<1>2. ThreadsInv'
  BY <1>0 DEF ThreadsInv, Running, SingleFlight, DispatchInv
<1>3. DispatchInv'
  BY <1>0 DEF DispatchInv, SingleFlight, ThreadsInv, Terminal
<1>4. RowsInv'
  BY <1>0 DEF RowsInv, ThreadsInv, DispatchInv, FuturesInv, Terminal
<1>5. FuturesInv'
  BY <1>0 DEF FuturesInv, RowsInv, DispatchInv, ThreadsInv, SingleFlight, Terminal
<1>6. CompletedIffPublished'
  BY <1>0 DEF CompletedIffPublished, DispatchInv, Terminal, ThreadsInv
<1>7. CommandTellsPublication'
  BY <1>0 DEF CommandTellsPublication, CompletedIffPublished, DispatchInv, ThreadsInv, Terminal
<1> QED BY <1>1, <1>2, <1>3, <1>4, <1>5, <1>6, <1>7

LEMMA ProcessStep ==
  ASSUME IInv, Shutdown \/ Exited \/ Crash
  PROVE  IInv'
<1> USE JobsAssumption, WorkersAssumption, AttemptsAssumption
    DEF IInv, TypeOK, Shutdown, Exited, Crash, store, pool, dispatcher, process
<1>1. TypeOK'
  BY DEF PC, CommandStatus, ThreadsInv
<1>2. ThreadsInv'
  BY DEF ThreadsInv, Running, SingleFlight, DispatchInv
<1>3. DispatchInv'
  BY DEF DispatchInv, SingleFlight, ThreadsInv, Terminal
<1>4. RowsInv'
  BY DEF RowsInv, ThreadsInv, DispatchInv, FuturesInv, Terminal
<1>5. FuturesInv'
  BY DEF FuturesInv, RowsInv, DispatchInv, ThreadsInv, SingleFlight, Terminal
<1>6. CompletedIffPublished'
  BY DEF CompletedIffPublished, DispatchInv, Terminal, ThreadsInv
<1>7. CommandTellsPublication'
  BY DEF CommandTellsPublication, CompletedIffPublished, DispatchInv, ThreadsInv, Terminal
<1> QED BY <1>1, <1>2, <1>3, <1>4, <1>5, <1>6, <1>7

LEMMA DropFutureStep ==
  ASSUME IInv, NEW w \in Workers, DropFuture(w)
  PROVE  IInv'
<1> USE JobsAssumption, WorkersAssumption, AttemptsAssumption
    DEF IInv, TypeOK, DropFuture, Leave, store, pool, dispatcher, process
<1>1. TypeOK'
  BY DEF PC, CommandStatus, ThreadsInv
<1>2. ThreadsInv'
  BY DEF ThreadsInv, Running, SingleFlight, DispatchInv
<1>3. DispatchInv'
  BY DEF DispatchInv, SingleFlight, ThreadsInv, Terminal
<1>4. RowsInv'
  BY DEF RowsInv, ThreadsInv, DispatchInv, FuturesInv, Terminal
<1>5. FuturesInv'
  BY DEF FuturesInv, RowsInv, DispatchInv, ThreadsInv, SingleFlight, Terminal
<1>6. CompletedIffPublished'
  BY DEF CompletedIffPublished, DispatchInv, Terminal, ThreadsInv
<1>7. CommandTellsPublication'
  BY DEF CommandTellsPublication, CompletedIffPublished, DispatchInv, ThreadsInv, Terminal
<1> QED BY <1>1, <1>2, <1>3, <1>4, <1>5, <1>6, <1>7

LEMMA RestartStep ==
  ASSUME IInv, Restart
  PROVE  IInv'
<1> USE JobsAssumption, WorkersAssumption, AttemptsAssumption
    DEF IInv, TypeOK, Restart, RecoveredCommand, store, pool, dispatcher, process
<1>0. /\ row' \in [Jobs -> Row]
      /\ \A k \in Jobs : row[k].gen \in Nat
      /\ \A k \in Jobs :
         /\ row'[k].gen = row[k].gen
         /\ row'[k].owner = IF row[k].status \in {"RUNNING", "CANCEL_REQUESTED"} THEN NoWorker ELSE row[k].owner
         /\ row'[k].status = IF row[k].status = "RUNNING" THEN "INTERRUPTED"
              ELSE IF row[k].status = "CANCEL_REQUESTED" THEN "CANCELLED" ELSE row[k].status
  BY RecoveredRow DEF Row
<1>1. TypeOK'
  BY <1>0 DEF PC, CommandStatus, ThreadsInv
<1>2. ThreadsInv'
  BY <1>0 DEF ThreadsInv, Running, SingleFlight, DispatchInv
<1>3. DispatchInv'
  BY <1>0 DEF DispatchInv, SingleFlight, ThreadsInv, Terminal
<1>4. RowsInv'
  BY <1>0 DEF RowsInv, ThreadsInv, DispatchInv, FuturesInv, Terminal
<1>5. FuturesInv'
  BY <1>0 DEF FuturesInv, RowsInv, DispatchInv, ThreadsInv, SingleFlight, Terminal
<1>6. CompletedIffPublished'
  BY <1>0 DEF CompletedIffPublished, DispatchInv, Terminal, ThreadsInv
<1>7. CommandTellsPublication'
  BY <1>0 DEF CommandTellsPublication, CompletedIffPublished, DispatchInv, ThreadsInv, Terminal
<1> QED BY <1>1, <1>2, <1>3, <1>4, <1>5, <1>6, <1>7

-----------------------------------------------------------------------------
(* The theorems.                                                           *)

LEMMA IInvPreserved == IInv /\ [Next]_vars => IInv'
<1> SUFFICES ASSUME IInv, [Next]_vars PROVE IInv'
  OBVIOUS
<1>1. ASSUME NEW j \in Jobs, Client(j) PROVE IInv'
  BY <1>1, EnqueueStep, RequestCancelStep DEF Client
<1>2. CASE Dispatch
  BY <1>2, PruneStep, ReapExpiredStep, ListRecoverableStep, EndRoundStep, SkipStep, SubmitStep
  DEF Dispatch
<1>3. ASSUME NEW w \in Workers, Attempt(w) PROVE IInv'
  BY <1>3, ClaimStep, ClaimRefusedStep, ReserveCommandStep, MoveStep, PublishStep,
     UndoCommandStep, FinishStep
  DEF Attempt, SolveEnds
<1>4. ASSUME NEW w \in Workers, Heartbeat(w) \/ DropFuture(w) PROVE IInv'
  BY <1>4, HeartbeatStep, DropFutureStep
<1>5. CASE Tick \/ Shutdown \/ Exited \/ Crash \/ Restart
  BY <1>5, TickStep, ProcessStep, RestartStep
<1>6. CASE UNCHANGED vars
  BY <1>6 DEF vars, store, pool, dispatcher, process, IInv, TypeOK, ThreadsInv, DispatchInv,
     SingleFlight, RowsInv, FuturesInv, CompletedIffPublished, CommandTellsPublication
<1> QED BY <1>1, <1>2, <1>3, <1>4, <1>5, <1>6 DEF Next

\* At the limit the reaper fails the job, and a thread interrupts its attempt only
\* in a process that is stopping.
LEMMA LimitStep ==
  ASSUME IInv, [Next]_vars
  PROVE  [\A j \in Jobs :
            phase = "up" /\ row[j].status = "RUNNING" /\ row[j].gen >= MaxAttempts =>
              row'[j].status # "INTERRUPTED"]_vars
<1> SUFFICES ASSUME Next, NEW j \in Jobs,
                    phase = "up", row[j].status = "RUNNING", row[j].gen >= MaxAttempts
             PROVE  row'[j].status # "INTERRUPTED"
  OBVIOUS
<1> USE AttemptsAssumption DEF IInv, TypeOK, store, pool, dispatcher, process
<1>0. row \in [Jobs -> Row] /\ row[j].gen \in Nat
  BY DEF Row
<1>1. ASSUME NEW k \in Jobs, Client(k) PROVE row'[j].status # "INTERRUPTED"
  BY <1>0, <1>1 DEF Client, Enqueue, RequestCancel, QueuedRow, AbsentRow, Cancelled, Row
<1>2. CASE ReapExpired
  <2>1. row'[j] = Reaped(row[j])
    BY <1>2 DEF ReapExpired
  <2> QED BY <1>0, <2>1, ReapedRow
<1>3. CASE Prune \/ ListRecoverable \/ EndRound
  BY <1>3 DEF Prune, ListRecoverable, EndRound
<1>4. ASSUME NEW k \in Jobs, Skip(k) \/ \E w \in Workers : Submit(k, w)
      PROVE  row'[j].status # "INTERRUPTED"
  BY <1>4 DEF Skip, Submit
<1>5. ASSUME NEW w \in Workers, Claim(w) \/ Publish(w) \/ Heartbeat(w)
      PROVE  row'[j].status # "INTERRUPTED"
  BY <1>0, <1>5 DEF Claim, Publish, Heartbeat, Claimed, Released, Extended, Row
<1>6. ASSUME NEW w \in Workers, Finish(w) PROVE row'[j].status # "INTERRUPTED"
  <2>1. pc[w] \in {"finish", "failing"}
    BY <1>6 DEF Finish, ThreadsInv
  <2>2. ReportedStatus(pc[w]) \in {"COMPLETED", "FAILED"}
    BY <2>1 DEF ReportedStatus
  <2>3. row' = [row EXCEPT ![on[w]] = AfterFinish(@, w, gen[w], ReportedStatus(pc[w]))]
    BY <1>6 DEF Finish
  <2> HIDE DEF ReportedStatus
  <2> QED BY <1>0, <2>2, <2>3 DEF AfterFinish, FinalStatus, Released
<1>7. ASSUME NEW w \in Workers,
             \/ ClaimRefused(w) \/ InputsChanged(w) \/ ReserveCommand(w) \/ CommandRefused(w)
             \/ SolveEnds(w) \/ Record(w) \/ RecordRefused(w) \/ PublishRefused(w)
             \/ UndoCommand(w) \/ DropFuture(w)
      PROVE  row'[j].status # "INTERRUPTED"
  BY <1>7 DEF ClaimRefused, InputsChanged, ReserveCommand, CommandRefused, SolveEnds, Solved,
              SolveFailed, SolveStopped, Record, RecordRefused, PublishRefused, UndoCommand, DropFuture
<1>8. CASE Tick
  BY <1>0, <1>8 DEF Tick, Aged, Row
<1>9. CASE Shutdown \/ Exited \/ Crash \/ Restart
  BY <1>9 DEF Shutdown, Exited, Crash, Restart
<1> QED BY <1>1, <1>2, <1>3, <1>4, <1>5, <1>6, <1>7, <1>8, <1>9 DEF Next, Dispatch, Attempt

\* Every behaviour of the runtime stays inside the inductive invariant.
THEOREM IInvHolds == Spec => []IInv
BY InitIInv, IInvPreserved, PTL DEF Spec

\* Rows, commands, threads and the dispatcher keep their types.
THEOREM TypeCorrect == Spec => []TypeOK
BY IInvHolds, PTL DEF IInv

\* _dispatch_jobs never has two threads on one job, for any number of threads.
THEOREM OneThreadPerJob == Spec => []SingleFlight
<1>1. IInv => SingleFlight
  BY DEF IInv, DispatchInv
<1> QED BY <1>1, IInvHolds, PTL

\* At most MaxAttempts attempts and one more per stop of the process.  The extra
\* one is _recover_runtime_owned's, which requeues a RUNNING row whatever its
\* attempt: while the process is up nothing requeues a job at the limit.
THEOREM AttemptsAreBounded == Spec => []AttemptsBounded /\ GivesUpAtLimit
<1>1. IInv => AttemptsBounded
  BY DEF IInv, RowsInv, AttemptsBounded
<1>2. IInv /\ [Next]_vars => [\A j \in Jobs :
        phase = "up" /\ row[j].status = "RUNNING" /\ row[j].gen >= MaxAttempts =>
          row'[j].status # "INTERRUPTED"]_vars
  BY LimitStep
<1> QED BY <1>1, <1>2, IInvHolds, PTL DEF Spec, GivesUpAtLimit

\* The commit of a plan and of its job are one: a job is COMPLETED exactly if it
\* published, and then exactly one plan.
THEOREM OnePlanPerCompletedJob == Spec => []CompletedIffPublished
BY IInvHolds, PTL DEF IInv

\* The command record of a keyed job is COMPLETED exactly when the job is.
THEOREM CommandAgrees == Spec => []CommandTellsPublication
BY IInvHolds, PTL DEF IInv

-----------------------------------------------------------------------------
(* The lane of long jobs.                                                  *)

\* The dispatcher counts its futures, not the threads.
LaneInv ==
  /\ IsFiniteSet(pending \cap LongJobs)
  /\ Cardinality(pending \cap LongJobs) <= LongLanes

LEMMA LaneStep ==
  ASSUME IInv, LaneInv, [Next]_vars
  PROVE  LaneInv'
<1>1. ASSUME pending' \subseteq pending PROVE LaneInv'
  <2>1. pending' \cap LongJobs \in SUBSET (pending \cap LongJobs)
    BY <1>1
  <2>2. /\ IsFiniteSet(pending' \cap LongJobs)
        /\ Cardinality(pending' \cap LongJobs) <= Cardinality(pending \cap LongJobs)
    BY <2>1, FS_Subset DEF LaneInv
  <2>3. Cardinality(pending' \cap LongJobs) \in Nat /\ Cardinality(pending \cap LongJobs) \in Nat
    BY <2>2, FS_CardinalityType DEF LaneInv
  <2> QED BY <2>2, <2>3, LanesAssumption DEF LaneInv
<1>2. ASSUME NEW j \in Jobs, NEW w \in Workers, Submit(j, w) PROVE LaneInv'
  <2> DEFINE L == pending \cap LongJobs
  <2>1. CASE j \notin LongJobs
    <3>1. pending' \cap LongJobs = L
      BY <1>2, <2>1 DEF Submit
    <3> QED BY <3>1 DEF LaneInv
  <2>2. CASE j \in LongJobs
    <3>1. pending' \cap LongJobs = L \cup {j}
      BY <1>2, <2>2 DEF Submit
    <3>2. IsFiniteSet(L) /\ Cardinality(L) \in Nat
      BY FS_CardinalityType DEF LaneInv
    <3>3. Cardinality(L) < LongLanes
      BY <1>2, <2>2, <3>2, LanesAssumption DEF Submit, LaneFull
    <3>4. IsFiniteSet(L \cup {j}) /\ Cardinality(L \cup {j}) <= Cardinality(L) + 1
      BY <3>2, FS_AddElement
    <3>5. Cardinality(L \cup {j}) \in Nat
      BY <3>4, FS_CardinalityType
    <3>6. Cardinality(L \cup {j}) <= LongLanes
      BY <3>2, <3>3, <3>4, <3>5, LanesAssumption
    <3> QED BY <3>1, <3>4, <3>6 DEF LaneInv
  <2> QED BY <2>1, <2>2
<1>3. ASSUME NEW j \in Jobs, Client(j) PROVE UNCHANGED pending
  BY <1>3 DEF Client, Enqueue, RequestCancel, dispatcher
<1>4. CASE Prune \/ ReapExpired \/ ListRecoverable \/ EndRound \/ \E j \in Jobs : Skip(j)
  BY <1>1, <1>4 DEF Prune, ReapExpired, ListRecoverable, EndRound, Skip
<1>5. ASSUME NEW w \in Workers, Attempt(w) \/ Heartbeat(w) \/ DropFuture(w) PROVE UNCHANGED pending
  BY <1>5 DEF Attempt, Claim, ClaimRefused, InputsChanged, ReserveCommand, CommandRefused,
              SolveEnds, Solved, SolveFailed, SolveStopped, Record, RecordRefused, Publish,
              PublishRefused, UndoCommand,
              Finish, Heartbeat, DropFuture, dispatcher
<1>6. CASE Tick \/ Shutdown \/ Exited \/ Crash \/ Restart
  BY <1>1, <1>6 DEF Tick, Shutdown, Exited, Crash, Restart, dispatcher
<1>7. CASE UNCHANGED vars
  BY <1>1, <1>7 DEF vars, dispatcher
<1> QED BY <1>1, <1>2, <1>3, <1>4, <1>5, <1>6, <1>7 DEF Next, Dispatch

LEMMA LaneCoversThreads ==
  ASSUME IInv, LaneInv
  PROVE  ShortLaneKept
<1> DEFINE W == {w \in Workers : on[w] \in LongJobs}
           L == pending \cap LongJobs
           f == [w \in W |-> on[w]]
<1>1. \A w \in W : on[w] \in L
  BY JobsAssumption DEF IInv, DispatchInv
<1>2. \A v, w \in W : on[v] = on[w] => v = w
  BY JobsAssumption DEF IInv, DispatchInv, SingleFlight
<1>3. f \in Injection(W, L)
  BY <1>1, <1>2 DEF Injection, IsInjective
<1>4. IsFiniteSet(W) /\ Cardinality(W) <= Cardinality(L)
  BY <1>3, FS_Injection DEF LaneInv
<1>5. Cardinality(W) \in Nat /\ Cardinality(L) \in Nat
  BY <1>4, FS_CardinalityType DEF LaneInv
<1> QED BY <1>4, <1>5, LanesAssumption DEF LaneInv, ShortLaneKept

\* However futures are dropped, jobs reclaimed and lists stale, long jobs never
\* have more than their lanes, for any number of threads.
THEOREM ShortLaneIsKept == Spec => []ShortLaneKept
<1>1. Init => LaneInv
  <2>1. {} \cap LongJobs = {}
    OBVIOUS
  <2> QED BY <2>1, FS_EmptySet, LanesAssumption DEF Init, LaneInv
<1>2. IInv /\ LaneInv /\ [Next]_vars => LaneInv'
  BY LaneStep
<1>3. IInv /\ LaneInv => ShortLaneKept
  BY LaneCoversThreads
<1> QED BY <1>1, <1>2, <1>3, IInvHolds, PTL DEF Spec

\* The dispatcher's three bounds together.
THEOREM JobsAreBounded == Spec => []JobsBounded
BY OneThreadPerJob, ShortLaneIsKept, AttemptsAreBounded, PTL DEF JobsBounded

-----------------------------------------------------------------------------
(* A command that says RUNNING.                                            *)

\* Nobody claims a job that a thread still has: past its claim, what that thread
\* finds RUNNING is its own attempt.
ClaimedInv ==
  \A w \in Workers : pc[w] \notin {"idle", "submitted"} =>
    /\ row[on[w]].status \notin {"ABSENT", "QUEUED"}
    /\ row[on[w]].status = "RUNNING" => row[on[w]].owner = w /\ row[on[w]].gen = gen[w]

\* Who works on a running command.
Works(w, j) == on[w] = j /\ pc[w] \in {"solve", "record", "publish", "undo"}

\* Only keyed jobs have commands.
CommandInv ==
  /\ \A j \in Jobs : cmd[j] # "NONE" => j \in KeyedJobs
  /\ CommandHasOwner

\* A row keeps the invariant as long as it is not started for another thread.
LEMMA ClaimedKept ==
  ASSUME ClaimedInv,
         \A w \in Workers : pc'[w] \notin {"idle", "submitted"} =>
           /\ pc[w] \notin {"idle", "submitted"} /\ on'[w] = on[w] /\ gen'[w] = gen[w]
           /\ row[on[w]].status \notin {"ABSENT", "QUEUED"} =>
                row'[on[w]].status \notin {"ABSENT", "QUEUED"}
           /\ row'[on[w]].status = "RUNNING" =>
                /\ row[on[w]].status = "RUNNING" /\ row'[on[w]].owner = row[on[w]].owner
                /\ row'[on[w]].gen = row[on[w]].gen
  PROVE  ClaimedInv'
BY DEF ClaimedInv

LEMMA ClaimedStep ==
  ASSUME IInv, ClaimedInv, [Next]_vars
  PROVE  ClaimedInv'
<1> USE DEF At
<1>0. /\ row \in [Jobs -> Row]
      /\ pc \in [Workers -> PC] /\ on \in [Workers -> Jobs \cup {NoJob}] /\ gen \in [Workers -> Nat]
      /\ \A v, w \in Workers : on[v] = on[w] /\ on[v] # NoJob => v = w
      /\ \A w \in Workers : pc[w] # "idle" => on[w] \in Jobs
  BY DEF IInv, TypeOK, DispatchInv, SingleFlight, ThreadsInv
<1>1. ASSUME NEW j \in Jobs, Enqueue(j) PROVE ClaimedInv'
  <2>1. /\ UNCHANGED <<pc, on, gen>> /\ row' = [row EXCEPT ![j] = QueuedRow]
        /\ row[j].status = "ABSENT"
    BY <1>1 DEF Enqueue, pool
  <2> QED BY <1>0, <2>1 DEF ClaimedInv
<1>2. ASSUME NEW j \in Jobs, RequestCancel(j) PROVE ClaimedInv'
  <2>1. /\ UNCHANGED <<pc, on, gen>> /\ row' = [row EXCEPT ![j] = Cancelled(row[j])]
        /\ Cancelled(row[j]).status \in {"CANCEL_REQUESTED", "CANCELLED"}
    BY <1>0, <1>2, OwnerKept DEF RequestCancel, pool
  <2> QED BY <1>0, <2>1, ClaimedKept
<1>3. CASE ReapExpired
  <2>1. UNCHANGED <<pc, on, gen>> /\ \A j \in Jobs : row'[j] = Reaped(row[j])
    BY <1>3 DEF ReapExpired, pool
  <2>2. ASSUME NEW j \in Jobs
        PROVE  \/ row'[j] = row[j]
               \/ row'[j].status \in {"CANCELLED", "FAILED", "INTERRUPTED"}
    BY <1>0, <2>1, ReapedRow
  <2> QED BY <1>0, <2>1, <2>2, ClaimedKept
<1>4. CASE Prune \/ ListRecoverable \/ EndRound \/ \E j \in Jobs : Skip(j)
  BY <1>4, ClaimedKept DEF Prune, ListRecoverable, EndRound, Skip, store, pool
<1>5. ASSUME NEW j \in Jobs, NEW w \in Workers, Submit(j, w) PROVE ClaimedInv'
  <2>1. /\ UNCHANGED <<row, gen>> /\ pc'[w] = "submitted"
        /\ \A v \in Workers : v # w => pc'[v] = pc[v] /\ on'[v] = on[v]
    BY <1>0, <1>5 DEF Submit, store
  <2> QED BY <2>1, ClaimedKept
<1>6. ASSUME NEW w \in Workers, Claim(w) PROVE ClaimedInv'
  <2>1. /\ on' = on /\ on[w] \in Jobs /\ gen'[w] = row[on[w]].gen + 1
        /\ \A v \in Workers : v # w => pc'[v] = pc[v] /\ gen'[v] = gen[v]
        /\ row' = [row EXCEPT ![on[w]] = Claimed(row[on[w]], w)]
    BY <1>0, <1>6 DEF Claim
  <2>2. \A v \in Workers : v # w /\ pc[v] # "idle" => row'[on[v]] = row[on[v]]
    BY <1>0, <2>1, JobsAssumption
  <2>3. /\ row'[on[w]].status = "RUNNING" /\ row'[on[w]].owner = w
        /\ row'[on[w]].gen = gen'[w]
    BY <1>0, <2>1 DEF Claimed
  <2> QED BY <2>1, <2>2, <2>3 DEF ClaimedInv
<1>7. ASSUME NEW w \in Workers,
             \/ InputsChanged(w) \/ ReserveCommand(w) \/ CommandRefused(w) \/ SolveEnds(w)
             \/ Record(w) \/ RecordRefused(w) \/ PublishRefused(w) \/ UndoCommand(w)
      PROVE  ClaimedInv'
  <2>1. /\ UNCHANGED <<row, on, gen>> /\ pc[w] \notin {"idle", "submitted"}
        /\ \A v \in Workers : v # w => pc'[v] = pc[v]
    BY <1>0, <1>7 DEF InputsChanged, ReserveCommand, CommandRefused, SolveEnds, Solved, SolveFailed,
       SolveStopped, Record, RecordRefused, PublishRefused, UndoCommand, GoTo, store
  <2> QED BY <2>1, ClaimedKept
<1>8. ASSUME NEW w \in Workers, Publish(w) PROVE ClaimedInv'
  <2>1. /\ UNCHANGED <<on, gen>> /\ pc[w] \notin {"idle", "submitted"}
        /\ \A v \in Workers : v # w => pc'[v] = pc[v]
        /\ row' = [row EXCEPT ![on[w]] = Released(row[on[w]], "COMPLETED")]
    BY <1>0, <1>8 DEF Publish, GoTo
  <2>2. Released(row[on[w]], "COMPLETED").status = "COMPLETED"
    BY DEF Released
  <2> QED BY <1>0, <2>1, <2>2, ClaimedKept
<1>9. ASSUME NEW w \in Workers, Finish(w) PROVE ClaimedInv'
  <2>1. /\ pc'[w] = "idle" /\ on[w] \in Jobs
        /\ \A v \in Workers : v # w => pc'[v] = pc[v] /\ on'[v] = on[v] /\ gen'[v] = gen[v]
        /\ \A k \in Jobs : k # on[w] => row'[k] = row[k]
    BY <1>0, <1>9 DEF Finish, Leave
  <2>2. \A v \in Workers : v # w /\ pc[v] # "idle" => row'[on[v]] = row[on[v]]
    BY <1>0, <2>1, JobsAssumption
  <2> QED BY <2>1, <2>2, ClaimedKept
<1>10. ASSUME NEW w \in Workers, ClaimRefused(w) \/ DropFuture(w) PROVE ClaimedInv'
  <2>1. /\ row' = row /\ pc'[w] = "idle"
        /\ \A v \in Workers : v # w => pc'[v] = pc[v] /\ on'[v] = on[v] /\ gen'[v] = gen[v]
    BY <1>0, <1>10 DEF ClaimRefused, DropFuture, Leave, store
  <2> QED BY <2>1, ClaimedKept
<1>11. ASSUME NEW w \in Workers, Heartbeat(w) PROVE ClaimedInv'
  <2>1. /\ UNCHANGED <<pc, on, gen>> /\ on[w] \in Jobs
        /\ row' = [row EXCEPT ![on[w]] = Extended(row[on[w]])]
    BY <1>0, <1>11 DEF Heartbeat, pool
  <2>2. \A k \in Jobs : /\ row'[k].status = row[k].status
                        /\ row'[k].owner = row[k].owner /\ row'[k].gen = row[k].gen
    BY <1>0, <2>1, OwnerKept
  <2> QED BY <1>0, <2>1, <2>2, ClaimedKept
<1>12. CASE Tick
  <2>1. UNCHANGED <<pc, on, gen>> /\ \A k \in Jobs : row'[k] = Aged(row[k])
    BY <1>12 DEF Tick, pool
  <2>2. \A k \in Jobs : /\ row'[k].status = row[k].status
                        /\ row'[k].owner = row[k].owner /\ row'[k].gen = row[k].gen
    BY <1>0, <2>1, OwnerKept
  <2> QED BY <1>0, <2>1, <2>2, ClaimedKept
<1>13. CASE Shutdown \/ Exited
  BY <1>13, ClaimedKept DEF Shutdown, Exited, store, pool
<1>14. CASE Crash
  BY <1>14 DEF Crash, ClaimedInv
<1>15. CASE Restart
  BY <1>15 DEF Restart, ClaimedInv, IInv, ThreadsInv, pool
<1>16. CASE UNCHANGED vars
  BY <1>16, ClaimedKept DEF vars, store, pool
<1> QED BY <1>1, <1>2, <1>3, <1>4, <1>5, <1>6, <1>7, <1>8, <1>9, <1>10, <1>11, <1>12, <1>13, <1>14,
           <1>15, <1>16 DEF Next, Client, Dispatch, Attempt

LEMMA CommandKept ==
  ASSUME IInv, CommandInv, phase' = "up" => phase = "up", UNCHANGED cmd,
         \A w \in Workers, j \in Jobs : Works(w, j) => Works(w, j)',
         \A j \in Jobs : phase = "up" /\ cmd[j] = "RUNNING" /\ Abandoned(j) => Abandoned(j)'
  PROVE  CommandInv'
BY DEF CommandInv, CommandHasOwner, Works

\* Refused, a replan leaves its command to nobody: its attempt was cancelled,
\* reaped, or lost its lease.
LEMMA RefusedIsAbandoned ==
  ASSUME IInv, CommandInv, ClaimedInv, NEW w \in Workers, RecordRefused(w)
  PROVE  CommandInv'
<1>0. /\ pc \in [Workers -> PC] /\ on[w] \in Jobs /\ row[on[w]] \in Row
      /\ pc[w] = "record" /\ UNCHANGED <<row, cmd, on, phase>>
      /\ pc'[w] = IF on[w] \in ReplanJobs THEN "failing" ELSE "undo"
      /\ \A v \in Workers : v # w => pc'[v] = pc[v]
  BY DEF IInv, TypeOK, ThreadsInv, RecordRefused, At, GoTo, store, process
<1>1. \A j \in Jobs : Abandoned(j) => Abandoned(j)'
  BY <1>0 DEF Abandoned
<1>2. CASE on[w] \notin ReplanJobs
  <2>1. \A v \in Workers, j \in Jobs : Works(v, j) => Works(v, j)'
    BY <1>0, <1>2 DEF Works
  <2> QED BY <1>0, <1>1, <2>1, CommandKept
<1>3. CASE on[w] \in ReplanJobs
  <2>1. Abandoned(on[w])'
    BY <1>0, <1>3 DEF Abandoned
  <2>2. \A v \in Workers, j \in Jobs : j # on[w] /\ Works(v, j) => Works(v, j)'
    BY <1>0 DEF Works
  <2> QED BY <1>0, <1>1, <1>3, <2>1, <2>2 DEF CommandInv, CommandHasOwner, Works
<1> QED BY <1>2, <1>3

\* A thread that reports a failure leaves an abandoned job behind.
LEMMA FinishIsAbandoned ==
  ASSUME IInv, CommandInv, ClaimedInv, NEW w \in Workers, Finish(w), phase = "up",
         NEW j \in Jobs, cmd[j] = "RUNNING", Abandoned(j)
  PROVE  Abandoned(j)'
<1>0. /\ row \in [Jobs -> Row] /\ on[w] \in Jobs /\ gen[w] \in Nat
      /\ pc[w] \in {"finish", "failing"}
      /\ row' = [row EXCEPT ![on[w]] = AfterFinish(@, w, gen[w], ReportedStatus(pc[w]))]
      /\ \A v \in Workers : v # w => pc'[v] = pc[v] /\ on'[v] = on[v]
      /\ row[on[w]].status \notin {"ABSENT", "QUEUED"}
      /\ row[on[w]].status = "RUNNING" => row[on[w]].owner = w /\ row[on[w]].gen = gen[w]
  BY DEF IInv, TypeOK, ThreadsInv, ClaimedInv, Finish, Leave
<1>1. CASE j # on[w]
  BY <1>0, <1>1 DEF Abandoned
<1>2. CASE j = on[w]
  <2>1. row[j].status # "COMPLETED"
    BY DEF IInv, CommandInv, CommandTellsPublication
  <2>2. pc[w] = "failing"
    BY <1>0, <1>2, <2>1 DEF IInv, ThreadsInv
  <2>3. row'[j] = AfterFinish(row[j], w, gen[w], "FAILED")
    BY <1>0, <1>2, <2>2 DEF ReportedStatus
  <2>4. CASE Finishes(row[j], w, gen[w])
    BY <1>0, <2>3, <2>4 DEF AfterFinish, Released, FinalStatus, Abandoned
  <2>5. CASE ~Finishes(row[j], w, gen[w])
    <3>1. row'[j] = row[j] /\ row[j] \in Row
      BY <1>0, <2>3, <2>5 DEF AfterFinish
    <3>2. row[j].status = "RUNNING" => row[j].lease <= 0
      BY <1>0, <1>2, <2>5, <3>1 DEF Finishes, HoldsLease, Terminal, Row
    <3>3. row[j].status \in {"CANCEL_REQUESTED", "CANCELLED", "INTERRUPTED", "FAILED", "RUNNING"}
      BY <1>0, <1>2, <2>1, <3>1 DEF Row, Status, ActiveStatus, Terminal
    <3> QED BY <3>1, <3>2, <3>3 DEF Abandoned
  <2> QED BY <2>4, <2>5
<1> QED BY <1>1, <1>2

LEMMA AttemptKeepsCommand ==
  ASSUME IInv, CommandInv, ClaimedInv, NEW w \in Workers, Attempt(w)
  PROVE  CommandInv'
<1> USE DEF At
<1>0. /\ pc \in [Workers -> PC] /\ on \in [Workers -> Jobs \cup {NoJob}] /\ cmd \in [Jobs -> CommandStatus]
      /\ row \in [Jobs -> Row]
      /\ \A v \in Workers : on[v] = on[w] /\ on[v] # NoJob => v = w
      /\ pc[w] # "idle" => on[w] \in Jobs
  BY DEF IInv, TypeOK, DispatchInv, SingleFlight, ThreadsInv
<1>1. CASE Claim(w) \/ ClaimRefused(w) \/ InputsChanged(w) \/ CommandRefused(w) \/ Finish(w)
  <2>1. pc[w] \notin {"solve", "record", "publish", "undo"} /\ UNCHANGED <<cmd, phase>>
        /\ \A v \in Workers : v # w => pc'[v] = pc[v] /\ on'[v] = on[v]
    BY <1>0, <1>1 DEF Claim, ClaimRefused, InputsChanged, CommandRefused, Finish, GoTo, Leave, store, process
  <2>2. CASE Claim(w)
    <3>1. /\ on' = on /\ pc'[w] = "begin" /\ pc[w] = "submitted" /\ on[w] \in Jobs
          /\ \A j \in Jobs : j # on[w] => row'[j] = row[j]
      BY <1>0, <2>2 DEF Claim
    <3>2. \A j \in Jobs : Abandoned(j) => Abandoned(j)'
      BY <2>1, <3>1 DEF Abandoned
    <3> QED BY <2>1, <3>2, CommandKept DEF Works
  <2>3. CASE ClaimRefused(w) \/ InputsChanged(w) \/ CommandRefused(w)
    <3>1. /\ row' = row
          /\ \/ pc[w] = "submitted"
             \/ pc[w] = "begin" /\ pc'[w] = "failing" /\ on'[w] = on[w]
      BY <1>0, <2>3 DEF ClaimRefused, InputsChanged, CommandRefused, GoTo, store
    <3>2. \A j \in Jobs : Abandoned(j) => Abandoned(j)'
      BY <2>1, <3>1 DEF Abandoned
    <3> QED BY <2>1, <3>2, CommandKept DEF Works
  <2>4. CASE Finish(w)
    BY <2>1, <2>4, FinishIsAbandoned, CommandKept DEF Works
  <2> QED BY <1>1, <2>2, <2>3, <2>4
<1>2. CASE Solved(w) \/ SolveFailed(w) \/ Record(w) \/ PublishRefused(w)
  <2>1. pc'[w] \in {"record", "publish", "undo"} /\ UNCHANGED <<row, cmd, phase, on>>
        /\ pc[w] \notin {"begin", "failing"}
        /\ \A v \in Workers : v # w => pc'[v] = pc[v]
    BY <1>0, <1>2 DEF Solved, SolveFailed, Record, PublishRefused, GoTo, store, process
  <2>2. \A j \in Jobs : Abandoned(j) => Abandoned(j)'
    BY <2>1 DEF Abandoned
  <2> QED BY <2>1, <2>2, CommandKept DEF Works
<1>3. CASE SolveStopped(w)
  BY <1>3 DEF SolveStopped, CommandInv, CommandHasOwner, store, process
<1>4. CASE ReserveCommand(w)
  <2>1. /\ on[w] \in Jobs /\ pc'[w] = "solve" /\ UNCHANGED <<row, on, phase>>
        /\ pc[w] = "begin"
        /\ \A v \in Workers : v # w => pc'[v] = pc[v]
    BY <1>0, <1>4 DEF ReserveCommand, GoTo, process
  <2>2. \A j \in Jobs : j # on[w] => cmd'[j] = cmd[j]
    BY <1>0, <1>4 DEF ReserveCommand
  <2>3. \A j \in Jobs : cmd'[j] # "NONE" => j \in KeyedJobs
    BY <1>0, <1>4 DEF ReserveCommand, CommandInv
  <2>4. \A v \in Workers, j \in Jobs : Works(v, j) => Works(v, j)'
    BY <2>1 DEF Works
  <2>5. \A j \in Jobs : j # on[w] /\ Abandoned(j) => Abandoned(j)'
    BY <2>1 DEF Abandoned
  <2> QED BY <2>1, <2>2, <2>3, <2>4, <2>5 DEF CommandInv, CommandHasOwner, Works
<1>5. CASE Publish(w) \/ UndoCommand(w)
  <2>1. /\ on[w] \in Jobs /\ UNCHANGED <<on, phase>>
        /\ \A v \in Workers : v # w => pc'[v] = pc[v]
        /\ \A j \in Jobs : j # on[w] => row'[j] = row[j]
    BY <1>0, <1>5 DEF Publish, UndoCommand, GoTo, process
  <2>2. \A j \in Jobs : j # on[w] => cmd'[j] = cmd[j]
    BY <1>0, <1>5 DEF Publish, UndoCommand
  <2>3. /\ cmd'[on[w]] # "RUNNING"
        /\ \A j \in Jobs : cmd'[j] # "NONE" => j \in KeyedJobs
    BY <1>0, <1>5, <2>1 DEF Publish, UndoCommand, CommandInv, CommandTerminal
  <2>4. \A v \in Workers, j \in Jobs : j # on[w] /\ Works(v, j) => Works(v, j)'
    BY <2>1 DEF Works
  <2>5. \A j \in Jobs : j # on[w] /\ Abandoned(j) => Abandoned(j)'
    BY <2>1 DEF Abandoned
  <2> QED BY <2>1, <2>2, <2>3, <2>4, <2>5 DEF CommandInv, CommandHasOwner, Works
<1>6. CASE RecordRefused(w)
  BY <1>6, RefusedIsAbandoned
<1> QED BY <1>1, <1>2, <1>3, <1>4, <1>5, <1>6 DEF Attempt, SolveEnds

LEMMA CommandStep ==
  ASSUME IInv, CommandInv, ClaimedInv, [Next]_vars
  PROVE  CommandInv'
<1>0. row \in [Jobs -> Row]
  BY DEF IInv, TypeOK
<1>1. ASSUME NEW j \in Jobs, Client(j) PROVE CommandInv'
  <2>1. UNCHANGED <<cmd, phase, pc, on>> /\ \A k \in Jobs : k # j => row'[k] = row[k]
    BY <1>0, <1>1 DEF Client, Enqueue, RequestCancel, pool, process
  <2>2. \/ row[j].status = "ABSENT"
        \/ row'[j].status \in {"CANCEL_REQUESTED", "CANCELLED"}
    BY <1>0, <1>1, OwnerKept DEF Client, Enqueue, RequestCancel
  <2>3. \A k \in Jobs : Abandoned(k) => Abandoned(k)'
    BY <2>1, <2>2 DEF Abandoned
  <2> QED BY <2>1, <2>3, CommandKept DEF Works
<1>2. ASSUME NEW j \in Jobs, NEW w \in Workers, Submit(j, w) PROVE CommandInv'
  <2>1. pc[w] = "idle" /\ UNCHANGED <<row, cmd, phase>>
        /\ \A v \in Workers : v # w => pc'[v] = pc[v] /\ on'[v] = on[v]
    BY <1>2 DEF Submit, store, process
  <2>2. \A k \in Jobs : Abandoned(k) => Abandoned(k)'
    BY <2>1 DEF Abandoned
  <2> QED BY <2>1, <2>2, CommandKept DEF Works
<1>3. CASE Prune \/ ListRecoverable \/ EndRound \/ \E j \in Jobs : Skip(j)
  BY <1>3, CommandKept DEF Prune, ListRecoverable, EndRound, Skip, Works, Abandoned, store, pool, process
<1>4. CASE ReapExpired
  <2>1. UNCHANGED <<cmd, phase, pc, on>> /\ \A j \in Jobs : row'[j] = Reaped(row[j])
    BY <1>4 DEF ReapExpired, pool, process
  <2>2. ASSUME NEW j \in Jobs
        PROVE row'[j] = row[j] \/ row'[j].status \in {"CANCELLED", "FAILED", "INTERRUPTED"}
    BY <1>0, <2>1, ReapedRow
  <2>3. \A k \in Jobs : Abandoned(k) => Abandoned(k)'
    BY <2>1, <2>2 DEF Abandoned
  <2> QED BY <2>1, <2>3, CommandKept DEF Works
<1>5. ASSUME NEW w \in Workers, Heartbeat(w) PROVE CommandInv'
  <2>1. /\ UNCHANGED <<cmd, phase, pc, on>> /\ row[on[w]].lease > 0 /\ on[w] \in Jobs
        /\ row' = [row EXCEPT ![on[w]] = Extended(row[on[w]])]
    BY <1>5 DEF Heartbeat, HasAuthority, HoldsLease, At, IInv, ThreadsInv, TypeOK, pool, process
  <2>2. row[on[w]] \in Row /\ row'[on[w]].status = row[on[w]].status
    BY <1>0, <2>1, OwnerKept
  <2>3. \A k \in Jobs : Abandoned(k) => Abandoned(k)'
    <3>1. ~(row[on[w]].lease <= 0)
      BY <2>1, <2>2 DEF Row
    <3> QED BY <1>0, <2>1, <2>2, <3>1 DEF Abandoned
  <2> QED BY <2>1, <2>3, CommandKept DEF Works
<1>6. ASSUME NEW w \in Workers, DropFuture(w) PROVE CommandInv'
  BY <1>6 DEF DropFuture, CommandInv, CommandHasOwner, store, process
<1>7. CASE Tick
  <2>1. UNCHANGED <<cmd, phase, pc, on>> /\ \A j \in Jobs : row'[j] = Aged(row[j])
    BY <1>7 DEF Tick, pool, process
  <2>2. ASSUME NEW j \in Jobs
        PROVE  row'[j].status = row[j].status /\ (row[j].lease <= 0 => row'[j].lease <= 0)
    <3>1. row[j] \in Row /\ row'[j] = Aged(row[j])
      BY <1>0, <2>1
    <3>2. row[j].lease \in Int /\ Aged(row[j]).status = row[j].status
      BY <3>1, OwnerKept DEF Row
    <3>3. Aged(row[j]) = row[j] \/ Aged(row[j]).lease = row[j].lease - 1
      BY <3>1 DEF Aged, Row
    <3> QED BY <3>1, <3>2, <3>3
  <2>3. \A k \in Jobs : Abandoned(k) => Abandoned(k)'
    BY <2>1, <2>2 DEF Abandoned
  <2> QED BY <2>1, <2>3, CommandKept DEF Works
<1>8. CASE Shutdown \/ Exited
  BY <1>8, CommandKept DEF Shutdown, Exited, Works, Abandoned, store, pool, process
<1>9. CASE Crash
  BY <1>9 DEF Crash, CommandInv, CommandHasOwner, store
<1>10. CASE Restart
  <2>1. \A j \in Jobs : cmd'[j] # "RUNNING" /\ (cmd'[j] # "NONE" => cmd[j] # "NONE")
    <3>1. \A j \in Jobs : plans[j] \in Nat
      BY DEF IInv, TypeOK
    <3> QED BY <1>10, <3>1 DEF Restart, RecoveredCommand
  <2> QED BY <2>1 DEF CommandInv, CommandHasOwner
<1>11. CASE UNCHANGED vars
  BY <1>11, CommandKept DEF vars, store, pool, process, Works, Abandoned
<1> QED BY <1>1, <1>2, <1>3, <1>4, <1>5, <1>6, <1>7, <1>8, <1>9, <1>10, <1>11, AttemptKeepsCommand
        DEF Next, Dispatch

\* A RUNNING command has a thread that will settle it, or is that of a replan
\* whose attempt was cancelled or lost its lease: in no other way, and in no other
\* lane, does the ledger say RUNNING of a command nobody works on.  A command left
\* RUNNING by a stop is settled before the next start.
THEOREM RunningCommandHasOwner == Spec => []CommandHasOwner
<1>1. Init => CommandInv /\ ClaimedInv
  BY DEF Init, CommandInv, CommandHasOwner, ClaimedInv
<1>2. IInv /\ CommandInv /\ ClaimedInv /\ [Next]_vars => CommandInv' /\ ClaimedInv'
  BY CommandStep, ClaimedStep
<1>3. CommandInv => CommandHasOwner
  BY DEF CommandInv
<1> QED BY <1>1, <1>2, <1>3, IInvHolds, PTL DEF Spec

\* The command ledger tells the truth about publications, and about work up to
\* the refused replan.
THEOREM CommandsTellTruth == Spec => []CommandsAgree
BY CommandAgrees, RunningCommandHasOwner, PTL DEF CommandsAgree

-----------------------------------------------------------------------------
(* Refinement of JobContract.                                              *)

LEMMA OutcomeKept ==
  ASSUME \A j \in Jobs : Outcome(j)' = Outcome(j), plans' = plans
  PROVE  UNCHANGED Contract!vars
BY DEF Contract!vars

LEMMA CloseOne ==
  ASSUME NEW j \in Jobs, NEW from, NEW to, Outcome(j) \in from, Outcome(j)' = to,
         \A k \in Jobs \ {j} : Outcome(k)' = Outcome(k)
  PROVE  Contract!Close(j, from, to)
BY DEF Contract!Close

LEMMA ContractInit == Init => Contract!Init
BY DEF Init, Contract!Init, Outcome, AbsentRow

LEMMA ContractStep ==
  ASSUME IInv, [Next]_vars
  PROVE  [Contract!Next]_(Contract!vars)
<1> USE DEF IInv, TypeOK, store, pool, dispatcher, process
<1> DEFINE names == {"none", "open", "cancelling", "published", "failed", "cancelled"}
<1>0. \A j \in Jobs : Outcome(j) \in names
  BY DEF Outcome, Row, Status, ActiveStatus, Terminal
<1>1. ASSUME row' = row, plans' = plans PROVE UNCHANGED Contract!vars
  BY <1>1 DEF Contract!vars, Outcome
<1>2. ASSUME NEW j \in Jobs, Client(j) PROVE Contract!Next
  <2>1. CASE Enqueue(j)
    <3>1. Outcome(j) \in {"none"} /\ Outcome(j)' = "open" /\ plans' = plans
      BY <2>1 DEF Enqueue, Outcome, QueuedRow, AbsentRow
    <3>2. \A k \in Jobs \ {j} : Outcome(k)' = Outcome(k)
      BY <2>1 DEF Enqueue, Outcome
    <3> QED BY <3>1, <3>2, CloseOne DEF Contract!Next, Contract!Submit
  <2>2. CASE RequestCancel(j)
    <3>1. row[j] \in Row /\ Cancellable(row[j])
      BY <2>2 DEF RequestCancel
    <3>2. row' = [row EXCEPT ![j] = Cancelled(row[j])] /\ plans' = plans
      BY <2>2 DEF RequestCancel
    <3>3. \A k \in Jobs \ {j} : Outcome(k)' = Outcome(k)
      BY <3>2 DEF Outcome
    <3>4. CASE row[j].status = "RUNNING"
      <4>1. Outcome(j) \in {"open"} /\ Outcome(j)' = "cancelling"
        BY <3>1, <3>2, <3>4 DEF Outcome, Cancelled, Row
      <4> QED BY <3>2, <3>3, <4>1, CloseOne DEF Contract!Next, Contract!AcceptCancel
    <3>5. CASE row[j].status # "RUNNING"
      <4>1. Outcome(j) \in {"open", "cancelling"} /\ Outcome(j)' = "cancelled"
        BY <3>1, <3>2, <3>5 DEF Outcome, Cancellable, Cancelled, Row
      <4> QED BY <3>2, <3>3, <4>1, CloseOne DEF Contract!Next, Contract!Cancel
    <3> QED BY <3>4, <3>5
  <2> QED BY <1>2, <2>1, <2>2 DEF Client
<1>3. CASE Dispatch
  <2>1. CASE ReapExpired
    <3>1. plans' = plans /\ row' = [j \in Jobs |-> Reaped(row[j])]
      BY <2>1 DEF ReapExpired
    <3>2. ASSUME NEW j \in Jobs
          PROVE \/ Outcome(j)' = Outcome(j)
                \/ Outcome(j) = "cancelling" /\ Outcome(j)' = "cancelled"
                \/ Outcome(j) = "open" /\ Outcome(j)' = "failed"
      BY <3>1, ReapedRow DEF Outcome
    <3> QED BY <1>0, <3>1, <3>2 DEF Contract!Next, Contract!Settle
  <2>2. CASE ~ReapExpired
    BY <1>1, <1>3, <2>2 DEF Dispatch, Prune, ListRecoverable, EndRound, Skip, Submit
  <2> QED BY <2>1, <2>2
<1>4. ASSUME NEW w \in Workers, Attempt(w) \/ Heartbeat(w) \/ DropFuture(w)
      PROVE  [Contract!Next]_(Contract!vars)
  <2>1. CASE Claim(w)
    <3>1. PICK j \in Jobs : j = on[w]
      BY <2>1 DEF Claim, At, ThreadsInv
    <3>2. Claimable(row[j]) /\ row' = [row EXCEPT ![j] = Claimed(row[j], w)] /\ plans' = plans
      BY <2>1, <3>1 DEF Claim
    <3>3. \A k \in Jobs : Outcome(k)' = Outcome(k)
      BY <3>2 DEF Outcome, Claimable, Claimed
    <3> QED BY <3>2, <3>3, OutcomeKept
  <2>2. CASE Heartbeat(w)
    <3>1. PICK j \in Jobs : j = on[w]
      BY <2>2 DEF Heartbeat, At, ThreadsInv
    <3>2. row' = [row EXCEPT ![j] = Extended(row[j])] /\ plans' = plans
      BY <2>2, <3>1 DEF Heartbeat
    <3>3. \A k \in Jobs : Outcome(k)' = Outcome(k)
      <4>1. row \in [Jobs -> Row] /\ Extended(row[j]).status = row[j].status
        BY DEF Extended, IInv, TypeOK, Row
      <4>2. \A k \in Jobs : row'[k].status = row[k].status
        BY <3>2, <4>1
      <4> QED BY <4>2 DEF Outcome
    <3> QED BY <3>2, <3>3, OutcomeKept
  <2>3. CASE Publish(w)
    <3>1. PICK j \in Jobs : j = on[w]
      BY <2>3 DEF Publish, At, ThreadsInv
    <3>2. /\ row[j].status = "RUNNING"
          /\ row' = [row EXCEPT ![j] = Released(row[j], "COMPLETED")]
          /\ plans' = [plans EXCEPT ![j] = @ + 1]
      BY <2>3, <3>1 DEF Publish, HasAuthority
    <3>3. Outcome(j) \in {"open"} /\ Outcome(j)' = "published"
      BY <3>2 DEF Released, Outcome
    <3>4. \A k \in Jobs \ {j} : Outcome(k)' = Outcome(k)
      BY <3>2 DEF Outcome
    <3>5. Contract!Close(j, {"open"}, "published")
      BY <3>3, <3>4, CloseOne
    <3>6. Contract!Publish(j)
      BY <3>2, <3>5 DEF Contract!Publish
    <3> QED BY <3>6 DEF Contract!Next
  <2>4. CASE Finish(w)
    <3> DEFINE after == AfterFinish(row[on[w]], w, gen[w], ReportedStatus(pc[w]))
    <3>1. on[w] \in Jobs /\ row[on[w]] \in Row /\ gen[w] \in Nat
      BY <2>4 DEF Finish, ThreadsInv
    <3>2. /\ ReportedStatus(pc[w]) \in {"COMPLETED", "FAILED", "INTERRUPTED"}
          /\ ReportedStatus(pc[w]) = "COMPLETED" => row[on[w]].status = "COMPLETED"
      BY <2>4 DEF Finish, ReportedStatus, ThreadsInv
    <3>3. row[on[w]].status \notin {"RUNNING", "CANCEL_REQUESTED"} => row[on[w]].owner = NoWorker
      BY <3>1 DEF RowsInv
    <3>4. \/ after = row[on[w]]
          \/ row[on[w]].status = "RUNNING" /\ after.status \in {"FAILED", "INTERRUPTED"}
          \/ row[on[w]].status = "CANCEL_REQUESTED" /\ after.status = "CANCELLED"
      BY <3>1, <3>2, <3>3, FinishedRow
    <3>5. plans' = plans /\ row' = [row EXCEPT ![on[w]] = after]
      BY <2>4 DEF Finish
    <3> HIDE DEF after
    <3>6. ASSUME NEW j \in Jobs
          PROVE \/ Outcome(j)' = Outcome(j)
                \/ Outcome(j) = "cancelling" /\ Outcome(j)' = "cancelled"
                \/ Outcome(j) = "open" /\ Outcome(j)' = "failed"
      BY <3>1, <3>4, <3>5 DEF Outcome
    <3>7. \A j \in Jobs : Outcome(j)' \in names
      BY <1>0, <3>6
    <3> QED BY <3>5, <3>6, <3>7 DEF Contract!Next, Contract!Settle
  <2>5. CASE ~(Claim(w) \/ Heartbeat(w) \/ Publish(w) \/ Finish(w))
    BY <1>1, <1>4, <2>5
    DEF Attempt, SolveEnds, ClaimRefused, InputsChanged, ReserveCommand, CommandRefused, Solved,
        SolveFailed, SolveStopped, Record, RecordRefused, PublishRefused, UndoCommand, DropFuture,
        Leave, GoTo
  <2> QED BY <2>1, <2>2, <2>3, <2>4, <2>5
<1>5. CASE Tick
  <2>1. \A j \in Jobs : Outcome(j)' = Outcome(j)
    BY <1>5, OwnerKept DEF Tick, Outcome
  <2> QED BY <1>5, <2>1, OutcomeKept DEF Tick
<1>6. CASE Shutdown \/ Exited \/ Crash
  BY <1>1, <1>6 DEF Shutdown, Exited, Crash
<1>7. CASE Restart
  <2>1. plans' = plans /\ row' = [j \in Jobs |-> Recovered(row[j])]
    BY <1>7 DEF Restart
  <2>2. ASSUME NEW j \in Jobs
        PROVE \/ Outcome(j)' = Outcome(j)
              \/ Outcome(j) = "cancelling" /\ Outcome(j)' = "cancelled"
    BY <2>1, RecoveredRow DEF Outcome
  <2>3. \A j \in Jobs : Outcome(j)' \in names
    BY <1>0, <2>2
  <2> QED BY <2>1, <2>2, <2>3 DEF Contract!Next, Contract!Settle
<1>8. CASE UNCHANGED vars
  BY <1>1, <1>8 DEF vars
<1> QED BY <1>2, <1>3, <1>4, <1>5, <1>6, <1>7, <1>8 DEF Next

\* Reaps, repeated attempts, shutdowns, crashes and restarts are invisible to a
\* client: the runtime implements JobContract for every number of jobs and threads.
THEOREM RuntimeKeepsContract == Spec => ContractKept
<1>1. IInv /\ [Next]_vars => [Contract!Next]_(Contract!vars)
  BY ContractStep
<1> QED BY <1>1, ContractInit, IInvHolds, PTL DEF Spec, ContractKept, Contract!Spec
=============================================================================

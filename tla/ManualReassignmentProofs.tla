---------------------- MODULE ManualReassignmentProofs ----------------------
(***************************************************************************)
(* ManualReassignment for any number of calls, revisions, plans and deaths *)
(* of the process: one saga at a time, its lock on record, one lock and    *)
(* one plan per request, and the plan replaces the one that was seen.      *)
(***************************************************************************)
EXTENDS ManualReassignment, FiniteSetTheorems, SequenceTheorems, TLAPS

----------------------------------------------------------------------------
(* The inductive invariant.                                                *)

CommandType == [status : CommandStatus, lockRev : Nat \cup {Unset}]
SolveType == [status : {"NONE", "RUNNING", "COMPLETED", "FAILED", "FAILED_RETRYABLE"}, rev : Nat \cup {Unset}]
RunType == [status : {"NONE", "RUNNING", "RESTARTED", "DONE", "FAILED"}, rev : Nat, active : Nat]
PlanType == [rev : Nat, locked : BOOLEAN, by : {"reassign", "replan", "other"}]
MutexType == [entry : LockIds \cup {NoLock}, users : 0 .. Cardinality(Threads), held : [LockIds -> Threads \cup {NoThread}]]
ThreadType == [at : Step, rev : Nat, seen : CommandStatus, lock : LockIds \cup {NoLock}]

Inside(t) == saga[t].at \notin {"idle", "waiting"}
Busy == {t \in Threads : saga[t].at # "idle"}

\* Whoever waits or works has the lock object of the entry, the entry counts
\* them, and whoever works holds it.
MutexInv ==
  /\ mutex.users = Cardinality(Busy)
  /\ \A t \in Threads : IF saga[t].at = "idle" THEN saga[t].lock = NoLock
                        ELSE saga[t].lock \in LockIds /\ saga[t].lock = mutex.entry
  /\ \A t \in Threads : Inside(t) => mutex.held[saga[t].lock] = t

\* The lock saved at revision r holds, or somebody released it later.
Kept(c, l, r) == l \/ \E d \in r + 1 .. Len(c) : c[d] = "unlock"

Unrecorded == {"idle", "waiting", "read", "known", "leave"}
Planning == {"replan", "prepare", "record", "solve", "complete", "publish"}
Running == {"record", "solve", "complete", "publish"}

ThreadInv(t) ==
  /\ saga[t].rev <= rev
  /\ saga[t].at # "idle" => ask.rev # Unset
  /\ saga[t].at \notin Unrecorded => command.status # "NONE"
  /\ saga[t].at = "commit" => Kept(chain, locked, saga[t].rev)
  /\ saga[t].at \in Planning => command.lockRev # Unset
  /\ saga[t].at \in Running => run.status # "NONE"

\* The saga's lock can only be the revision after the one that was asked for.
ChainInv ==
  /\ ask.rev <= rev
  /\ \A d \in 1 .. rev : chain[d] = "reassign" => d = ask.rev + 1
  /\ rev > MaxRevision => \E d \in 1 .. rev : chain[d] = "reassign"
  /\ \A d \in 1 .. rev : chain[d] = "reassign" => command.status # "NONE"

\* The saga's plan is the one published under the request's key.
PlansInv == \A n \in 1 .. Len(plans) : plans[n].by = "reassign" => published = n

LockInv ==
  /\ command.lockRev <= rev
  /\ command.lockRev # Unset => Kept(chain, locked, command.lockRev)

\* The run stands for the plan the dispatcher had seen.
RunInv == run.status # "NONE" => run.active = ask.active /\ ask.rev # Unset

IInv ==
  /\ TypeOK /\ MutexInv
  /\ \A t \in Threads : ThreadInv(t)
  /\ ChainInv /\ PlansInv /\ LockInv /\ RunInv

----------------------------------------------------------------------------
(* What every step leaves in place.                                        *)

\* Revisions are added, what was asked stays, records are not taken back.
Onward ==
  /\ rev <= Len(chain')
  /\ \A r \in 0 .. rev : Kept(chain, locked, r) => Kept(chain', locked', r)
  /\ ask.rev # Unset => ask' = ask
  /\ command.status # "NONE" => command'.status # "NONE"
  /\ command.lockRev # Unset => command'.lockRev # Unset
  /\ run.status # "NONE" => run'.status # "NONE"

\* Thread t goes from one step of the saga to another.
Walks(t) ==
  /\ Inside(t) /\ saga'[t].at \notin {"idle", "waiting"}
  /\ saga' \in [Threads -> ThreadType]
  /\ saga'[t].lock = saga[t].lock
  /\ \A u \in Threads \ {t} : saga'[u] = saga[u]
  /\ mutex' = mutex

LEMMA WalkKeepsMutex ==
  ASSUME TypeOK, MutexInv, NEW t \in Threads, Walks(t)
  PROVE  MutexInv'
<1>1. \A u \in Threads : saga'[u].lock = saga[u].lock /\ (saga'[u].at = "idle" <=> saga[u].at = "idle")
                         /\ (saga'[u].at \in {"idle", "waiting"} <=> saga[u].at \in {"idle", "waiting"})
  BY DEF Walks, Inside
<1>2. Busy' = Busy BY <1>1 DEF Busy
<1> QED BY <1>1, <1>2 DEF MutexInv, Inside, Walks

LEMMA OtherThreads ==
  ASSUME TypeOK, NEW u \in Threads, ThreadInv(u), Onward, saga'[u] = saga[u], chain' \in Seq({"edit", "reassign", "lock", "unlock"})
  PROVE  ThreadInv(u)'
<1>1. saga[u].rev \in 0 .. rev /\ rev \in Nat BY DEF ThreadInv, TypeOK, rev, ThreadType
<1>2. saga'[u].rev <= Len(chain') BY <1>1 DEF Onward, ThreadInv, rev
<1>3. saga[u].at = "commit" => Kept(chain', locked', saga[u].rev)
  BY <1>1 DEF Onward, ThreadInv
<1>4. saga'[u].at = "commit" => Kept(chain', locked', saga'[u].rev)
  BY <1>3
<1>5. /\ saga'[u].at # "idle" => ask'.rev # Unset
      /\ saga'[u].at \notin Unrecorded => command'.status # "NONE"
      /\ saga'[u].at \in Planning => command'.lockRev # Unset
      /\ saga'[u].at \in Running => run'.status # "NONE"
  BY DEF Onward, ThreadInv
<1> QED BY <1>2, <1>4, <1>5 DEF ThreadInv, Kept, rev, Unrecorded, Planning, Running

\* A step of the saga that changes its own records only.
LEMMA QuietStep ==
  ASSUME IInv, NEW t \in Threads, Walks(t), UNCHANGED <<tables, ask, restarts>>,
         command' \in CommandType, solve' \in SolveType, run' \in RunType,
         command.status # "NONE" => command'.status # "NONE",
         command'.lockRev = command.lockRev,
         run'.status # "NONE" => run'.active = ask.active,
         run.status # "NONE" => run'.status # "NONE",
         ThreadInv(t)'
  PROVE  IInv'
<1> USE DEF tables
<1>1. TypeOK' BY DEF IInv, TypeOK, Walks, ThreadType, CommandType, SolveType, RunType, rev
<1>2. MutexInv' BY WalkKeepsMutex DEF IInv
<1>3. Onward
  <2>1. rev <= Len(chain') BY DEF IInv, TypeOK, rev
  <2> QED BY <2>1 DEF Onward
<1>4. \A u \in Threads : ThreadInv(u)'
  <2> SUFFICES ASSUME NEW u \in Threads, u # t PROVE ThreadInv(u)'
    OBVIOUS
  <2>1. saga'[u] = saga[u] BY DEF Walks
  <2> QED BY <1>3, <2>1, OtherThreads DEF IInv, TypeOK
<1>5. ask.rev # Unset BY DEF IInv, ThreadInv, Walks, Inside
<1>6. ChainInv' /\ PlansInv' BY DEF IInv, ChainInv, PlansInv, rev
<1>7. LockInv' /\ RunInv' BY <1>5 DEF IInv, LockInv, RunInv, rev, Kept
<1> QED BY <1>1, <1>2, <1>4, <1>6, <1>7 DEF IInv

----------------------------------------------------------------------------
(* The steps of the saga.                                                  *)

LEMMA MovesWalk ==
  ASSUME TypeOK, NEW t \in Threads, Inside(t), mutex' = mutex,
         NEW x \in ThreadType, x.at \notin {"idle", "waiting"}, x.lock = saga[t].lock,
         saga' = [saga EXCEPT ![t] = x]
  PROVE  Walks(t) /\ saga'[t] = x
BY DEF TypeOK, Walks, ThreadType

LEMMA GoWalks ==
  ASSUME TypeOK, NEW t \in Threads, Inside(t), mutex' = mutex,
         NEW p \in Step \ {"idle", "waiting"}, Go(t, p)
  PROVE  /\ Walks(t)
         /\ saga'[t].at = p /\ saga'[t].rev = saga[t].rev
<1> DEFINE x == [saga[t] EXCEPT !.at = p]
<1>0. saga[t] \in ThreadType BY DEF TypeOK, ThreadType
<1>1. x \in ThreadType /\ x.at = p /\ x.lock = saga[t].lock /\ x.rev = saga[t].rev
  BY <1>0 DEF ThreadType
<1>2. saga' = [saga EXCEPT ![t] = x] BY DEF Go
<1> HIDE DEF x
<1> QED BY <1>1, <1>2, MovesWalk

\* Most steps end the saga or go on with nothing but its own records changed.
LEMMA QuietGo ==
  ASSUME IInv, NEW t \in Threads, Inside(t), UNCHANGED <<tables, ask, mutex, restarts>>,
         NEW p \in Step \ {"idle", "waiting"}, Go(t, p),
         command' \in CommandType, solve' \in SolveType, run' \in RunType,
         command.status # "NONE" => command'.status # "NONE",
         command'.lockRev = command.lockRev,
         run'.status # "NONE" => run'.active = ask.active,
         run.status # "NONE" => run'.status # "NONE",
         p \notin Unrecorded => command'.status # "NONE",
         p # "commit",
         p \in Planning => command.lockRev # Unset,
         p \in Running => run'.status # "NONE"
  PROVE  IInv'
<1>1. Walks(t) /\ saga'[t].at = p /\ saga'[t].rev = saga[t].rev BY GoWalks DEF IInv
<1>2. ThreadInv(t) BY DEF IInv
<1>3. ThreadInv(t)' BY <1>1, <1>2 DEF ThreadInv, rev, Kept, tables, Inside, Unrecorded, Planning, Running
<1> QED BY <1>1, <1>3, QuietStep

LEMMA Types ==
  ASSUME IInv
  PROVE  command \in CommandType /\ solve \in SolveType /\ run \in RunType /\ command.status \in CommandStatus
BY DEF IInv, TypeOK, CommandType, SolveType, RunType

LEMMA SetCommandTyped ==
  ASSUME IInv, NEW c \in CommandStatus, SetCommand(c)
  PROVE  command' \in CommandType /\ command'.status = c /\ command'.lockRev = command.lockRev
BY Types DEF SetCommand, CommandType

LEMMA FailSolveTyped ==
  ASSUME IInv, NEW t \in Threads, FailSolve(t)
  PROVE  solve' \in SolveType /\ Go(t, "failed")
BY Types DEF FailSolve, SolveType

LEMMA LookKeeps ==
  ASSUME IInv, NEW t \in Threads, Look(t)
  PROVE  IInv'
<1> DEFINE p == IF command.status \in Ended THEN "leave"
                ELSE IF command.status = "NONE" /\ saga[t].rev # ask.rev THEN "leave"
                ELSE "known"
           x == [saga[t] EXCEPT !.seen = command.status, !.at = p]
<1>1. x \in ThreadType /\ x.at \in {"leave", "known"} /\ x.lock = saga[t].lock /\ x.rev = saga[t].rev
  <2>1. saga[t] \in ThreadType BY DEF IInv, TypeOK, ThreadType
  <2>2. p \in Step /\ p \in {"leave", "known"} BY DEF Step
  <2> HIDE DEF p
  <2> QED BY <2>1, <2>2, Types DEF ThreadType
<1>2. saga' = [saga EXCEPT ![t] = x] BY DEF Look
<1>3. Inside(t) /\ mutex' = mutex BY DEF Look, At, Inside
<1> HIDE DEF x
<1>4. Walks(t) /\ saga'[t] = x BY <1>1, <1>2, <1>3, MovesWalk DEF IInv
<1>5. ThreadInv(t)'
  BY <1>1, <1>3, <1>4 DEF IInv, ThreadInv, Look, rev, Kept, tables, Inside, Unrecorded, Planning, Running
<1> QED BY <1>4, <1>5, Types, QuietStep DEF Look, records, IInv, RunInv

LEMMA BeginKeeps ==
  ASSUME IInv, NEW t \in Threads, Begin(t)
  PROVE  IInv'
<1> DEFINE x == [saga[t] EXCEPT !.at = "created", !.seen = IF @ = "NONE" THEN "RESERVED" ELSE @]
<1>1. x \in ThreadType /\ x.at = "created" /\ x.lock = saga[t].lock /\ x.rev = saga[t].rev
  <2>1. saga[t] \in ThreadType BY DEF IInv, TypeOK, ThreadType
  <2>2. "created" \in Step /\ "RESERVED" \in CommandStatus BY DEF Step, CommandStatus, Resumable
  <2> QED BY <2>1, <2>2 DEF ThreadType
<1>2. saga' = [saga EXCEPT ![t] = x] BY DEF Begin
<1>3. Inside(t) /\ mutex' = mutex BY DEF Begin, At, Inside
<1> HIDE DEF x
<1>4. Walks(t) /\ saga'[t] = x BY <1>1, <1>2, <1>3, MovesWalk DEF IInv
<1>5. BeginAs(command.status) \in CommandStatus \ {"NONE"}
  BY Types DEF BeginAs, CommandStatus, Resumable
<1>6. command' \in CommandType /\ command'.status # "NONE" /\ command'.lockRev = command.lockRev
  BY <1>5, SetCommandTyped DEF Begin
<1>7. ThreadInv(t)'
  BY <1>1, <1>3, <1>4, <1>6 DEF IInv, ThreadInv, Begin, rev, Kept, tables, Inside, Unrecorded, Planning, Running
<1> QED BY <1>4, <1>6, <1>7, Types, QuietStep DEF Begin, IInv, RunInv

LEMMA CheckKeeps ==
  ASSUME IInv, NEW t \in Threads, Check(t)
  PROVE  IInv'
<1>1. Inside(t) /\ command.status # "NONE" BY DEF Check, At, Inside, IInv, ThreadInv, Unrecorded
<1>2. CASE published # NoPlan
  <2>1. SetCommand("COMPLETED") /\ Go(t, "leave") BY <1>2 DEF Check
  <2> QED BY <1>1, <2>1, Types, SetCommandTyped, QuietGo
          DEF Check, IInv, RunInv, Step, CommandStatus, Ended, Unrecorded, Planning, Running
<1>3. CASE published = NoPlan
  <2> DEFINE p == IF saga[t].seen = "RESERVED" THEN "lock" ELSE "context"
  <2>1. Go(t, p) /\ command' = command BY <1>3 DEF Check
  <2>2. p \in {"lock", "context"} OBVIOUS
  <2> HIDE DEF p
  <2> QED BY <1>1, <2>1, <2>2, Types, QuietGo
          DEF Check, IInv, RunInv, Step, Unrecorded, Planning, Running
<1> QED BY <1>2, <1>3

LEMMA EndingsKeep ==
  ASSUME IInv, NEW t \in Threads, FailUnlocked(t) \/ Finish(t) \/ FailAfterLock(t)
  PROVE  IInv'
<1>1. Inside(t) /\ Go(t, "leave") /\ UNCHANGED <<tables, solve, run, ask, mutex, restarts>>
  BY DEF FailUnlocked, Finish, FailAfterLock, At, Inside
<1>2. PICK c \in Ended : SetCommand(c)
  BY DEF FailUnlocked, Finish, FailAfterLock, Ended
<1>3. command' \in CommandType /\ command'.status = c /\ command'.lockRev = command.lockRev
  BY <1>2, SetCommandTyped DEF CommandStatus
<1> QED BY <1>1, <1>2, <1>3, Types, QuietGo
        DEF IInv, RunInv, Step, Ended, Unrecorded, Planning, Running

LEMMA ResumeKeeps ==
  ASSUME IInv, NEW t \in Threads, Resume(t)
  PROVE  IInv'
<1>1. Inside(t) /\ command.status # "NONE" BY DEF Resume, At, Inside, IInv, ThreadInv, Unrecorded
<1>2. CASE SameContext
  <2>1. Go(t, "replan") /\ command' = command BY <1>2 DEF Resume
  <2>2. command.lockRev # Unset BY <1>2 DEF SameContext, rev, IInv, TypeOK, Unset
  <2> QED BY <1>1, <2>1, <2>2, Types, QuietGo
          DEF Resume, IInv, RunInv, Step, Unrecorded, Planning, Running
<1>3. CASE ~SameContext
  <2>1. SetCommand("FAILED_CONTEXT_CHANGED") /\ Go(t, "leave") BY <1>3 DEF Resume
  <2> QED BY <1>1, <2>1, Types, SetCommandTyped, QuietGo
          DEF Resume, IInv, RunInv, Step, CommandStatus, Ended, Unrecorded, Planning, Running
<1> QED BY <1>2, <1>3

LEMMA ReplanKeeps ==
  ASSUME IInv, NEW t \in Threads, Replan(t)
  PROVE  IInv'
<1>1. /\ Inside(t) /\ command.status # "NONE" /\ command.lockRev # Unset
      /\ UNCHANGED <<tables, run, ask, mutex, restarts>>
  BY DEF Replan, At, Inside, IInv, ThreadInv, Unrecorded, Planning
<1>2. CASE /\ solve' = [status |-> "RUNNING", rev |-> rev]
           /\ saga' = [saga EXCEPT ![t].at = "prepare", ![t].rev = rev]
           /\ UNCHANGED command
  <2> DEFINE x == [saga[t] EXCEPT !.at = "prepare", !.rev = rev]
  <2>1. rev \in Nat BY DEF IInv, TypeOK, rev
  <2>2. x \in ThreadType /\ x.at = "prepare" /\ x.lock = saga[t].lock /\ x.rev = rev
    <3>1. saga[t] \in ThreadType BY DEF IInv, TypeOK, ThreadType
    <3>2. "prepare" \in Step BY DEF Step
    <3> QED BY <2>1, <3>1, <3>2 DEF ThreadType
  <2>3. saga' = [saga EXCEPT ![t] = x] BY <1>2
  <2> HIDE DEF x
  <2>4. Walks(t) /\ saga'[t] = x BY <1>1, <2>2, <2>3, MovesWalk DEF IInv
  <2>5. ThreadInv(t)'
    BY <1>1, <1>2, <2>1, <2>2, <2>4 DEF IInv, ThreadInv, rev, tables, Inside, Unrecorded, Planning, Running
  <2>6. solve' \in SolveType BY <1>2, <2>1 DEF SolveType
  <2> QED BY <1>1, <1>2, <2>4, <2>5, <2>6, Types, QuietStep DEF IInv, RunInv
<1>3. CASE Go(t, "leave") /\ UNCHANGED <<solve, command>>
  BY <1>1, <1>3, Types, QuietGo DEF IInv, RunInv, Step, Unrecorded, Planning, Running
<1>4. CASE Go(t, "failed") /\ UNCHANGED <<solve, command>>
  BY <1>1, <1>4, Types, QuietGo DEF IInv, RunInv, Step, Unrecorded, Planning, Running
<1>5. CASE SetCommand("PLAN_PUBLISHED") /\ Go(t, "finish") /\ UNCHANGED solve
  BY <1>1, <1>5, Types, SetCommandTyped, QuietGo
     DEF IInv, RunInv, Step, CommandStatus, Resumable, Unrecorded, Planning, Running
<1> QED BY <1>2, <1>3, <1>4, <1>5 DEF Replan

LEMMA PrepareKeeps ==
  ASSUME IInv, NEW t \in Threads, Prepare(t)
  PROVE  IInv'
<1>1. /\ Inside(t) /\ command.status # "NONE" /\ command.lockRev # Unset
      /\ UNCHANGED <<tables, command, ask, mutex, restarts>>
  BY DEF Prepare, At, Inside, IInv, ThreadInv, Unrecorded, Planning
<1>2. CASE rev = saga[t].rev /\ active = ask.active
  <2>1. run' = Reserved /\ Go(t, "record") /\ solve' = solve BY <1>2 DEF Prepare
  <2>2. Reserved \in RunType
    <3>1. rev \in Nat /\ active \in Nat BY DEF IInv, TypeOK, rev
    <3>2. [status |-> "RUNNING", rev |-> rev, active |-> active] \in RunType BY <3>1 DEF RunType
    <3>3. [run EXCEPT !.status = "RUNNING"] \in RunType BY Types DEF RunType
    <3> QED BY <3>2, <3>3, Types DEF Reserved
  <2>3. Reserved.status # "NONE" /\ Reserved.active = ask.active
    <3>1. CASE run.status = "NONE" BY <3>1, <1>2 DEF Reserved
    <3>2. CASE run.status = "RESTARTED" BY <3>2, Types DEF Reserved, IInv, RunInv, RunType
    <3>3. CASE run.status \notin {"NONE", "RESTARTED"} BY <3>3 DEF Reserved, IInv, RunInv
    <3> QED BY <3>1, <3>2, <3>3
  <2> QED BY <1>1, <2>1, <2>2, <2>3, Types, QuietGo DEF Step, Unrecorded, Planning, Running
<1>3. CASE ~(rev = saga[t].rev /\ active = ask.active)
  <2>1. FailSolve(t) /\ run' = run BY <1>3 DEF Prepare
  <2> QED BY <1>1, <2>1, Types, FailSolveTyped, QuietGo
          DEF IInv, RunInv, Step, Unrecorded, Planning, Running
<1> QED BY <1>2, <1>3

LEMMA RecordRunKeeps ==
  ASSUME IInv, NEW t \in Threads, RecordRun(t)
  PROVE  IInv'
<1>1. Inside(t) /\ command.lockRev # Unset /\ run.status # "NONE"
  BY DEF RecordRun, At, Inside, IInv, ThreadInv, Planning, Running
<1> QED BY <1>1, Types, SetCommandTyped, QuietGo
        DEF RecordRun, IInv, RunInv, Step, CommandStatus, Resumable, Unrecorded, Planning, Running

LEMMA SolveKeeps ==
  ASSUME IInv, NEW t \in Threads, Solve(t)
  PROVE  IInv'
<1>1. /\ Inside(t) /\ command.status # "NONE" /\ command.lockRev # Unset /\ run.status # "NONE"
      /\ UNCHANGED <<tables, command, ask, mutex, restarts>>
  BY DEF Solve, At, Inside, IInv, ThreadInv, Unrecorded, Planning, Running
<1>2. CASE Go(t, "complete") /\ UNCHANGED <<solve, run>>
  BY <1>1, <1>2, Types, QuietGo DEF IInv, RunInv, Step, Unrecorded, Planning, Running
<1>3. CASE /\ run' = IF run.status = "RUNNING" THEN [run EXCEPT !.status = "FAILED"] ELSE run
           /\ FailSolve(t)
  <2>1. run' \in RunType /\ run'.status # "NONE" /\ run'.active = run.active
    BY <1>1, <1>3, Types DEF RunType
  <2> QED BY <1>1, <1>3, <2>1, Types, FailSolveTyped, QuietGo
          DEF IInv, RunInv, Step, Unrecorded, Planning, Running
<1> QED BY <1>2, <1>3 DEF Solve

LEMMA CompleteKeeps ==
  ASSUME IInv, NEW t \in Threads, Complete(t)
  PROVE  IInv'
<1>1. /\ Inside(t) /\ command.status # "NONE" /\ command.lockRev # Unset /\ run.status # "NONE"
      /\ UNCHANGED <<tables, command, ask, mutex, restarts>>
  BY DEF Complete, At, Inside, IInv, ThreadInv, Unrecorded, Planning, Running
<1>2. run' \in RunType /\ run'.status # "NONE" /\ run'.active = run.active
  BY <1>1, Types DEF Complete, RunType
<1>3. CASE Go(t, "publish") /\ UNCHANGED solve
  BY <1>1, <1>2, <1>3, Types, QuietGo DEF IInv, RunInv, Step, Unrecorded, Planning, Running
<1>4. CASE FailSolve(t)
  BY <1>1, <1>2, <1>4, Types, FailSolveTyped, QuietGo
     DEF IInv, RunInv, Step, Unrecorded, Planning, Running
<1>5. CASE Go(t, "failed") /\ UNCHANGED <<solve, run>>
  BY <1>1, <1>2, <1>5, Types, QuietGo DEF IInv, RunInv, Step, Unrecorded, Planning, Running
<1> QED BY <1>3, <1>4, <1>5 DEF Complete

----------------------------------------------------------------------------
(* The steps that change the tables.                                       *)

LEMMA ThreadStep ==
  ASSUME IInv, NEW t \in Threads, Walks(t), Onward, TypeOK', ThreadInv(t)',
         ChainInv', PlansInv', LockInv', RunInv'
  PROVE  IInv'
<1>1. MutexInv' BY WalkKeepsMutex DEF IInv
<1>2. \A u \in Threads : ThreadInv(u)'
  <2> SUFFICES ASSUME NEW u \in Threads, u # t PROVE ThreadInv(u)'
    OBVIOUS
  <2>1. saga'[u] = saga[u] BY DEF Walks
  <2> QED BY <2>1, OtherThreads DEF IInv, TypeOK
<1> QED BY <1>1, <1>2 DEF IInv

LEMMA NoRevisionLost ==
  ASSUME IInv, NEW w \in {"edit", "reassign", "lock", "unlock"}, Revise(w),
         w = "unlock" \/ locked' \/ locked' = locked
  PROVE  /\ chain' \in Seq({"edit", "reassign", "lock", "unlock"})
         /\ Len(chain') = rev + 1 /\ rev \in Nat
         /\ chain'[rev + 1] = w
         /\ \A d \in 1 .. rev : chain'[d] = chain[d]
         /\ \A r \in 0 .. rev : Kept(chain, locked, r) => Kept(chain', locked', r)
<1>1. chain \in Seq({"edit", "reassign", "lock", "unlock"}) /\ rev = Len(chain)
  BY DEF IInv, TypeOK, rev
<1>2. /\ chain' \in Seq({"edit", "reassign", "lock", "unlock"})
      /\ Len(chain') = rev + 1 /\ rev \in Nat
      /\ chain'[rev + 1] = w
      /\ \A d \in 1 .. rev : chain'[d] = chain[d]
  BY <1>1 DEF Revise
<1>3. ASSUME NEW r \in 0 .. rev, Kept(chain, locked, r)
      PROVE  Kept(chain', locked', r)
  <2>1. CASE w = "unlock" BY <1>2, <2>1 DEF Kept
  <2>2. CASE locked' BY <2>2 DEF Kept
  <2>3. CASE locked' = locked BY <1>1, <1>2, <1>3, <2>3 DEF Kept
  <2> QED BY <2>1, <2>2, <2>3
<1> QED BY <1>2, <1>3

LEMMA CommitLockKeeps ==
  ASSUME IInv, NEW t \in Threads, CommitLock(t)
  PROVE  IInv'
<1>1. /\ Inside(t) /\ Go(t, "replan") /\ command' = [status |-> "LOCK_COMMITTED", lockRev |-> saga[t].rev]
      /\ UNCHANGED <<tables, solve, run, ask, mutex, restarts>>
  BY DEF CommitLock, At, Inside
<1>2. saga[t].rev \in Nat /\ saga[t].rev <= rev /\ Kept(chain, locked, saga[t].rev)
  BY DEF CommitLock, At, IInv, TypeOK, ThreadInv
<1>3. Walks(t) /\ saga'[t].at = "replan" /\ saga'[t].rev = saga[t].rev
  BY <1>1, GoWalks DEF IInv, Step
<1>4. command' \in CommandType /\ command'.status # "NONE" /\ command'.lockRev # Unset /\ command'.lockRev = saga[t].rev
  BY <1>1, <1>2 DEF CommandType, CommandStatus, Resumable, Unset
<1>5. TypeOK' BY <1>1, <1>3, <1>4 DEF IInv, TypeOK, tables, rev, Walks, ThreadType, CommandType
<1>6. Onward BY <1>1, <1>4 DEF Onward, tables, rev, IInv, TypeOK
<1>7. ThreadInv(t)'
  BY <1>1, <1>3, <1>4 DEF IInv, ThreadInv, rev, tables, Inside, Unrecorded, Planning, Running
<1>8. ChainInv' /\ PlansInv' /\ RunInv'
  BY <1>1, <1>4 DEF IInv, ChainInv, PlansInv, RunInv, rev, tables
<1>9. LockInv' BY <1>1, <1>2, <1>4 DEF LockInv, Kept, rev, tables
<1> QED BY <1>3, <1>5, <1>6, <1>7, <1>8, <1>9, ThreadStep

LEMMA SaveLockKeeps ==
  ASSUME IInv, NEW t \in Threads, SaveLock(t)
  PROVE  IInv'
<1>1. /\ Inside(t) /\ command.status # "NONE" /\ ask.rev # Unset
      /\ UNCHANGED <<records, ask, mutex, restarts>>
  BY DEF SaveLock, At, Inside, IInv, ThreadInv, Unrecorded
<1>2. rev \in Nat /\ ask.rev \in Nat BY <1>1 DEF IInv, TypeOK, rev
<1> DEFINE Saved(n) == [saga[t] EXCEPT !.at = "commit", !.rev = n]
<1>3. ASSUME NEW n \in Nat, saga' = [saga EXCEPT ![t].at = "commit", ![t].rev = n]
      PROVE  Walks(t) /\ saga'[t].at = "commit" /\ saga'[t].rev = n
  <2>1. Saved(n) \in ThreadType /\ Saved(n).at = "commit" /\ Saved(n).lock = saga[t].lock /\ Saved(n).rev = n
    <3>1. saga[t] \in ThreadType BY DEF IInv, TypeOK, ThreadType
    <3>2. "commit" \in Step BY DEF Step
    <3> QED BY <3>1, <3>2 DEF ThreadType
  <2>2. saga' = [saga EXCEPT ![t] = Saved(n)] BY <1>3
  <2> HIDE DEF Saved
  <2> QED BY <1>1, <2>1, <2>2, MovesWalk DEF IInv
<1>4. CASE saga' = [saga EXCEPT ![t].at = "commit", ![t].rev = rev] /\ UNCHANGED tables /\ LockIsThere
  <2>1. Walks(t) /\ saga'[t].at = "commit" /\ saga'[t].rev = rev BY <1>2, <1>3, <1>4
  <2>2. ThreadInv(t)'
    BY <1>1, <1>2, <1>4, <2>1
       DEF ThreadInv, LockIsThere, Kept, rev, tables, records, Unrecorded, Planning, Running
  <2> QED BY <1>1, <1>4, <2>1, <2>2, Types, QuietStep DEF records, IInv, RunInv
<1>5. CASE Go(t, "unlocked") /\ UNCHANGED tables
  BY <1>1, <1>5, Types, QuietGo DEF records, IInv, RunInv, Step, Unrecorded, Planning, Running
<1>6. CASE /\ OnExpectedRevision /\ Revise("reassign") /\ locked' = TRUE
           /\ saga' = [saga EXCEPT ![t].at = "commit", ![t].rev = rev + 1]
           /\ UNCHANGED <<active, plans, published>>
  <2> DEFINE n == rev + 1
  <2>0. n \in Nat /\ saga' = [saga EXCEPT ![t].at = "commit", ![t].rev = n] BY <1>2, <1>6
  <2>1. Walks(t) /\ saga'[t].at = "commit" /\ saga'[t].rev = n
    <3> HIDE DEF n
    <3> QED BY <1>3, <2>0
  <2>2. /\ chain' \in Seq({"edit", "reassign", "lock", "unlock"})
        /\ Len(chain') = rev + 1 /\ chain'[rev + 1] = "reassign"
        /\ \A d \in 1 .. rev : chain'[d] = chain[d]
        /\ \A r \in 0 .. rev : Kept(chain, locked, r) => Kept(chain', locked', r)
    BY <1>6, NoRevisionLost
  <2>3. rev = ask.rev /\ rev <= MaxRevision
    BY <1>2, <1>6, BoundsAssumption DEF OnExpectedRevision, IInv, ChainInv
  <2>4. TypeOK'
    <3>1. chain' \in Seq({"edit", "reassign", "lock", "unlock"}) /\ rev' <= MaxRevision + 1
      BY <2>2, <2>3, <1>2, BoundsAssumption DEF rev
    <3>2. locked' \in BOOLEAN /\ saga' \in [Threads -> ThreadType] BY <1>6, <2>1 DEF Walks
    <3> QED BY <1>1, <1>6, <3>1, <3>2 DEF IInv, TypeOK, records, ThreadType
  <2>5. Onward BY <1>1, <1>2, <2>2 DEF Onward, records
  <2>6. ThreadInv(t)'
    BY <1>1, <1>2, <1>6, <2>1, <2>2 DEF ThreadInv, Kept, rev, records, Unrecorded, Planning, Running
  <2>7. ChainInv'
    <3>1. \A d \in 1 .. rev + 1 : chain'[d] = "reassign" => d = ask.rev + 1
      BY <1>2, <2>2, <2>3 DEF IInv, ChainInv
    <3>2. \E d \in 1 .. rev + 1 : chain'[d] = "reassign" BY <1>2, <2>2
    <3> QED BY <1>1, <1>2, <2>2, <2>3, <3>1, <3>2 DEF ChainInv, rev, records
  <2>8. PlansInv' /\ RunInv' BY <1>1, <1>6 DEF IInv, PlansInv, RunInv, records
  <2>9. LockInv'
    <3>1. command.lockRev \in Nat \cup {Unset} /\ command.lockRev <= rev BY DEF IInv, LockInv, TypeOK
    <3> QED BY <1>1, <1>2, <1>6, <2>2, <3>1 DEF LockInv, Kept, rev, records, Unset
  <2> QED BY <2>1, <2>4, <2>5, <2>6, <2>7, <2>8, <2>9, ThreadStep
<1> QED BY <1>4, <1>5, <1>6 DEF SaveLock

\* What a publication adds.
LEMMA PlanAdded ==
  ASSUME IInv, NEW w \in {"reassign", "replan", "other"}, AddPlan(w)
  PROVE  /\ plans' \in Seq(PlanType) /\ Len(plans') = Len(plans) + 1 /\ Len(plans) \in Nat
         /\ \A n \in 1 .. Len(plans) : plans'[n] = plans[n]
         /\ plans'[Len(plans) + 1] = [rev |-> rev, locked |-> locked, by |-> w]
         /\ active' = Len(plans')
<1>1. plans \in Seq(PlanType) /\ rev \in Nat /\ locked \in BOOLEAN
  BY DEF IInv, TypeOK, PlanType, rev
<1> DEFINE p == [rev |-> rev, locked |-> locked, by |-> w]
<1>2. p \in PlanType BY <1>1 DEF PlanType
<1>3. plans' = Append(plans, p) /\ active' = Len(plans) + 1 BY DEF AddPlan
<1> HIDE DEF p
<1>4. /\ plans' \in Seq(PlanType) /\ Len(plans') = Len(plans) + 1 /\ Len(plans) \in Nat
      /\ \A n \in 1 .. Len(plans) : plans'[n] = plans[n]
      /\ plans'[Len(plans) + 1] = p
  BY <1>1, <1>2, <1>3
<1> QED BY <1>3, <1>4 DEF p

LEMMA PublishKeeps ==
  ASSUME IInv, NEW t \in Threads, Publish(t)
  PROVE  IInv'
<1>1. /\ Inside(t) /\ command.status # "NONE" /\ command.lockRev # Unset /\ run.status # "NONE"
      /\ UNCHANGED <<run, ask, mutex, restarts>>
  BY DEF Publish, At, Inside, IInv, ThreadInv, Unrecorded, Planning, Running
<1>2. CASE FailSolve(t) /\ UNCHANGED <<tables, command>>
  BY <1>1, <1>2, Types, FailSolveTyped, QuietGo DEF IInv, RunInv, Step, Unrecorded, Planning, Running
<1>3. CASE /\ published = NoPlan
           /\ AddPlan("reassign") /\ published' = Len(plans) + 1
           /\ SetCommand("PLAN_PUBLISHED")
           /\ solve' = [solve EXCEPT !.status = "COMPLETED"]
           /\ Go(t, "finish")
           /\ UNCHANGED <<chain, locked>>
  <2>1. Walks(t) /\ saga'[t].at = "finish" /\ saga'[t].rev = saga[t].rev
    BY <1>1, <1>3, GoWalks DEF IInv, Step
  <2>2. /\ plans' \in Seq(PlanType) /\ Len(plans') = Len(plans) + 1 /\ Len(plans) \in Nat
        /\ \A n \in 1 .. Len(plans) : plans'[n] = plans[n]
        /\ plans'[Len(plans) + 1].by = "reassign"
        /\ active' = Len(plans')
    BY <1>3, PlanAdded
  <2>3. command' \in CommandType /\ command'.status = "PLAN_PUBLISHED" /\ command'.lockRev = command.lockRev
    BY <1>3, SetCommandTyped DEF CommandStatus, Resumable
  <2>4. solve' \in SolveType BY <1>3, Types DEF SolveType
  <2>5. TypeOK'
    BY <1>1, <1>3, <2>1, <2>2, <2>3, <2>4
       DEF IInv, TypeOK, rev, Walks, ThreadType, CommandType, SolveType, PlanType
  <2>6. Onward BY <1>1, <1>3, <2>3 DEF Onward, rev, IInv, TypeOK
  <2>7. ThreadInv(t)'
    BY <1>1, <1>3, <2>1, <2>3 DEF IInv, ThreadInv, rev, Inside, Unrecorded, Planning, Running
  <2>8. PlansInv'
    BY <1>3, <2>2 DEF IInv, PlansInv, NoPlan
  <2>9. ChainInv' /\ RunInv' /\ LockInv'
    BY <1>1, <1>3, <2>3 DEF IInv, ChainInv, RunInv, LockInv, Kept, rev
  <2> QED BY <2>1, <2>5, <2>6, <2>7, <2>8, <2>9, ThreadStep
<1> QED BY <1>2, <1>3 DEF Publish

----------------------------------------------------------------------------
(* The lock of the key.                                                    *)

LEMMA BusyIsFinite ==
  IsFiniteSet(Busy) /\ Cardinality(Busy) \in Nat /\ Cardinality(Busy) <= Cardinality(Threads)
  /\ IsFiniteSet(Busy') /\ Cardinality(Busy') \in Nat /\ Cardinality(Busy') <= Cardinality(Threads)
<1>1. Busy \subseteq Threads /\ Busy' \subseteq Threads BY DEF Busy
<1> QED BY <1>1, ThreadsAssumption, FS_Subset, FS_CardinalityType

LEMMA MutexTyped ==
  ASSUME IInv
  PROVE  /\ mutex.entry \in LockIds \cup {NoLock} /\ mutex.users \in Nat
         /\ mutex.held \in [LockIds -> Threads \cup {NoThread}]
         /\ (mutex.entry = NoLock) = (mutex.users = 0)
         /\ Cardinality(Threads) \in Nat
         /\ mutex \in MutexType
BY ThreadsAssumption, FS_CardinalityType DEF IInv, TypeOK, MutexType

LEMMA MutexChanged ==
  ASSUME NEW m \in MutexType, NEW e \in LockIds \cup {NoLock}, NEW n \in 0 .. Cardinality(Threads)
  PROVE  [m EXCEPT !.entry = e, !.users = n] \in MutexType
BY DEF MutexType

LEMMA HeldChanged ==
  ASSUME NEW m \in MutexType, NEW l \in LockIds, NEW x \in Threads \cup {NoThread}
  PROVE  [m EXCEPT !.held[l] = x] \in MutexType
BY DEF MutexType

\* A call that is not in the saga needs no record.
LEMMA OutsideInv ==
  ASSUME NEW t \in Threads, saga'[t].at \in {"waiting", "read", "idle"},
         saga'[t].rev <= Len(chain'), saga'[t].at # "idle" => ask'.rev # Unset
  PROVE  ThreadInv(t)'
BY DEF ThreadInv, rev, Unrecorded, Planning, Running

LEMMA AcquireKeeps ==
  ASSUME IInv, NEW t \in Threads, Acquire(t)
  PROVE  IInv'
<1> DEFINE l == saga[t].lock
           x == [saga[t] EXCEPT !.at = "read", !.rev = rev]
<1>1. /\ saga[t].at = "waiting" /\ l \in LockIds /\ l = mutex.entry /\ mutex.held[l] = NoThread
      /\ UNCHANGED <<tables, records, ask, restarts>>
  BY DEF Acquire, IInv, MutexInv
<1>2. rev \in Nat BY DEF IInv, TypeOK, rev
<1>3. x \in ThreadType /\ x.at = "read" /\ x.lock = l /\ x.rev = rev
  <2>1. saga[t] \in ThreadType BY DEF IInv, TypeOK, ThreadType
  <2>2. "read" \in Step BY DEF Step
  <2> QED BY <1>2, <2>1, <2>2 DEF ThreadType
<1>4. saga' = [saga EXCEPT ![t] = x] BY DEF Acquire
<1> HIDE DEF x
<1>5. /\ saga' \in [Threads -> ThreadType] /\ saga'[t] = x
      /\ \A u \in Threads \ {t} : saga'[u] = saga[u]
  BY <1>3, <1>4 DEF IInv, TypeOK, ThreadType
<1>6. mutex'.entry = mutex.entry /\ mutex'.users = mutex.users /\ mutex'.held = [mutex.held EXCEPT ![l] = t]
  BY MutexTyped DEF Acquire
<1>7. \A u \in Threads : ~Inside(u)
  BY <1>1, LocksAssumption DEF IInv, MutexInv, Inside
<1>8. TypeOK'
  <2>1. mutex' \in MutexType
    BY <1>1, MutexTyped, HeldChanged DEF Acquire
  <2> QED BY <1>1, <1>5, <1>6, <2>1 DEF IInv, TypeOK, tables, records, rev, ThreadType, MutexType
<1>9. MutexInv'
  <2>1. Busy' = Busy BY <1>1, <1>3, <1>5 DEF Busy
  <2>2. mutex'.held[l] = t BY <1>1, <1>6, MutexTyped
  <2>3. \A u \in Threads \ {t} : saga'[u].at \in {"idle", "waiting"} BY <1>5, <1>7 DEF Inside
  <2> QED BY <1>1, <1>3, <1>5, <1>6, <2>1, <2>2, <2>3 DEF IInv, MutexInv, Inside
<1>10. Onward BY <1>1, <1>2 DEF Onward, tables, records, rev
<1>11. \A u \in Threads : ThreadInv(u)'
  <2> SUFFICES ASSUME NEW u \in Threads PROVE ThreadInv(u)'
    OBVIOUS
  <2>1. CASE u # t
    <3>1. saga'[u] = saga[u] BY <1>5, <2>1
    <3> QED BY <1>8, <1>10, <3>1, OtherThreads DEF IInv, TypeOK
  <2>2. CASE u = t
    <3>1. ask.rev # Unset BY <1>1 DEF IInv, ThreadInv
    <3> QED BY <1>1, <1>2, <1>3, <1>5, <2>2, <3>1, OutsideInv DEF tables, rev
  <2> QED BY <2>1, <2>2
<1>12. ChainInv' /\ PlansInv' /\ LockInv' /\ RunInv'
  BY <1>1 DEF IInv, ChainInv, PlansInv, LockInv, RunInv, Kept, rev, tables, records
<1> QED BY <1>8, <1>9, <1>11, <1>12 DEF IInv

LEMMA EnterKeeps ==
  ASSUME IInv, NEW t \in Threads, Enter(t)
  PROVE  IInv'
<1>1. PICK l \in LockIds :
        /\ IF mutex.entry # NoLock THEN l = mutex.entry ELSE Free(l)
        /\ mutex' = [mutex EXCEPT !.entry = l, !.users = @ + 1]
        /\ saga' = [saga EXCEPT ![t] = [IdleThread EXCEPT !.at = "waiting", !.lock = l]]
  BY DEF Enter
<1> DEFINE x == [IdleThread EXCEPT !.at = "waiting", !.lock = l]
<1>2. x \in ThreadType /\ x.at = "waiting" /\ x.lock = l /\ x.rev = 0
  BY DEF IdleThread, ThreadType, Step, CommandStatus
<1> HIDE DEF x
<1>3. /\ saga' \in [Threads -> ThreadType] /\ saga'[t] = x
      /\ \A u \in Threads \ {t} : saga'[u] = saga[u]
  BY <1>1, <1>2 DEF IInv, TypeOK, ThreadType, x
<1>4. mutex'.entry = l /\ mutex'.users = mutex.users + 1 /\ mutex'.held = mutex.held
  BY <1>1, MutexTyped
<1>5. saga[t].at = "idle" /\ UNCHANGED <<tables, records, restarts>> BY DEF Enter
<1>6. Busy' = Busy \cup {t} /\ t \notin Busy
  BY <1>2, <1>3, <1>5 DEF Busy
<1>7. Cardinality(Busy') = mutex.users + 1
  BY <1>6, BusyIsFinite, FS_AddElement DEF IInv, MutexInv
<1>8. rev \in Nat /\ active \in Nat BY DEF IInv, TypeOK, rev
<1>9. ask' \in [rev : Nat \cup {Unset}, active : Nat] /\ ask'.rev # Unset /\ ask'.rev \in Nat /\ ask'.rev <= rev
      /\ (ask.rev # Unset => ask' = ask) /\ (ask.rev = Unset => ask'.rev = rev)
  <2>1. CASE ask.rev = Unset
    BY <1>8, <2>1 DEF Enter, Unset
  <2>2. CASE ask.rev # Unset
    BY <2>2 DEF Enter, IInv, TypeOK, ChainInv, Unset
  <2> QED BY <2>1, <2>2
<1>10. TypeOK'
  <2>1. mutex' \in MutexType
    <3> DEFINE n == mutex.users + 1
    <3>1. n \in 0 .. Cardinality(Threads) BY <1>7, BusyIsFinite, MutexTyped
    <3>2. mutex' = [mutex EXCEPT !.entry = l, !.users = n] BY <1>1
    <3> HIDE DEF n
    <3> QED BY <3>1, <3>2, MutexTyped, MutexChanged
  <2>2. (mutex'.entry = NoLock) = (mutex'.users = 0)
    BY <1>4, MutexTyped, LocksAssumption
  <2> QED BY <1>3, <1>5, <1>9, <2>1, <2>2 DEF IInv, TypeOK, tables, records, rev, ThreadType, MutexType
<1>11. MutexInv'
  <2>1. \A u \in Threads \ {t} : saga[u].at # "idle" => mutex.entry # NoLock
    BY LocksAssumption DEF IInv, MutexInv
  <2>2. \A u \in Threads \ {t} : saga[u].at # "idle" => saga[u].lock = l
    BY <1>1, <2>1 DEF IInv, MutexInv
  <2> QED BY <1>2, <1>3, <1>4, <1>7, <2>2 DEF IInv, MutexInv, Inside
<1>12. Onward BY <1>5, <1>8, <1>9 DEF Onward, tables, records, rev
<1>13. \A u \in Threads : ThreadInv(u)'
  <2> SUFFICES ASSUME NEW u \in Threads PROVE ThreadInv(u)'
    OBVIOUS
  <2>1. CASE u # t
    <3>1. saga'[u] = saga[u] BY <1>3, <2>1
    <3> QED BY <1>10, <1>12, <3>1, OtherThreads DEF IInv, TypeOK
  <2>2. CASE u = t
    BY <1>2, <1>3, <1>5, <1>8, <1>9, <2>2, OutsideInv DEF tables, rev
  <2> QED BY <2>1, <2>2
<1>14. ChainInv'
  <2>1. CASE ask.rev # Unset
    BY <1>5, <1>9, <2>1 DEF IInv, ChainInv, rev, tables, records
  <2>2. CASE ask.rev = Unset
    <3>1. \A d \in 1 .. rev : chain[d] # "reassign" BY <1>8, <2>2 DEF IInv, ChainInv, Unset
    <3> QED BY <1>5, <1>9, <3>1 DEF IInv, ChainInv, rev, tables, records
  <2> QED BY <2>1, <2>2
<1>15. PlansInv' /\ LockInv' BY <1>5 DEF IInv, PlansInv, LockInv, Kept, rev, tables, records
<1>16. RunInv' BY <1>5, <1>9 DEF IInv, RunInv, records
<1> QED BY <1>10, <1>11, <1>13, <1>14, <1>15, <1>16 DEF IInv

LEMMA LeaveKeeps ==
  ASSUME IInv, NEW t \in Threads, Leave(t)
  PROVE  IInv'
<1> DEFINE l == saga[t].lock
           released == [mutex EXCEPT !.held[l] = NoThread]
<1>1. /\ saga[t].at = "leave" /\ l \in LockIds /\ l = mutex.entry /\ mutex.held[l] = t
      /\ UNCHANGED <<tables, records, ask, restarts>>
  BY DEF Leave, IInv, MutexInv, Inside
<1>2. \A u \in Threads \ {t} : ~Inside(u) BY <1>1 DEF IInv, MutexInv, Inside
<1>3. IdleThread \in ThreadType /\ IdleThread.at = "idle" /\ IdleThread.lock = NoLock /\ IdleThread.rev = 0
  BY DEF IdleThread, ThreadType, Step, CommandStatus
<1>4. /\ saga' \in [Threads -> ThreadType] /\ saga'[t] = IdleThread
      /\ \A u \in Threads \ {t} : saga'[u] = saga[u]
  BY <1>3 DEF Leave, IInv, TypeOK, ThreadType
<1>5. mutex' = IF LastUser(t) THEN [released EXCEPT !.entry = NoLock, !.users = 0]
               ELSE [released EXCEPT !.users = @ - 1]
  BY <1>1 DEF Leave
<1>6. t \in Busy /\ Busy' = Busy \ {t} BY <1>1, <1>3, <1>4 DEF Busy
<1>7. Cardinality(Busy') = mutex.users - 1 /\ mutex.users \in Nat \ {0} /\ mutex.users <= Cardinality(Threads)
  BY <1>6, BusyIsFinite, MutexTyped, FS_RemoveElement, FS_EmptySet DEF IInv, MutexInv
<1>8. mutex'.held = [mutex.held EXCEPT ![l] = NoThread] /\ mutex'.users = mutex.users - 1
  BY <1>1, <1>5, <1>7, MutexTyped DEF LastUser
<1>9. mutex'.entry = IF mutex.users = 1 THEN NoLock ELSE mutex.entry
  BY <1>5, <1>7, MutexTyped DEF LastUser
<1>10. TypeOK'
  <2>1. mutex' \in MutexType
    <3>1. released \in MutexType /\ released.users = mutex.users /\ released.entry = mutex.entry
      BY <1>1, MutexTyped, HeldChanged DEF MutexType
    <3> DEFINE n == released.users - 1
    <3>2. n \in 0 .. Cardinality(Threads) /\ 0 \in 0 .. Cardinality(Threads)
      BY <1>7, <3>1, MutexTyped
    <3>3. \/ mutex' = [released EXCEPT !.entry = NoLock, !.users = 0]
          \/ mutex' = [released EXCEPT !.entry = released.entry, !.users = n]
      BY <1>5, <3>1 DEF MutexType
    <3> HIDE DEF released, n
    <3>4. released.entry \in LockIds \cup {NoLock} BY <3>1, MutexTyped
    <3>5. [released EXCEPT !.entry = NoLock, !.users = 0] \in MutexType BY <3>1, <3>2, MutexChanged
    <3>6. [released EXCEPT !.entry = released.entry, !.users = n] \in MutexType BY <3>1, <3>2, <3>4, MutexChanged
    <3> QED BY <3>3, <3>5, <3>6
  <2>2. (mutex'.entry = NoLock) = (mutex'.users = 0)
    BY <1>1, <1>7, <1>8, <1>9, LocksAssumption
  <2> QED BY <1>1, <1>4, <2>1, <2>2 DEF IInv, TypeOK, tables, records, rev, ThreadType, MutexType
<1>11. MutexInv'
  <2>1. \A u \in Threads \ {t} : saga[u].at # "idle" => mutex.users # 1
    <3> SUFFICES ASSUME NEW u \in Threads \ {t}, saga[u].at # "idle", mutex.users = 1 PROVE FALSE
      OBVIOUS
    <3>1. u \in Busy' BY <1>6 DEF Busy
    <3>2. Busy' = {} BY <1>7, BusyIsFinite, FS_EmptySet
    <3> QED BY <3>1, <3>2
  <2>2. \A u \in Threads : ~(saga'[u].at \notin {"idle", "waiting"}) BY <1>2, <1>3, <1>4 DEF Inside
  <2>3. \A u \in Threads : IF saga'[u].at = "idle" THEN saga'[u].lock = NoLock
                            ELSE saga'[u].lock \in LockIds /\ saga'[u].lock = mutex'.entry
    BY <1>3, <1>4, <1>9, <2>1 DEF IInv, MutexInv
  <2> QED BY <1>7, <1>8, <2>2, <2>3 DEF MutexInv, Inside
<1>12. Onward BY <1>1 DEF Onward, tables, records, rev, IInv, TypeOK
<1>13. \A u \in Threads : ThreadInv(u)'
  <2> SUFFICES ASSUME NEW u \in Threads PROVE ThreadInv(u)'
    OBVIOUS
  <2>1. CASE u # t
    <3>1. saga'[u] = saga[u] BY <1>4, <2>1
    <3> QED BY <1>10, <1>12, <3>1, OtherThreads DEF IInv, TypeOK
  <2>2. CASE u = t
    <3>1. 0 <= Len(chain') BY <1>1 DEF IInv, TypeOK, tables
    <3> QED BY <1>3, <1>4, <2>2, <3>1, OutsideInv
  <2> QED BY <2>1, <2>2
<1>14. ChainInv' /\ PlansInv' /\ LockInv' /\ RunInv'
  BY <1>1 DEF IInv, ChainInv, PlansInv, LockInv, RunInv, Kept, rev, tables, records
<1> QED BY <1>10, <1>11, <1>13, <1>14 DEF IInv

----------------------------------------------------------------------------
(* Everybody else.                                                         *)

LEMMA OthersStep ==
  ASSUME IInv, UNCHANGED <<saga, mutex>>, Onward, TypeOK',
         ChainInv', PlansInv', LockInv', RunInv'
  PROVE  IInv'
<1>1. MutexInv' BY DEF IInv, MutexInv, Busy, Inside
<1>2. \A u \in Threads : ThreadInv(u)' BY OtherThreads DEF IInv, TypeOK
<1> QED BY <1>1, <1>2 DEF IInv

LEMMA ChangeScenarioKeeps ==
  ASSUME IInv, ChangeScenario
  PROVE  IInv'
<1>1. /\ rev < MaxRevision
      /\ UNCHANGED <<active, plans, published, records, ask, saga, mutex, restarts>>
  BY DEF ChangeScenario
<1>2. PICK w \in {"edit", "lock", "unlock"} :
        Revise(w) /\ locked' \in BOOLEAN /\ (w = "unlock" \/ locked' \/ locked' = locked)
  BY DEF ChangeScenario, Edit, LockByOther, Unlock, IInv, TypeOK
<1>3. /\ chain' \in Seq({"edit", "reassign", "lock", "unlock"})
      /\ Len(chain') = rev + 1 /\ rev \in Nat /\ chain'[rev + 1] = w
      /\ \A d \in 1 .. rev : chain'[d] = chain[d]
      /\ \A r \in 0 .. rev : Kept(chain, locked, r) => Kept(chain', locked', r)
  BY <1>2, NoRevisionLost
<1>4. TypeOK'
  <2>1. rev' <= MaxRevision + 1 BY <1>1, <1>3, BoundsAssumption DEF rev
  <2> QED BY <1>1, <1>2, <1>3, <2>1 DEF IInv, TypeOK, records
<1>5. Onward BY <1>1, <1>3 DEF Onward, records
<1>6. ChainInv'
  <2>1. ~(rev + 1 > MaxRevision) BY <1>1, <1>3, BoundsAssumption
  <2>2. \A d \in 1 .. rev + 1 : chain'[d] = "reassign" => d \in 1 .. rev /\ chain[d] = "reassign"
    BY <1>3
  <2> QED BY <1>1, <1>3, <2>1, <2>2 DEF IInv, TypeOK, ChainInv, rev, records, Unset
<1>7. PlansInv' /\ RunInv' BY <1>1 DEF IInv, PlansInv, RunInv, records
<1>8. LockInv'
  <2>1. command.lockRev \in Nat \cup {Unset} /\ command.lockRev <= rev BY DEF IInv, LockInv, TypeOK
  <2>2. command.lockRev # Unset => Kept(chain', locked', command.lockRev)
    BY <1>3, <2>1 DEF IInv, LockInv
  <2> QED BY <1>1, <1>3, <2>1, <2>2 DEF LockInv, Kept, rev, records, Unset
<1> QED BY <1>1, <1>4, <1>5, <1>6, <1>7, <1>8, OthersStep

LEMMA PublishOtherKeeps ==
  ASSUME IInv, PublishOther
  PROVE  IInv'
<1>1. AddPlan("other") /\ UNCHANGED <<chain, locked, published, records, ask, saga, mutex, restarts>>
  BY DEF PublishOther
<1>2. /\ plans' \in Seq(PlanType) /\ Len(plans') = Len(plans) + 1 /\ Len(plans) \in Nat
      /\ \A n \in 1 .. Len(plans) : plans'[n] = plans[n]
      /\ plans'[Len(plans) + 1].by = "other"
      /\ active' = Len(plans')
  BY <1>1, PlanAdded
<1>3. TypeOK' BY <1>1, <1>2 DEF IInv, TypeOK, rev, records, PlanType
<1>4. Onward BY <1>1 DEF Onward, rev, records, IInv, TypeOK
<1>5. PlansInv' BY <1>1, <1>2 DEF IInv, PlansInv
<1>6. ChainInv' /\ LockInv' /\ RunInv'
  BY <1>1 DEF IInv, ChainInv, LockInv, RunInv, Kept, rev, records
<1> QED BY <1>1, <1>3, <1>4, <1>5, <1>6, OthersStep

LEMMA ReplanSameKeyKeeps ==
  ASSUME IInv, ReplanSameKey
  PROVE  IInv'
<1>1. /\ AddPlan("replan") /\ published = NoPlan /\ published' = Len(plans) + 1
      /\ solve' = [status |-> "COMPLETED", rev |-> rev]
      /\ UNCHANGED <<chain, locked, run, ask, saga, mutex, restarts>>
  BY DEF ReplanSameKey
<1>2. /\ plans' \in Seq(PlanType) /\ Len(plans') = Len(plans) + 1 /\ Len(plans) \in Nat
      /\ \A n \in 1 .. Len(plans) : plans'[n] = plans[n]
      /\ plans'[Len(plans) + 1].by = "replan"
      /\ active' = Len(plans')
  BY <1>1, PlanAdded
<1>3. command' \in CommandType /\ command'.lockRev = command.lockRev
      /\ (command.status # "NONE" => command'.status # "NONE")
  BY SetCommandTyped DEF ReplanSameKey, CommandStatus, Resumable
<1>4. TypeOK'
  BY <1>1, <1>2, <1>3 DEF IInv, TypeOK, rev, CommandType, PlanType
<1>5. Onward BY <1>1, <1>3 DEF Onward, rev, IInv, TypeOK
<1>6. PlansInv'
  <2>1. \A n \in 1 .. Len(plans) : plans[n].by # "reassign" BY <1>1 DEF IInv, PlansInv, NoPlan
  <2> QED BY <1>1, <1>2, <2>1 DEF PlansInv
<1>7. ChainInv' /\ LockInv' /\ RunInv'
  BY <1>1, <1>3 DEF IInv, ChainInv, LockInv, RunInv, Kept, rev
<1> QED BY <1>1, <1>4, <1>5, <1>6, <1>7, OthersStep

LEMMA RestartKeeps ==
  ASSUME IInv, Restart
  PROVE  IInv'
<1>1. /\ saga' = [t \in Threads |-> IdleThread] /\ mutex' = NoMutex
      /\ UNCHANGED <<tables, command, ask>>
  BY DEF Restart
<1>2. IdleThread \in ThreadType /\ IdleThread.at = "idle" /\ IdleThread.lock = NoLock /\ IdleThread.rev = 0
  BY DEF IdleThread, ThreadType, Step, CommandStatus
<1>3. \A t \in Threads : saga'[t] = IdleThread BY <1>1
<1>4. run' \in RunType /\ run'.active = run.active /\ (run'.status = "NONE" <=> run.status = "NONE")
  BY Types DEF Restart, RunType
<1>5. solve' \in SolveType BY Types DEF Restart, RecoveredSolve, SolveType
<1>6. TypeOK'
  <2>1. mutex' \in MutexType /\ (mutex'.entry = NoLock) = (mutex'.users = 0)
    BY <1>1, MutexTyped DEF NoMutex, MutexType
  <2>2. saga' \in [Threads -> ThreadType] BY <1>1, <1>2
  <2>3. restarts' \in 0 .. MaxRestarts BY BoundsAssumption DEF Restart, IInv, TypeOK
  <2> QED BY <1>1, <1>4, <1>5, <2>1, <2>2, <2>3
          DEF IInv, TypeOK, tables, rev, ThreadType, RunType, SolveType, MutexType
<1>7. MutexInv'
  <2>1. Busy' = {} BY <1>2, <1>3 DEF Busy
  <2>2. mutex'.users = Cardinality(Busy') BY <1>1, <2>1, FS_EmptySet DEF NoMutex
  <2> QED BY <1>2, <1>3, <2>2 DEF MutexInv, Inside
<1>8. \A u \in Threads : ThreadInv(u)'
  <2> SUFFICES ASSUME NEW u \in Threads PROVE ThreadInv(u)'
    OBVIOUS
  <2>1. 0 <= Len(chain') BY <1>1 DEF IInv, TypeOK, tables
  <2> QED BY <1>2, <1>3, <2>1, OutsideInv
<1>9. ChainInv' /\ PlansInv' /\ LockInv' /\ RunInv'
  BY <1>1, <1>4 DEF IInv, ChainInv, PlansInv, LockInv, RunInv, Kept, rev, tables
<1> QED BY <1>6, <1>7, <1>8, <1>9 DEF IInv

----------------------------------------------------------------------------
(* The theorems.                                                           *)

LEMMA InitHolds == Init => IInv
<1> SUFFICES ASSUME Init PROVE IInv
  OBVIOUS
<1>1. IdleThread \in ThreadType /\ IdleThread.at = "idle" /\ IdleThread.lock = NoLock /\ IdleThread.rev = 0
  BY DEF IdleThread, ThreadType, Step, CommandStatus
<1>2. Cardinality(Threads) \in Nat BY ThreadsAssumption, FS_CardinalityType
<1>3. chain = <<>> /\ plans = <<>> /\ rev = 0 /\ Len(plans) = 0 BY DEF Init, rev
<1>4. TypeOK
  <2>1. mutex \in MutexType /\ (mutex.entry = NoLock) = (mutex.users = 0)
    BY <1>2 DEF Init, NoMutex, MutexType
  <2>2. saga \in [Threads -> ThreadType] BY <1>1 DEF Init
  <2>3. chain \in Seq({"edit", "reassign", "lock", "unlock"}) /\ plans \in Seq(PlanType) BY <1>3
  <2>4. rev <= MaxRevision + 1 /\ restarts \in 0 .. MaxRestarts BY <1>3, BoundsAssumption DEF Init
  <2>5. {active, published} \subseteq 0 .. Len(plans) BY <1>3 DEF Init, NoPlan
  <2>6. /\ command \in CommandType /\ solve \in SolveType /\ run \in RunType
        /\ ask \in [rev : Nat \cup {Unset}, active : Nat] /\ locked \in BOOLEAN
    BY DEF Init, CommandType, CommandStatus, SolveType, RunType, NoPlan
  <2> QED BY <2>1, <2>2, <2>3, <2>4, <2>5, <2>6
          DEF TypeOK, ThreadType, MutexType, PlanType, CommandType, SolveType, RunType
<1>5. MutexInv
  <2>1. Busy = {} BY <1>1 DEF Init, Busy
  <2>2. mutex.users = Cardinality(Busy) BY <2>1, FS_EmptySet DEF Init, NoMutex
  <2> QED BY <1>1, <2>2 DEF Init, MutexInv, Inside
<1>6. \A t \in Threads : ThreadInv(t)
  BY <1>1, <1>3 DEF Init, ThreadInv, Unrecorded, Planning, Running
<1>7. ChainInv /\ PlansInv /\ LockInv /\ RunInv
  BY <1>3, BoundsAssumption DEF Init, ChainInv, PlansInv, LockInv, RunInv, Unset
<1> QED BY <1>4, <1>5, <1>6, <1>7 DEF IInv

LEMMA StutterKeeps ==
  ASSUME IInv, UNCHANGED vars
  PROVE  IInv'
<1>1. Onward BY DEF Onward, vars, tables, records, rev, IInv, TypeOK
<1>2. TypeOK' BY DEF IInv, TypeOK, vars, tables, records, rev
<1>3. ChainInv' /\ PlansInv' /\ LockInv' /\ RunInv'
  BY DEF IInv, ChainInv, PlansInv, LockInv, RunInv, Kept, vars, tables, records, rev
<1> QED BY <1>1, <1>2, <1>3, OthersStep DEF vars

LEMMA StepKeeps == IInv /\ [Next]_vars => IInv'
<1> SUFFICES ASSUME IInv, [Next]_vars PROVE IInv'
  OBVIOUS
<1>1. ASSUME NEW t \in Threads, SagaStep(t) PROVE IInv'
  BY <1>1, AcquireKeeps, LeaveKeeps, LookKeeps, BeginKeeps, CheckKeeps, SaveLockKeeps, EndingsKeep,
     CommitLockKeeps, ResumeKeeps, ReplanKeeps, PrepareKeeps, RecordRunKeeps, SolveKeeps,
     CompleteKeeps, PublishKeeps
     DEF SagaStep
<1> QED BY <1>1, EnterKeeps, ChangeScenarioKeeps, PublishOtherKeeps, ReplanSameKeyKeeps,
           RestartKeeps, StutterKeeps
        DEF Next

\* The inductive invariant: the lock object counts and holds the calls, what
\* each call has read is still so, and every record of the saga names the lock,
\* the run and the plan that are there.
THEOREM IInvHolds == Spec => []IInv
<1> QED BY InitHolds, StepKeeps, PTL DEF Spec

LEMMA IInvIsConsistent == IInv => Consistent
<1> SUFFICES ASSUME IInv PROVE Consistent
  OBVIOUS
<1>1. OneSagaAtATime
  <2> SUFFICES ASSUME NEW t \in Threads, NEW u \in Threads, Inside(t), Inside(u) PROVE t = u
    BY DEF OneSagaAtATime, Inside
  <2>1. saga[t].lock = mutex.entry /\ saga[u].lock = mutex.entry BY DEF IInv, MutexInv, Inside
  <2> QED BY <2>1 DEF IInv, MutexInv
<1>2. LockIsRecorded
  BY DEF LockIsRecorded, IInv, TypeOK, ChainInv, rev
<1> QED BY <1>1, <1>2 DEF Consistent, IInv

\* _manual_reassignment under its lock object per key: whatever the process
\* does and wherever it dies, one call works on the saga, and a lock it saved
\* is on record in command_keys.
THEOREM SagaIsConsistent == Spec => []Consistent
<1> QED BY IInvHolds, IInvIsConsistent, PTL

LEMMA AtMostOne ==
  ASSUME NEW S, NEW x, S \subseteq {x}
  PROVE  Cardinality(S) <= 1
<1>1. S = {} \/ S = {x} OBVIOUS
<1>2. Cardinality({}) = 0 /\ Cardinality({x}) = 1 BY FS_EmptySet, FS_Singleton
<1> QED BY <1>1, <1>2

LEMMA IInvIsOnceEach == IInv => OnceEach
<1> SUFFICES ASSUME IInv PROVE OnceEach
  OBVIOUS
<1>1. {d \in DOMAIN chain : chain[d] = "reassign"} \subseteq {ask.rev + 1}
  BY DEF IInv, TypeOK, ChainInv, rev
<1>2. {n \in DOMAIN plans : plans[n].by = "reassign"} \subseteq {published}
  <2>1. plans \in Seq(PlanType) BY DEF IInv, TypeOK, PlanType
  <2>2. DOMAIN plans = 1 .. Len(plans) BY <2>1
  <2> QED BY <2>2 DEF IInv, PlansInv
<1> QED BY <1>1, <1>2, AtMostOne DEF OnceEach

\* A repeated request adds no second lock revision and no second plan, however
\* often it is sent and wherever the process died.
THEOREM RepeatedOnce == Spec => []OnceEach
<1> QED BY IInvHolds, IInvIsOnceEach, PTL

\* What PlannedOverSeenPlan says of one step.
ReplacesSeenPlan ==
  Len(plans') > Len(plans) /\ plans'[Len(plans')].by = "reassign" =>
    /\ active = ask.active
    /\ plans'[Len(plans')].rev >= command.lockRev
    /\ locked \/ \E d \in command.lockRev + 1 .. rev : chain[d] = "unlock"

LEMMA StepReplacesSeenPlan == IInv /\ [Next]_vars => [ReplacesSeenPlan]_vars
<1> SUFFICES ASSUME IInv, Next, Len(plans') > Len(plans), plans'[Len(plans')].by = "reassign"
             PROVE  /\ active = ask.active
                    /\ plans'[Len(plans')].rev >= command.lockRev
                    /\ locked \/ \E d \in command.lockRev + 1 .. rev : chain[d] = "unlock"
  BY DEF ReplacesSeenPlan
<1>1. Len(plans) \in Nat BY DEF IInv, TypeOK
<1>2. plans' # plans BY <1>1
<1>3. ~PublishOther
  <2> SUFFICES ASSUME PublishOther PROVE FALSE
    OBVIOUS
  <2>1. AddPlan("other") BY DEF PublishOther
  <2> QED BY <1>1, <2>1, PlanAdded
<1>4. ~ReplanSameKey
  <2> SUFFICES ASSUME ReplanSameKey PROVE FALSE
    OBVIOUS
  <2>1. AddPlan("replan") BY DEF ReplanSameKey
  <2> QED BY <1>1, <2>1, PlanAdded
<1>5. PICK t \in Threads : Publish(t)
  BY <1>2, <1>3, <1>4
     DEF Next, SagaStep, tables, Enter, Acquire, Leave, Look, Begin, Check, SaveLock, FailUnlocked,
         CommitLock, Resume, Replan, Prepare, RecordRun, Solve, Complete, Finish, FailAfterLock,
         ChangeScenario, Restart
<1>6. StillReserved /\ AddPlan("reassign")
  BY <1>2, <1>5 DEF Publish, tables
<1>7. plans'[Len(plans')].rev = rev
  BY <1>1, <1>6, PlanAdded
<1>8. run.status # "NONE" /\ command.lockRev # Unset
  BY <1>5 DEF Publish, At, IInv, ThreadInv, Running, Planning
<1>9. active = ask.active BY <1>6, <1>8 DEF StillReserved, IInv, RunInv
<1>10. command.lockRev <= rev /\ Kept(chain, locked, command.lockRev)
  BY <1>8 DEF IInv, LockInv
<1>11. command.lockRev \in Nat /\ rev \in Nat BY <1>8 DEF IInv, TypeOK, rev
<1> QED BY <1>7, <1>9, <1>10, <1>11 DEF Kept, rev

\* The plan a manual reassignment publishes replaces the one the dispatcher had
\* seen, on a revision that is not older than the lock it asked for.
THEOREM PlanReplacesTheSeenOne == Spec => PlannedOverSeenPlan
<1>1. Spec => [][ReplacesSeenPlan]_vars
  BY IInvHolds, StepReplacesSeenPlan, PTL DEF Spec
<1> QED BY <1>1 DEF PlannedOverSeenPlan, ReplacesSeenPlan
=============================================================================

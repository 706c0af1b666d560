--------------------------- MODULE AnalysisProofs ---------------------------
(***************************************************************************)
(* The analyses of a plan and the risk comparisons that are made of them,  *)
(* each for any number of requests, threads, analyses and restarts.        *)
(*                                                                         *)
(* DecisionAnalysis: no analysis runs that nobody computes, jobs and       *)
(* commands name completed analyses, and only its owner's attempt or a     *)
(* restart interrupts an analysis.                                         *)
(*                                                                         *)
(* RiskComparison: what is compared is completed, a completed saga stays,  *)
(* and a key is answered with one comparison.                              *)
(***************************************************************************)
EXTENDS DecisionAnalysis, RiskComparison, JobRowProofs, FiniteSetTheorems, SequenceTheorems

------------------------------------------------------------------------------
(* DecisionAnalysis: the inductive invariant.                               *)

\* Before it makes an analysis, and while it computes one.
Early == {"none", "start", "resume", "begin", "reserve"}
Working == {"record", "compute", "finish"}
Holding == {"reserve", "conclude"} \cup Working

\* The latest attempt of a job is bound to the analysis it computes.
BoundTo(j, g, n) == bind[j] = [gen |-> g, run |-> n, owns |-> TRUE]

\* What an attempt may rely on while others write.  A retry says that its
\* analysis is completed when its job is; other jobs may follow the analysis of
\* another job, to which they stay bound.
ProcOK(r, g) ==
  LET p == proc[r][g] IN
  /\ p.at \in {"begin", "reserve", "record", "undo", "conclude"} => r \in Retries
  /\ p.at = "resume" => r \notin Retries
  /\ p.at \in Early => p.run = NoRun
  /\ p.at = "finish" => p.say \in {"COMPLETED", "FAILED"}
  /\ p.at = "undo" => r \in Jobs
  /\ p.at \in Working \cup {"conclude"} => p.run # NoRun
  /\ p.run # NoRun => runs[p.run].by = r
  /\ p.at \in Working /\ r \in Jobs /\ g = rows[r].gen => BoundTo(r, g, p.run)
  /\ p.at \in Holding /\ r \in Retries => command[r].status # "NONE"
  /\ p.at \in {"said", "conclude"} /\ p.say = "COMPLETED" /\ r \in Jobs =>
       /\ r \in Retries => rows[r].status = "COMPLETED"
       /\ p.run # NoRun => runs[p.run].status = "COMPLETED"
       /\ r \notin Retries /\ p.run = NoRun /\ g = rows[r].gen =>
            bind[r].run # NoRun /\ runs[bind[r].run].status = "COMPLETED"
ProcsInv == \A r \in Requests : \A g \in DOMAIN proc[r] : ProcOK(r, g)

\* The command of a synchronous retry is held by one call at most.
CallHolds(c, g) == g \in DOMAIN proc[c] /\ proc[c][g].at \in Holding
HeldInv ==
  \A c \in Callers \cap Retries : \A g \in DOMAIN proc[c] : CallHolds(c, g) =>
    /\ command[c].status \in {"RESERVED", "ANALYSIS_RESERVED"}
    /\ \A h \in DOMAIN proc[c] : CallHolds(c, h) => h = g

\* A running analysis belongs to the attempt that runs its job, or to the call
\* that computes it.
RunOK(n) ==
  LET r == runs[n].by
      g == runs[n].gen
      p == proc[r][g] IN
  runs[n].status = "RUNNING" =>
    /\ g \in DOMAIN proc[r]
    /\ r \in Jobs =>
         /\ rows[r].status = "RUNNING" /\ rows[r].gen = g /\ BoundTo(r, g, n)
         /\ p.at \in Working \cup {"undo", "dead"} \/ (p.at = "said" /\ p.say = "ERROR")
    /\ r \in Callers => p.at \in Working /\ p.run = n
RunsInv == \A n \in DOMAIN runs : RunOK(n)

BindOK(j) ==
  /\ Len(proc[j]) = rows[j].gen
  /\ rows[j].status = "ABSENT" => rows[j].gen = 0
  /\ bind[j].owns => bind[j].run # NoRun
  /\ bind[j].owns => runs[bind[j].run].by = j
  /\ j \in Retries /\ bind[j].run # NoRun => bind[j].owns
  /\ j \in Retries /\ command[j].run # NoRun => runs[command[j].run].by = j
BindsInv == \A j \in Jobs : BindOK(j)

ThreadOK(w) ==
  LET t == thread[w]
      p == proc[t.job][t.gen] IN
  /\ t.at = "idle" => t.job = NoJob
  /\ t.at # "idle" => t.job \in Jobs /\ t.gen = rows[t.job].gen /\ t.gen \in DOMAIN proc[t.job]
  /\ t.at = "spawn" => p.at = "none"
  /\ t.at = "report" => t.say \in {"COMPLETED", "FAILED", "CANCELLED", "INTERRUPTED"}
  /\ t.at = "follow" \/ (t.at = "report" /\ t.say = "COMPLETED") => p.at = "said" /\ p.say # "ERROR"
  /\ t.at = "report" /\ t.say = "COMPLETED" =>
       /\ t.run # NoRun /\ runs[t.run].status = "COMPLETED"
       /\ t.job \in Retries => rows[t.job].status = "COMPLETED"
ThreadsInv ==
  /\ \A w \in Workers : ThreadOK(w)
  /\ \A v, w \in Workers : thread[v].job = thread[w].job /\ thread[v].job # NoJob => v = w

IInv ==
  /\ TypeOK /\ ProcsInv /\ HeldInv /\ RunsInv /\ BindsInv /\ ThreadsInv
  /\ AnswerIsShared /\ RetryAnswers

------------------------------------------------------------------------------
(* Shapes.                                                                  *)

RunType == [status : RunStatus, by : Requests, gen : Nat]
BindType(n) == [gen : Nat, run : 0 .. n, owns : BOOLEAN]
CommandType(n) == [status : CommandStatus, run : 0 .. n, of : 0 .. n]
ProcType(n) == [at : Place, w : Workers \cup {NoWorker}, run : 0 .. n,
                say : RunStatus \cup {"NOTHING", "ERROR"}]
ThreadType(n) == [at : {"idle", "spawn", "report", "failing"} \cup Watching, job : Jobs \cup {NoJob},
                  gen : Nat, say : Status, run : 0 .. n]

LEMMA Types ==
  TypeOK <=>
    /\ rows \in [Jobs -> Row]
    /\ result \in [Jobs -> 0 .. Len(runs)]
    /\ runs \in Seq(RunType)
    /\ bind \in [Jobs -> BindType(Len(runs))]
    /\ command \in [Retries -> CommandType(Len(runs))]
    /\ proc \in [Requests -> Seq(ProcType(Len(runs)))]
    /\ thread \in [Workers -> ThreadType(Len(runs))]
    /\ process \in [stopping : BOOLEAN, restarts : 0 .. MaxRestarts]
BY DEF TypeOK, RunType, BindType, CommandType, ProcType, ThreadType

LEMMA TypesNext ==
  TypeOK' <=>
    /\ rows' \in [Jobs -> Row]
    /\ result' \in [Jobs -> 0 .. Len(runs')]
    /\ runs' \in Seq(RunType)
    /\ bind' \in [Jobs -> BindType(Len(runs'))]
    /\ command' \in [Retries -> CommandType(Len(runs'))]
    /\ proc' \in [Requests -> Seq(ProcType(Len(runs')))]
    /\ thread' \in [Workers -> ThreadType(Len(runs'))]
    /\ process' \in [stopping : BOOLEAN, restarts : 0 .. MaxRestarts]
BY DEF TypeOK, RunType, BindType, CommandType, ProcType, ThreadType

LEMMA Indices ==
  ASSUME TypeOK
  PROVE  /\ Len(runs) \in Nat /\ DOMAIN runs = 1 .. Len(runs)
         /\ \A n \in DOMAIN runs : runs[n] \in RunType
         /\ \A r \in Requests : /\ Len(proc[r]) \in Nat /\ DOMAIN proc[r] = 1 .. Len(proc[r])
                                /\ \A g \in DOMAIN proc[r] : proc[r][g] \in ProcType(Len(runs))
<1>1. runs \in Seq(RunType) /\ proc \in [Requests -> Seq(ProcType(Len(runs)))] BY Types
<1>2. /\ Len(runs) \in Nat /\ DOMAIN runs = 1 .. Len(runs)
      /\ \A n \in DOMAIN runs : runs[n] \in RunType
  BY <1>1, LenProperties, ElementOfSeq
<1>3. ASSUME NEW r \in Requests
      PROVE  /\ Len(proc[r]) \in Nat /\ DOMAIN proc[r] = 1 .. Len(proc[r])
             /\ \A g \in DOMAIN proc[r] : proc[r][g] \in ProcType(Len(runs))
  <2>1. proc[r] \in Seq(ProcType(Len(runs))) BY <1>1
  <2> QED BY <2>1, LenProperties, ElementOfSeq
<1> QED BY <1>2, <1>3

\* A table that admits one more analysis admits what it did.
LEMMA MoreAnalyses ==
  ASSUME NEW m \in Nat, NEW n \in Nat, m <= n
  PROVE  /\ BindType(m) \subseteq BindType(n) /\ CommandType(m) \subseteq CommandType(n)
         /\ ProcType(m) \subseteq ProcType(n) /\ ThreadType(m) \subseteq ThreadType(n)
         /\ 0 .. m \subseteq 0 .. n
<1>1. 0 .. m \subseteq 0 .. n OBVIOUS
<1>2. BindType(m) \subseteq BindType(n) BY <1>1 DEF BindType
<1>3. CommandType(m) \subseteq CommandType(n) BY <1>1 DEF CommandType
<1>4. ProcType(m) \subseteq ProcType(n) BY <1>1 DEF ProcType
<1>5. ThreadType(m) \subseteq ThreadType(n) BY <1>1 DEF ThreadType
<1> QED BY <1>1, <1>2, <1>3, <1>4, <1>5

\* One attempt moves, all others stay.
Moved(r, g, q) ==
  /\ \A s \in Requests : Len(proc'[s]) = Len(proc[s]) /\ DOMAIN proc'[s] = DOMAIN proc[s]
  /\ proc'[r][g] = q
  /\ \A s \in Requests : \A h \in DOMAIN proc[s] :
       (s = r /\ h = g) \/ proc'[s][h] = proc[s][h]

LEMMA MoveOne ==
  ASSUME TypeOK, NEW r \in Requests, NEW g \in DOMAIN proc[r], NEW n \in Nat, Len(runs) <= n,
         NEW q \in ProcType(n), proc' = [proc EXCEPT ![r] = [proc[r] EXCEPT ![g] = q]]
  PROVE  Moved(r, g, q) /\ proc' \in [Requests -> Seq(ProcType(n))]
<1> DEFINE P == ProcType(n)
<1>1. /\ proc \in [Requests -> Seq(ProcType(Len(runs)))] /\ Len(runs) \in Nat
      /\ \A s \in Requests : /\ Len(proc[s]) \in Nat /\ DOMAIN proc[s] = 1 .. Len(proc[s])
                             /\ \A h \in DOMAIN proc[s] : proc[s][h] \in ProcType(Len(runs))
  BY Types, Indices
<1>2. \A s \in Requests : proc[s] \in Seq(P)
  <2> SUFFICES ASSUME NEW s \in Requests PROVE proc[s] \in Seq(P)
    OBVIOUS
  <2>1. \A h \in 1 .. Len(proc[s]) : proc[s][h] \in P BY <1>1, MoreAnalyses
  <2>2. proc[s] \in Seq(ProcType(Len(runs))) BY <1>1
  <2> HIDE DEF P
  <2>3. proc[s] = [h \in 1 .. Len(proc[s]) |-> proc[s][h]] BY <2>2
  <2> QED BY <1>1, <2>1, <2>3
<1> HIDE DEF P
<1> DEFINE x == [proc[r] EXCEPT ![g] = q]
<1>3. /\ x \in Seq(P) /\ Len(x) = Len(proc[r])
      /\ \A h \in 1 .. Len(proc[r]) : x[h] = IF h = g THEN q ELSE proc[r][h]
  <2>1. q \in P /\ g \in 1 .. Len(proc[r]) BY <1>1 DEF P
  <2> QED BY <1>2, <2>1, ExceptSeq
<1> HIDE DEF x
<1>4. proc' = [proc EXCEPT ![r] = x] BY DEF x
<1>5. proc'[r] = x /\ \A s \in Requests : s # r => proc'[s] = proc[s] BY <1>1, <1>4
<1>6. proc' \in [Requests -> Seq(P)] BY <1>1, <1>2, <1>3, <1>4
<1>7. DOMAIN x = 1 .. Len(x) BY <1>3, LenProperties
<1> QED BY <1>1, <1>3, <1>5, <1>6, <1>7 DEF Moved, P

------------------------------------------------------------------------------
(* What a step leaves true of the attempts, analyses and threads it does    *)
(* not move.                                                                *)

\* Analyses are never lost, and an ended one never changes; a completed job
\* stays so, and a command that was used is never unused again.
Onward ==
  /\ \A n \in DOMAIN runs :
       /\ n \in DOMAIN runs' /\ runs'[n].by = runs[n].by /\ runs'[n].gen = runs[n].gen
       /\ runs[n].status # "RUNNING" => runs'[n].status = runs[n].status
  /\ \A j \in Jobs : rows[j].status = "COMPLETED" => rows'[j].status = "COMPLETED"
  /\ \A r \in Retries : command[r].status # "NONE" => command'[r].status # "NONE"

LEMMA ProcStays ==
  ASSUME TypeOK, Onward, NEW s \in Requests, NEW h \in DOMAIN proc[s], ProcOK(s, h),
         proc'[s][h] = proc[s][h],
         s \in Jobs /\ h = rows'[s].gen => h = rows[s].gen /\ bind'[s] = bind[s]
  PROVE  ProcOK(s, h)'
<1> DEFINE p == proc[s][h]
<1>1. p \in ProcType(Len(runs)) /\ DOMAIN runs = 1 .. Len(runs) BY Indices
<1>2. s \in Jobs => bind[s] \in BindType(Len(runs)) BY Types
<1>3. p.run # NoRun => p.run \in DOMAIN runs BY <1>1 DEF ProcType, NoRun
<1>4. s \in Jobs /\ bind[s].run # NoRun => bind[s].run \in DOMAIN runs
  BY <1>1, <1>2 DEF BindType, NoRun
<1> HIDE DEF p
<1>5. proc'[s][h] = p /\ proc[s][h] = p BY DEF p
<1>6. p.run # NoRun => runs[p.run].by = s /\ runs'[p.run].by = s BY <1>3, <1>5 DEF ProcOK, Onward
<1>7. p.at \in Working /\ s \in Jobs /\ h = rows'[s].gen =>
       bind'[s] = [gen |-> h, run |-> p.run, owns |-> TRUE]
  BY <1>5 DEF ProcOK, BoundTo
<1>8. p.at \in Holding /\ s \in Retries => command'[s].status # "NONE"
  BY <1>5 DEF ProcOK, Onward
<1>9. p.at \in {"said", "conclude"} /\ p.say = "COMPLETED" /\ s \in Jobs =>
       /\ s \in Retries => rows'[s].status = "COMPLETED"
       /\ p.run # NoRun => runs'[p.run].status = "COMPLETED"
       /\ s \notin Retries /\ p.run = NoRun /\ h = rows'[s].gen =>
            bind'[s].run # NoRun /\ runs'[bind'[s].run].status = "COMPLETED"
  <2> SUFFICES ASSUME p.at \in {"said", "conclude"}, p.say = "COMPLETED", s \in Jobs
               PROVE  /\ s \in Retries => rows'[s].status = "COMPLETED"
                      /\ p.run # NoRun => runs'[p.run].status = "COMPLETED"
                      /\ s \notin Retries /\ p.run = NoRun /\ h = rows'[s].gen =>
                           bind'[s].run # NoRun /\ runs'[bind'[s].run].status = "COMPLETED"
    OBVIOUS
  <2>1. s \in Retries => rows'[s].status = "COMPLETED" BY <1>5 DEF ProcOK, Onward
  <2>2. p.run # NoRun => runs'[p.run].status = "COMPLETED" BY <1>3, <1>5 DEF ProcOK, Onward
  <2>3. ASSUME s \notin Retries, p.run = NoRun, h = rows'[s].gen
        PROVE  bind'[s].run # NoRun /\ runs'[bind'[s].run].status = "COMPLETED"
    <3>1. h = rows[s].gen /\ bind'[s] = bind[s] BY <2>3
    <3>2. bind[s].run # NoRun /\ runs[bind[s].run].status = "COMPLETED"
      BY <2>3, <3>1, <1>5 DEF ProcOK
    <3> QED BY <3>1, <3>2, <1>4 DEF Onward
  <2> QED BY <2>1, <2>2, <2>3
<1> QED BY <1>5, <1>6, <1>7, <1>8, <1>9 DEF ProcOK, BoundTo

LEMMA RunStays ==
  ASSUME NEW n \in DOMAIN runs, RunOK(n), Onward,
         runs'[n].status = "RUNNING" => runs[n].status = "RUNNING",
         runs'[n].status = "RUNNING" =>
           LET r == runs[n].by
               g == runs[n].gen IN
           /\ r \in Requests
           /\ proc'[r][g] = proc[r][g] /\ (g \in DOMAIN proc[r] => g \in DOMAIN proc'[r])
           /\ r \in Jobs => /\ rows'[r].status = rows[r].status /\ rows'[r].gen = rows[r].gen
                            /\ bind'[r] = bind[r]
  PROVE  RunOK(n)'
BY DEF RunOK, Onward, BoundTo

LEMMA ThreadStays ==
  ASSUME TypeOK, Onward, NEW w \in Workers, ThreadOK(w), thread'[w] = thread[w],
         thread[w].at # "idle" =>
           LET j == thread[w].job
               g == thread[w].gen IN
           /\ rows'[j].gen = rows[j].gen
           /\ g \in DOMAIN proc'[j]
           /\ proc'[j][g] = proc[j][g] \/ proc[j][g].at \notin {"none", "said"}
  PROVE  ThreadOK(w)'
<1> DEFINE t == thread[w]
<1>1. t \in ThreadType(Len(runs)) /\ DOMAIN runs = 1 .. Len(runs) BY Types, Indices
<1>2. t.run # NoRun => t.run \in DOMAIN runs BY <1>1 DEF ThreadType, NoRun
<1> HIDE DEF t
<1>3. thread[w] = t /\ thread'[w] = t BY DEF t
<1>4. CASE t.at = "idle" BY <1>3, <1>4 DEF ThreadOK
<1>5. CASE t.at # "idle"
  <2>1. t.job \in Jobs /\ t.gen = rows'[t.job].gen /\ t.gen \in DOMAIN proc'[t.job]
    BY <1>3, <1>5 DEF ThreadOK
  <2>2. t.at = "spawn" => proc'[t.job][t.gen].at = "none" BY <1>3, <1>5 DEF ThreadOK
  <2>3. t.at = "follow" \/ (t.at = "report" /\ t.say = "COMPLETED") =>
          proc'[t.job][t.gen].at = "said" /\ proc'[t.job][t.gen].say # "ERROR"
    BY <1>3, <1>5 DEF ThreadOK
  <2>4. t.at = "report" /\ t.say = "COMPLETED" =>
          /\ t.run # NoRun /\ runs'[t.run].status = "COMPLETED"
          /\ t.job \in Retries => rows'[t.job].status = "COMPLETED"
    <3> SUFFICES ASSUME t.at = "report", t.say = "COMPLETED"
                 PROVE  /\ t.run # NoRun /\ runs'[t.run].status = "COMPLETED"
                        /\ t.job \in Retries => rows'[t.job].status = "COMPLETED"
      OBVIOUS
    <3>1. /\ t.run # NoRun /\ runs[t.run].status = "COMPLETED"
          /\ t.job \in Retries => rows[t.job].status = "COMPLETED"
      BY <1>3 DEF ThreadOK
    <3> QED BY <2>1, <3>1, <1>2 DEF Onward
  <2> QED BY <1>3, <1>5, <2>1, <2>2, <2>3, <2>4 DEF ThreadOK
<1> QED BY <1>4, <1>5

\* Where nothing is completed anew, the answers stay as they are.
LEMMA AnswersStay ==
  ASSUME TypeOK, Onward, AnswerIsShared, RetryAnswers,
         \A j \in Jobs : rows'[j].status = "COMPLETED" =>
           rows[j].status = "COMPLETED" /\ result'[j] = result[j],
         \A n \in DOMAIN runs' : runs'[n].status = "COMPLETED" =>
           n \in DOMAIN runs /\ runs[n].status = "COMPLETED",
         \A r \in Retries : command[r].status = "COMPLETED" =>
           command'[r].status = "COMPLETED" /\ command'[r].run = command[r].run
  PROVE  AnswerIsShared' /\ RetryAnswers'
<1>1. DOMAIN runs = 1 .. Len(runs) /\ \A j \in Jobs : result[j] \in 0 .. Len(runs)
  BY Types, Indices
<1>2. ASSUME NEW j \in Jobs, rows'[j].status = "COMPLETED"
      PROVE  result'[j] # NoRun /\ runs'[result'[j]].status = "COMPLETED"
  <2>1. result'[j] = result[j] /\ result[j] # NoRun /\ runs[result[j]].status = "COMPLETED"
    BY <1>2 DEF AnswerIsShared
  <2>2. result[j] \in DOMAIN runs BY <1>1, <2>1 DEF NoRun
  <2> QED BY <2>1, <2>2 DEF Onward
<1>3. ASSUME NEW n \in DOMAIN runs', runs'[n].status = "COMPLETED", runs'[n].by \in Jobs
      PROVE  rows'[runs'[n].by].status = "COMPLETED" /\ result'[runs'[n].by] = n
  <2>1. n \in DOMAIN runs /\ runs[n].status = "COMPLETED" /\ runs'[n].by = runs[n].by
    BY <1>3 DEF Onward
  <2>2. rows[runs[n].by].status = "COMPLETED" /\ result[runs[n].by] = n
    BY <1>3, <2>1 DEF AnswerIsShared
  <2>3. rows'[runs[n].by].status = "COMPLETED" BY <1>3, <2>1, <2>2 DEF Onward
  <2> QED BY <1>3, <2>1, <2>2, <2>3
<1>4. ASSUME NEW j \in Jobs \cap Retries, rows'[j].status = "COMPLETED"
      PROVE  command'[j].status = "COMPLETED" /\ command'[j].run = result'[j]
  BY <1>4 DEF RetryAnswers
<1>5. AnswerIsShared' BY <1>2, <1>3 DEF AnswerIsShared
<1>6. RetryAnswers' BY <1>4 DEF RetryAnswers
<1> QED BY <1>5, <1>6

------------------------------------------------------------------------------
(* One attempt moves, and perhaps its command.                              *)

LEMMA HeldStays ==
  ASSUME HeldInv, NEW r \in Requests, NEW g \in DOMAIN proc[r], NEW q, Moved(r, g, q),
         \A s \in Retries : s # r => command'[s] = command[s],
         r \in Callers \cap Retries =>
           \/ q.at \notin Holding /\ (command'[r] = command[r] \/ proc[r][g].at \in Holding)
           \/ /\ q.at \in Holding /\ command'[r].status \in {"RESERVED", "ANALYSIS_RESERVED"}
              /\ \/ proc[r][g].at \in Holding
                 \/ command[r].status \notin {"RESERVED", "ANALYSIS_RESERVED"}
  PROVE  HeldInv'
<1> SUFFICES ASSUME NEW c \in Callers \cap Retries, NEW h \in DOMAIN proc'[c],
                    proc'[c][h].at \in Holding
             PROVE  /\ command'[c].status \in {"RESERVED", "ANALYSIS_RESERVED"}
                    /\ \A i \in DOMAIN proc'[c] : proc'[c][i].at \in Holding => i = h
  BY DEF HeldInv, CallHolds
<1>1. c \in Requests /\ DOMAIN proc'[c] = DOMAIN proc[c] BY DEF Requests, Moved
<1>2. CASE c # r
  <2>1. \A i \in DOMAIN proc[c] : proc'[c][i] = proc[c][i] BY <1>1, <1>2 DEF Moved
  <2>2. command'[c] = command[c] BY <1>2
  <2> QED BY <2>1, <2>2, <1>1 DEF HeldInv, CallHolds
<1>3. CASE c = r
  <2>1. \A i \in DOMAIN proc[r] : i # g => proc'[r][i] = proc[r][i] BY DEF Moved
  <2>2. proc'[r][g] = q BY DEF Moved
  <2>3. \A i \in DOMAIN proc[r] : proc[r][i].at \in Holding =>
          /\ command[r].status \in {"RESERVED", "ANALYSIS_RESERVED"}
          /\ \A k \in DOMAIN proc[r] : proc[r][k].at \in Holding => k = i
    BY <1>3 DEF HeldInv, CallHolds
  <2>4. CASE q.at \notin Holding
    <3>1. h # g /\ proc[r][h].at \in Holding BY <2>1, <2>2, <2>4, <1>1, <1>3
    <3>2. command'[r] = command[r] BY <3>1, <2>3, <2>4, <1>1, <1>3
    <3> QED BY <3>1, <3>2, <2>1, <2>2, <2>3, <2>4, <1>1, <1>3
  <2>5. CASE q.at \in Holding
    <3>1. \A i \in DOMAIN proc[r] : proc[r][i].at \in Holding => i = g
      BY <2>3, <2>5, <1>3
    <3> QED BY <3>1, <2>1, <2>2, <2>5, <1>1, <1>3
  <2> QED BY <2>4, <2>5
<1> QED BY <1>2, <1>3

LEMMA ThreadsStay ==
  ASSUME TypeOK, ThreadsInv, Onward, NEW r \in Requests, NEW g \in DOMAIN proc[r], NEW q,
         Moved(r, g, q), proc[r][g].at \notin {"none", "said"},
         \A j \in Jobs : rows'[j].gen = rows[j].gen, thread' = thread
  PROVE  ThreadsInv'
<1>1. ASSUME NEW w \in Workers PROVE ThreadOK(w)'
  <2>1. ThreadOK(w) /\ thread'[w] = thread[w] BY DEF ThreadsInv
  <2>2. thread[w].at # "idle" =>
          thread[w].job \in Requests /\ thread[w].job \in Jobs /\ thread[w].gen \in DOMAIN proc[thread[w].job]
    BY <2>1 DEF ThreadOK, Requests
  <2>3. thread[w].at # "idle" =>
         LET j == thread[w].job
             h == thread[w].gen IN
           /\ rows'[j].gen = rows[j].gen
           /\ h \in DOMAIN proc'[j]
           /\ proc'[j][h] = proc[j][h] \/ proc[j][h].at \notin {"none", "said"}
    BY <2>2 DEF Moved
  <2> QED BY <2>1, <2>3, ThreadStays
<1> QED BY <1>1 DEF ThreadsInv

LEMMA OneMoves ==
  ASSUME IInv, NEW r \in Requests, NEW g \in DOMAIN proc[r], NEW q \in ProcType(Len(runs)),
         UNCHANGED <<rows, result, runs, bind>>,
         process' \in [stopping : BOOLEAN, restarts : 0 .. MaxRestarts],
         Moved(r, g, q), proc' \in [Requests -> Seq(ProcType(Len(runs)))],
         command' \in [Retries -> CommandType(Len(runs))],
         \A s \in Retries : s # r => command'[s] = command[s],
         r \in Retries =>
           /\ command[r].status # "NONE" => command'[r].status # "NONE"
           /\ command[r].status = "COMPLETED" => command'[r] = command[r]
           /\ r \in Jobs /\ command'[r].run # NoRun => runs[command'[r].run].by = r,
         ProcOK(r, g)',
         \A n \in DOMAIN runs :
           runs[n].by = r /\ runs[n].gen = g /\ runs[n].status = "RUNNING" => RunOK(n)',
         HeldInv', ThreadsInv', thread' \in [Workers -> ThreadType(Len(runs))]
  PROVE  IInv'
<1>1. TypeOK /\ ProcsInv /\ RunsInv /\ BindsInv /\ AnswerIsShared /\ RetryAnswers BY DEF IInv
<1>2. Len(runs) \in Nat /\ DOMAIN runs = 1 .. Len(runs) /\ runs' = runs /\ Len(runs) <= Len(runs)
      /\ \A n \in DOMAIN runs : runs[n] \in RunType
  BY <1>1, Indices
<1>3. Moved(r, g, q) /\ proc' \in [Requests -> Seq(ProcType(Len(runs)))] OBVIOUS
<1>4. TypeOK' BY <1>1, <1>2, <1>3, Types, TypesNext
<1>5. Onward
  <2>1. \A s \in Retries : command[s].status # "NONE" => command'[s].status # "NONE" OBVIOUS
  <2> QED BY <2>1 DEF Onward
<1>6. ProcsInv'
  <2>1. ASSUME NEW s \in Requests, NEW h \in DOMAIN proc'[s] PROVE ProcOK(s, h)'
    <3>1. h \in DOMAIN proc[s] BY <1>3 DEF Moved
    <3>2. CASE s = r /\ h = g BY <3>2
    <3>3. CASE ~(s = r /\ h = g)
      <4>1. proc'[s][h] = proc[s][h] BY <3>1, <3>3, <1>3 DEF Moved
      <4>2. ProcOK(s, h) BY <3>1, <1>1 DEF ProcsInv
      <4>3. s \in Jobs /\ h = rows'[s].gen => h = rows[s].gen /\ bind'[s] = bind[s] OBVIOUS
      <4> QED BY <3>1, <4>1, <4>2, <4>3, <1>1, <1>5, ProcStays
    <3> QED BY <3>2, <3>3
  <2> QED BY <2>1 DEF ProcsInv
<1>7. RunsInv'
  <2>1. ASSUME NEW n \in DOMAIN runs PROVE RunOK(n)'
    <3>1. RunOK(n) /\ runs[n] \in RunType BY <1>1, <1>2 DEF RunsInv
    <3>2. CASE runs[n].status # "RUNNING" BY <3>2, <1>2 DEF RunOK
    <3>3. CASE runs[n].status = "RUNNING" /\ runs[n].by = r /\ runs[n].gen = g BY <3>3
    <3>4. CASE runs[n].status = "RUNNING" /\ ~(runs[n].by = r /\ runs[n].gen = g)
      <4> DEFINE s == runs[n].by
                 h == runs[n].gen
      <4>1. s \in Requests /\ h \in DOMAIN proc[s] BY <3>1, <3>4 DEF RunType, RunOK
      <4>2. proc'[s][h] = proc[s][h] /\ DOMAIN proc'[s] = DOMAIN proc[s]
        BY <4>1, <3>4, <1>3 DEF Moved
      <4> QED BY <4>1, <4>2, <3>1, <1>5, RunStays
    <3> QED BY <3>2, <3>3, <3>4
  <2> QED BY <2>1, <1>2 DEF RunsInv
<1>8. BindsInv'
  <2>1. ASSUME NEW j \in Jobs PROVE BindOK(j)'
    <3>1. BindOK(j) /\ j \in Requests BY <1>1 DEF BindsInv, Requests
    <3>2. Len(proc'[j]) = Len(proc[j]) BY <3>1, <1>3 DEF Moved
    <3>3. j \in Retries /\ command'[j].run # NoRun => runs[command'[j].run].by = j
      BY <3>1 DEF BindOK
    <3> QED BY <3>1, <3>2, <3>3 DEF BindOK
  <2> QED BY <2>1 DEF BindsInv
<1>9. AnswerIsShared' /\ RetryAnswers'
  <2>1. \A s \in Retries : command[s].status = "COMPLETED" =>
          command'[s].status = "COMPLETED" /\ command'[s].run = command[s].run
    OBVIOUS
  <2> QED BY <2>1, <1>1, <1>5, AnswersStay
<1> QED BY <1>4, <1>6, <1>7, <1>8, <1>9 DEF IInv

\* Of a step of the attempt itself its thread sees nothing until it has said something.
LEMMA AttemptMoves ==
  ASSUME IInv, NEW r \in Requests, NEW g \in DOMAIN proc[r], NEW q \in ProcType(Len(runs)),
         UNCHANGED <<rows, result, runs, bind, thread, process>>,
         proc[r][g].at \notin {"none", "said"},
         Moved(r, g, q), proc' \in [Requests -> Seq(ProcType(Len(runs)))],
         command' \in [Retries -> CommandType(Len(runs))],
         \A s \in Retries : s # r => command'[s] = command[s],
         r \in Retries =>
           /\ command[r].status # "NONE" => command'[r].status # "NONE"
           /\ command[r].status = "COMPLETED" => command'[r] = command[r]
           /\ r \in Jobs /\ command'[r].run # NoRun => runs[command'[r].run].by = r,
         ProcOK(r, g)',
         \A n \in DOMAIN runs :
           runs[n].by = r /\ runs[n].gen = g /\ runs[n].status = "RUNNING" => RunOK(n)',
         r \in Callers \cap Retries =>
           \/ q.at \notin Holding /\ (command'[r] = command[r] \/ proc[r][g].at \in Holding)
           \/ /\ q.at \in Holding /\ command'[r].status \in {"RESERVED", "ANALYSIS_RESERVED"}
              /\ \/ proc[r][g].at \in Holding
                 \/ command[r].status \notin {"RESERVED", "ANALYSIS_RESERVED"}
  PROVE  IInv'
<1>1. TypeOK /\ HeldInv /\ ThreadsInv BY DEF IInv
<1>3. Moved(r, g, q) OBVIOUS
<1>4. Onward BY DEF Onward
<1>5. HeldInv' BY <1>1, <1>3, HeldStays
<1>6. ThreadsInv' BY <1>1, <1>3, <1>4, ThreadsStay
<1>7. /\ thread' \in [Workers -> ThreadType(Len(runs))]
      /\ process' \in [stopping : BOOLEAN, restarts : 0 .. MaxRestarts]
  BY <1>1, Types
<1> QED BY <1>5, <1>6, <1>7, OneMoves

------------------------------------------------------------------------------
(* The steps of an attempt that leave jobs and analyses alone.              *)

\* The ways in which a step writes down where an attempt is.
LEMMA MovesTo ==
  ASSUME TypeOK, NEW r \in Requests, NEW g \in DOMAIN proc[r],
         NEW q \in ProcType(Len(runs)), NEW new, proc' = new,
         new = [proc EXCEPT ![r] = [proc[r] EXCEPT ![g] = q]]
  PROVE  Moved(r, g, q) /\ proc' \in [Requests -> Seq(ProcType(Len(runs)))]
<1>1. Len(runs) \in Nat /\ Len(runs) <= Len(runs) BY Indices
<1> QED BY <1>1, MoveOne

LEMMA Goes ==
  ASSUME TypeOK, NEW r \in Requests, NEW g \in DOMAIN proc[r], NEW x \in Place, Go(r, g, x)
  PROVE  \E q \in ProcType(Len(runs)) :
           /\ Moved(r, g, q) /\ proc' \in [Requests -> Seq(ProcType(Len(runs)))]
           /\ q.at = x /\ q.run = proc[r][g].run /\ q.say = proc[r][g].say
<1> DEFINE q == [proc[r][g] EXCEPT !.at = x]
           new == [proc EXCEPT ![r][g].at = x]
<1>1. proc' = new BY DEF Go
<1>2. new = [proc EXCEPT ![r] = [proc[r] EXCEPT ![g] = q]] BY Zenon
<1>3. proc[r][g] \in ProcType(Len(runs)) BY Indices
<1>4. /\ q \in ProcType(Len(runs))
      /\ q.at = x /\ q.run = proc[r][g].run /\ q.say = proc[r][g].say
  BY <1>3 DEF ProcType
<1> HIDE DEF new, q
<1>5. Moved(r, g, q) /\ proc' \in [Requests -> Seq(ProcType(Len(runs)))] BY <1>1, <1>2, <1>4, MovesTo
<1> QED BY <1>4, <1>5

LEMMA GoesWith ==
  ASSUME TypeOK, NEW r \in Requests, NEW g \in DOMAIN proc[r], NEW x \in Place,
         NEW y \in RunStatus \cup {"NOTHING", "ERROR"},
         GoWith(r, g, x, y)
  PROVE  \E q \in ProcType(Len(runs)) :
           /\ Moved(r, g, q) /\ proc' \in [Requests -> Seq(ProcType(Len(runs)))]
           /\ q.at = x /\ q.run = proc[r][g].run /\ q.say = y
<1> DEFINE q == [proc[r][g] EXCEPT !.at = x, !.say = y]
           new == [proc EXCEPT ![r][g].at = x, ![r][g].say = y]
<1>1. proc' = new BY DEF GoWith
<1>2. new = [proc EXCEPT ![r] = [proc[r] EXCEPT ![g] = q]] OBVIOUS
<1>3. proc[r][g] \in ProcType(Len(runs)) BY Indices
<1>4. /\ q \in ProcType(Len(runs))
      /\ q.at = x /\ q.run = proc[r][g].run /\ q.say = y
  BY <1>3 DEF ProcType
<1> HIDE DEF new, q
<1>5. Moved(r, g, q) /\ proc' \in [Requests -> Seq(ProcType(Len(runs)))] BY <1>1, <1>2, <1>4, MovesTo
<1> QED BY <1>4, <1>5

LEMMA Says ==
  ASSUME TypeOK, NEW r \in Requests, NEW g \in DOMAIN proc[r],
         NEW y \in RunStatus \cup {"NOTHING", "ERROR"}, Say(r, g, y)
  PROVE  \E q \in ProcType(Len(runs)) :
           /\ Moved(r, g, q) /\ proc' \in [Requests -> Seq(ProcType(Len(runs)))]
           /\ q.at = "said" /\ q.run = proc[r][g].run /\ q.say = y
<1>1. "said" \in Place /\ GoWith(r, g, "said", y) BY DEF Place, Say
<1> QED BY <1>1, GoesWith

LEMMA Puts ==
  ASSUME TypeOK, NEW r \in Requests, NEW g \in DOMAIN proc[r], NEW q \in ProcType(Len(runs)),
         proc' = [proc EXCEPT ![r][g] = q]
  PROVE  Moved(r, g, q) /\ proc' \in [Requests -> Seq(ProcType(Len(runs)))]
<1>1. [proc EXCEPT ![r][g] = q] = [proc EXCEPT ![r] = [proc[r] EXCEPT ![g] = q]] OBVIOUS
<1> QED BY <1>1, MovesTo

LEMMA Facts ==
  ASSUME IInv, NEW r \in Requests, NEW g \in DOMAIN proc[r]
  PROVE  /\ TypeOK /\ ProcOK(r, g) /\ proc[r][g] \in ProcType(Len(runs))
         /\ Len(runs) \in Nat /\ DOMAIN runs = 1 .. Len(runs)
         /\ \A n \in DOMAIN runs : RunOK(n) /\ runs[n] \in RunType
         /\ command \in [Retries -> CommandType(Len(runs))]
         /\ r \in Jobs /\ r \in Retries /\ command[r].run # NoRun => runs[command[r].run].by = r
         /\ proc[r][g].run # NoRun => proc[r][g].run \in DOMAIN runs
         /\ \A s \in Retries : command[s].run # NoRun => command[s].run \in DOMAIN runs
<1>1. TypeOK /\ ProcsInv /\ RunsInv /\ BindsInv BY DEF IInv
<1>2. /\ proc[r][g] \in ProcType(Len(runs)) /\ Len(runs) \in Nat /\ DOMAIN runs = 1 .. Len(runs)
      /\ \A n \in DOMAIN runs : runs[n] \in RunType
  BY <1>1, Indices
<1>3. command \in [Retries -> CommandType(Len(runs))] BY <1>1, Types
<1>4. proc[r][g].run # NoRun => proc[r][g].run \in DOMAIN runs BY <1>2 DEF ProcType, NoRun
<1>5. \A s \in Retries : command[s].run # NoRun => command[s].run \in DOMAIN runs
  BY <1>2, <1>3 DEF CommandType, NoRun
<1> QED BY <1>1, <1>2, <1>3, <1>4, <1>5 DEF ProcsInv, RunsInv, BindsInv, BindOK

LEMMA Commands ==
  ASSUME TypeOK, NEW r \in Retries, NEW s \in CommandStatus, NEW n \in 0 .. Len(runs),
         command' = CommandTo(r, s, n)
  PROVE  /\ command' \in [Retries -> CommandType(Len(runs))]
         /\ command'[r].status = s /\ command'[r].run = n
         /\ \A x \in Retries : x # r => command'[x] = command[x]
<1> DEFINE c == [command[r] EXCEPT !.status = s, !.run = n]
<1>1. command \in [Retries -> CommandType(Len(runs))] BY Types
<1>2. command' = [command EXCEPT ![r] = c] BY Zenon DEF CommandTo
<1>3. c \in CommandType(Len(runs)) /\ c.status = s /\ c.run = n BY <1>1 DEF CommandType
<1> HIDE DEF c
<1> QED BY <1>1, <1>2, <1>3

LEMMA FailKeeps ==
  ASSUME IInv, NEW r \in Requests, NEW g \in DOMAIN proc[r], r \in Jobs,
         Fail(r, g), UNCHANGED <<tables, thread, process>>,
         proc[r][g].at \notin {"none", "said"}
  PROVE  IInv'
<1>1. /\ TypeOK /\ ProcOK(r, g)
      /\ \A n \in DOMAIN runs : RunOK(n)
      /\ command \in [Retries -> CommandType(Len(runs))]
      /\ r \in Jobs /\ r \in Retries /\ command[r].run # NoRun => runs[command[r].run].by = r
  BY Facts
<1>2. PICK q \in ProcType(Len(runs)) :
        /\ Moved(r, g, q) /\ proc' \in [Requests -> Seq(ProcType(Len(runs)))]
        /\ q.run = proc[r][g].run
        /\ r \in Retries => q.at = "undo"
        /\ r \notin Retries => q.at = "said" /\ q.say = "ERROR"
  <2>1. CASE r \in Retries
    <3>1. Go(r, g, "undo") /\ "undo" \in Place BY <2>1 DEF Fail, Place
    <3> QED BY <2>1, <3>1, <1>1, Goes
  <2>2. CASE r \notin Retries
    <3>1. Say(r, g, "ERROR") BY <2>2 DEF Fail
    <3> QED BY <2>2, <3>1, <1>1, Says
  <2> QED BY <2>1, <2>2
<1>3. proc'[r][g] = q /\ DOMAIN proc'[r] = DOMAIN proc[r] BY <1>2 DEF Moved
<1>4. r \notin Callers BY RequestsAssumption
<1>5. /\ rows' = rows /\ runs' = runs /\ bind' = bind /\ command' = command
      /\ result' = result /\ thread' = thread /\ process' = process
  BY DEF tables
<1>6. ProcOK(r, g)' BY <1>1, <1>2, <1>3, <1>5 DEF ProcOK, Early, Working, Holding
<1>7. \A n \in DOMAIN runs :
           runs[n].by = r /\ runs[n].gen = g /\ runs[n].status = "RUNNING" => RunOK(n)'
  <2> SUFFICES ASSUME NEW n \in DOMAIN runs, runs[n].by = r, runs[n].gen = g,
                      runs[n].status = "RUNNING"
               PROVE  RunOK(n)'
    OBVIOUS
  <2>1. RunOK(n) BY <1>1
  <2> QED BY <2>1, <1>2, <1>3, <1>4, <1>5 DEF RunOK, BoundTo
<1>8. /\ command' \in [Retries -> CommandType(Len(runs))]
      /\ \A s \in Retries : s # r => command'[s] = command[s]
      /\ r \in Retries =>
           /\ command[r].status # "NONE" => command'[r].status # "NONE"
           /\ command[r].status = "COMPLETED" => command'[r] = command[r]
           /\ r \in Jobs /\ command'[r].run # NoRun => runs[command'[r].run].by = r
      /\ r \notin Callers \cap Retries
  BY <1>1, <1>4, <1>5
<1> QED BY <1>2, <1>5, <1>6, <1>7, <1>8, AttemptMoves

LEMMA LookUpKeeps ==
  ASSUME IInv, NEW r \in Requests, NEW g \in DOMAIN proc[r], LookUp(r, g)
  PROVE  IInv'
<1> DEFINE p == proc[r][g]
           c == command[r]
<1>1. /\ TypeOK /\ ProcOK(r, g) /\ p \in ProcType(Len(runs))
      /\ \A n \in DOMAIN runs : RunOK(n) /\ runs[n] \in RunType
      /\ command \in [Retries -> CommandType(Len(runs))]
      /\ r \in Jobs /\ r \in Retries /\ command[r].run # NoRun => runs[command[r].run].by = r
      /\ \A s \in Retries : command[s].run # NoRun => command[s].run \in DOMAIN runs
  BY Facts
<1>2. r \in Retries /\ p.at = "start" BY DEF LookUp, At
<1>3. /\ rows' = rows /\ runs' = runs /\ bind' = bind /\ command' = command
      /\ result' = result /\ thread' = thread /\ process' = process
  BY DEF LookUp, tables
<1>4. PICK q \in ProcType(Len(runs)) :
        /\ Moved(r, g, q) /\ proc' \in [Requests -> Seq(ProcType(Len(runs)))]
        /\ q.run = p.run /\ q.at \in {"begin", "said"}
        /\ q.at = "said" /\ q.say = "COMPLETED" =>
             c.run # NoRun /\ runs[c.run].status = "COMPLETED"
  <2>1. CASE Go(r, g, "begin")
    <3>1. "begin" \in Place BY DEF Place
    <3> QED BY <2>1, <3>1, <1>1, Goes
  <2>2. ASSUME NEW x, Say(r, g, x), x = "ERROR" \/ (c.run # NoRun /\ x = runs[c.run].status)
        PROVE  \E q \in ProcType(Len(runs)) :
                 /\ Moved(r, g, q) /\ proc' \in [Requests -> Seq(ProcType(Len(runs)))]
                 /\ q.run = p.run /\ q.at \in {"begin", "said"}
                 /\ q.at = "said" /\ q.say = "COMPLETED" =>
                      c.run # NoRun /\ runs[c.run].status = "COMPLETED"
    <3>1. x \in RunStatus \cup {"NOTHING", "ERROR"}
      BY <1>1, <1>2, <2>2 DEF RunType
    <3> QED BY <2>2, <3>1, <1>1, Says
  <2>3. \/ Go(r, g, "begin")
        \/ \E x : Say(r, g, x) /\ (x = "ERROR" \/ (c.run # NoRun /\ x = runs[c.run].status))
    <3>1. CASE runs[c.of].status \notin {"FAILED", "INTERRUPTED"}
      <4>1. Say(r, g, "ERROR") BY <3>1 DEF LookUp
      <4> QED BY <4>1
    <3>2. CASE runs[c.of].status \in {"FAILED", "INTERRUPTED"} /\ c.status \in {"NONE", "FAILED_RETRYABLE"}
      BY <3>2 DEF LookUp
    <3>3. CASE runs[c.of].status \in {"FAILED", "INTERRUPTED"} /\ c.status \notin {"NONE", "FAILED_RETRYABLE"}
      <4>1. Say(r, g, IF c.run = NoRun THEN "ERROR" ELSE runs[c.run].status) BY <3>3 DEF LookUp
      <4> QED BY <4>1
    <3> QED BY <3>1, <3>2, <3>3
  <2> QED BY <2>1, <2>2, <2>3
<1>5. proc'[r][g] = q BY <1>4 DEF Moved
<1>6. q.at = "said" /\ q.say = "COMPLETED" /\ r \in Jobs => rows[r].status = "COMPLETED"
  <2> SUFFICES ASSUME q.at = "said", q.say = "COMPLETED", r \in Jobs
               PROVE  rows[r].status = "COMPLETED"
    OBVIOUS
  <2>1. c.run \in DOMAIN runs /\ runs[c.run].status = "COMPLETED" /\ runs[c.run].by = r
    BY <1>1, <1>2, <1>4
  <2>2. AnswerIsShared BY DEF IInv
  <2> QED BY <2>1, <2>2 DEF AnswerIsShared
<1>7. ProcOK(r, g)'
  <2>1. ProcOK(r, g) /\ p = proc[r][g] BY <1>1
  <2> HIDE DEF p, c
  <2> QED BY <2>1, <1>2, <1>3, <1>4, <1>5, <1>6 DEF ProcOK, Early, Working, Holding
<1>8. \A n \in DOMAIN runs : ~(runs[n].by = r /\ runs[n].gen = g /\ runs[n].status = "RUNNING")
  <2> SUFFICES ASSUME NEW n \in DOMAIN runs, runs[n].by = r, runs[n].gen = g, runs[n].status = "RUNNING"
               PROVE  FALSE
    OBVIOUS
  <2>1. RunOK(n) BY <1>1
  <2> QED BY <2>1, <1>2 DEF RunOK, Working, Requests
<1>9. /\ command' \in [Retries -> CommandType(Len(runs))]
      /\ \A s \in Retries : s # r => command'[s] = command[s]
      /\ r \in Retries =>
           /\ command[r].status # "NONE" => command'[r].status # "NONE"
           /\ command[r].status = "COMPLETED" => command'[r] = command[r]
           /\ r \in Jobs /\ command'[r].run # NoRun => runs[command'[r].run].by = r
      /\ q.at \notin Holding /\ command'[r] = command[r]
      /\ proc[r][g].at \notin {"none", "said"}
  BY <1>1, <1>2, <1>3, <1>4 DEF Holding, Working
<1> HIDE DEF p, c
<1> QED BY <1>3, <1>4, <1>7, <1>8, <1>9, AttemptMoves

\* Attempts that compute nothing have no analysis of theirs running.
LEMMA IdleAttempt ==
  ASSUME IInv, NEW r \in Requests, NEW g \in DOMAIN proc[r],
         proc[r][g].at \notin Working \cup {"undo", "dead", "said"}
  PROVE  \A n \in DOMAIN runs : ~(runs[n].by = r /\ runs[n].gen = g /\ runs[n].status = "RUNNING")
<1> SUFFICES ASSUME NEW n \in DOMAIN runs, runs[n].by = r, runs[n].gen = g, runs[n].status = "RUNNING"
             PROVE  FALSE
  OBVIOUS
<1>1. RunOK(n) BY Facts
<1> QED BY <1>1 DEF RunOK, Requests

LEMMA RunGoesOn ==
  ASSUME IInv, NEW r \in Requests, NEW g \in DOMAIN proc[r], NEW q, Moved(r, g, q),
         UNCHANGED <<rows, runs, bind>>,
         r \in Jobs => q.at \in Working \cup {"undo", "dead"} \/ (q.at = "said" /\ q.say = "ERROR"),
         r \in Callers => q.at \in Working /\ q.run = proc[r][g].run
  PROVE  \A n \in DOMAIN runs :
           runs[n].by = r /\ runs[n].gen = g /\ runs[n].status = "RUNNING" => RunOK(n)'
<1> SUFFICES ASSUME NEW n \in DOMAIN runs, runs[n].by = r, runs[n].gen = g, runs[n].status = "RUNNING"
             PROVE  RunOK(n)'
  OBVIOUS
<1>1. RunOK(n) BY Facts
<1>2. proc'[r][g] = q /\ DOMAIN proc'[r] = DOMAIN proc[r] BY DEF Moved
<1> QED BY <1>1, <1>2 DEF RunOK, BoundTo

LEMMA BeginKeeps ==
  ASSUME IInv, NEW r \in Requests, NEW g \in DOMAIN proc[r], Begin(r, g)
  PROVE  IInv'
<1> DEFINE p == proc[r][g]
<1>1. /\ TypeOK /\ ProcOK(r, g) /\ p \in ProcType(Len(runs)) /\ Len(runs) \in Nat
      /\ command \in [Retries -> CommandType(Len(runs))]
      /\ r \in Jobs /\ r \in Retries /\ command[r].run # NoRun => runs[command[r].run].by = r
  BY Facts
<1>2. p.at = "begin" BY DEF Begin, At
<1>3. r \in Retries BY <1>1, <1>2 DEF ProcOK
<1>4. /\ rows' = rows /\ runs' = runs /\ bind' = bind
      /\ result' = result /\ thread' = thread /\ process' = process
  BY DEF Begin
<1>5. PICK q \in ProcType(Len(runs)) :
        /\ Moved(r, g, q) /\ proc' \in [Requests -> Seq(ProcType(Len(runs)))]
        /\ q.run = p.run
        /\ \/ q.at = "reserve" /\ command[r].status \in {"NONE", "FAILED_RETRYABLE"}
           \/ q.at = "said" /\ q.say = "ERROR" /\ command' = command
  <2>1. CASE command[r].status \in {"NONE", "FAILED_RETRYABLE"}
    <3>1. Go(r, g, "reserve") /\ "reserve" \in Place BY <2>1 DEF Begin, Place
    <3> QED BY <2>1, <3>1, <1>1, Goes
  <2>2. CASE command[r].status \notin {"NONE", "FAILED_RETRYABLE"}
    <3>1. Say(r, g, "ERROR") /\ command' = command BY <2>2 DEF Begin
    <3> QED BY <3>1, <1>1, Says
  <2> QED BY <2>1, <2>2
<1>6. q.at = "reserve" => /\ command'[r].status = "RESERVED" /\ command'[r].run = NoRun
                          /\ command' \in [Retries -> CommandType(Len(runs))]
                          /\ \A s \in Retries : s # r => command'[s] = command[s]
  <2> SUFFICES ASSUME q.at = "reserve"
               PROVE  /\ command'[r].status = "RESERVED" /\ command'[r].run = NoRun
                      /\ command' \in [Retries -> CommandType(Len(runs))]
                      /\ \A s \in Retries : s # r => command'[s] = command[s]
    OBVIOUS
  <2>1. command' = CommandTo(r, "RESERVED", NoRun)
    <3>1. command[r].status \in {"NONE", "FAILED_RETRYABLE"} BY <1>5
    <3> QED BY <3>1 DEF Begin
  <2>2. 0 \in 0 .. Len(runs) BY <1>1
  <2> HIDE DEF p
  <2> QED BY <2>1, <2>2, <1>1, <1>3, Commands DEF CommandStatus, NoRun
<1>7. proc'[r][g] = q BY <1>5 DEF Moved
<1> HIDE DEF p
<1>8. ProcOK(r, g)' BY <1>3, <1>4, <1>5, <1>6, <1>7, <1>1, <1>2 DEF ProcOK, Early, Working, Holding, p
<1>9. \A n \in DOMAIN runs : ~(runs[n].by = r /\ runs[n].gen = g /\ runs[n].status = "RUNNING")
  BY <1>2, IdleAttempt DEF p, Working
<1>10. /\ command' \in [Retries -> CommandType(Len(runs))]
       /\ \A s \in Retries : s # r => command'[s] = command[s]
       /\ command[r].status # "NONE" => command'[r].status # "NONE"
       /\ command[r].status = "COMPLETED" => command'[r] = command[r]
       /\ r \in Jobs /\ command'[r].run # NoRun => runs[command'[r].run].by = r
       /\ \/ q.at \notin Holding /\ command'[r] = command[r]
          \/ /\ q.at \in Holding /\ command'[r].status \in {"RESERVED", "ANALYSIS_RESERVED"}
             /\ command[r].status \notin {"RESERVED", "ANALYSIS_RESERVED"}
       /\ proc[r][g].at \notin {"none", "said"}
  BY <1>1, <1>2, <1>3, <1>5, <1>6 DEF Holding, Working, p
<1> QED BY <1>4, <1>5, <1>8, <1>9, <1>10, AttemptMoves

LEMMA RecordKeeps ==
  ASSUME IInv, NEW r \in Requests, NEW g \in DOMAIN proc[r], Record(r, g)
  PROVE  IInv'
<1> DEFINE p == proc[r][g]
<1>1. /\ TypeOK /\ ProcOK(r, g) /\ p \in ProcType(Len(runs)) /\ Len(runs) \in Nat
      /\ command \in [Retries -> CommandType(Len(runs))]
      /\ r \in Jobs /\ r \in Retries /\ command[r].run # NoRun => runs[command[r].run].by = r
  BY Facts
<1>2. p.at = "record" BY DEF Record, At
<1>3. r \in Retries /\ p.run # NoRun /\ runs[p.run].by = r /\ command[r].status # "NONE"
  BY <1>1, <1>2 DEF ProcOK, Early, Working, Holding
<1>4. /\ rows' = rows /\ runs' = runs /\ bind' = bind
      /\ result' = result /\ thread' = thread /\ process' = process
  BY DEF Record
<1>5. r \in Callers => command[r].status \in {"RESERVED", "ANALYSIS_RESERVED"}
  BY <1>2, <1>3 DEF IInv, HeldInv, CallHolds, Holding, Working
<1>6. PICK q \in ProcType(Len(runs)) :
        /\ Moved(r, g, q) /\ proc' \in [Requests -> Seq(ProcType(Len(runs)))]
        /\ q.run = p.run
        /\ \/ q.at = "undo" /\ command' = command /\ command[r].status = "COMPLETED"
           \/ /\ q.at = "compute" /\ command[r].status # "COMPLETED"
              /\ command'[r].status = "ANALYSIS_RESERVED" /\ command'[r].run = p.run
              /\ command' \in [Retries -> CommandType(Len(runs))]
              /\ \A s \in Retries : s # r => command'[s] = command[s]
  <2>1. CASE command[r].status = "COMPLETED"
    <3>1. Go(r, g, "undo") /\ "undo" \in Place /\ command' = command BY <2>1 DEF Record, Place
    <3> QED BY <2>1, <3>1, <1>1, Goes
  <2>2. CASE command[r].status # "COMPLETED"
    <3>1. Go(r, g, "compute") /\ "compute" \in Place BY <2>2 DEF Record, Place
    <3>2. command' = CommandTo(r, "ANALYSIS_RESERVED", p.run)
      BY <2>2 DEF Record
    <3>3. p.run \in 0 .. Len(runs) BY <1>1 DEF ProcType
    <3> HIDE DEF p
    <3>4. /\ command'[r].status = "ANALYSIS_RESERVED" /\ command'[r].run = p.run
          /\ command' \in [Retries -> CommandType(Len(runs))]
          /\ \A s \in Retries : s # r => command'[s] = command[s]
      BY <3>2, <3>3, <1>1, <1>3, Commands DEF CommandStatus
    <3>5. \E q \in ProcType(Len(runs)) :
            /\ Moved(r, g, q) /\ proc' \in [Requests -> Seq(ProcType(Len(runs)))]
            /\ q.at = "compute" /\ q.run = p.run
      BY <3>1, <1>1, Goes DEF p
    <3> QED BY <2>2, <3>4, <3>5
  <2> QED BY <2>1, <2>2
<1>7. proc'[r][g] = q BY <1>6 DEF Moved
<1> HIDE DEF p
<1>8. ProcOK(r, g)'
  <2>1. q.at = "undo" => r \in Jobs BY <1>5, <1>6 DEF Requests
  <2>2. command'[r].status # "NONE" BY <1>6, <1>3
  <2> QED BY <2>1, <2>2, <1>1, <1>2, <1>3, <1>4, <1>6, <1>7 DEF ProcOK, Early, BoundTo, Working, Holding, p
<1>9. /\ r \in Jobs => q.at \in Working \cup {"undo", "dead"} \/ (q.at = "said" /\ q.say = "ERROR")
      /\ r \in Callers => q.at \in Working /\ q.run = proc[r][g].run
  BY <1>5, <1>6 DEF Working, p
<1>10. \A n \in DOMAIN runs :
         runs[n].by = r /\ runs[n].gen = g /\ runs[n].status = "RUNNING" => RunOK(n)'
  BY <1>4, <1>6, <1>9, RunGoesOn
<1>11. /\ command' \in [Retries -> CommandType(Len(runs))]
       /\ \A s \in Retries : s # r => command'[s] = command[s]
       /\ command[r].status # "NONE" => command'[r].status # "NONE"
       /\ command[r].status = "COMPLETED" => command'[r] = command[r]
       /\ r \in Jobs /\ command'[r].run # NoRun => runs[command'[r].run].by = r
       /\ proc[r][g].at \in Holding /\ proc[r][g].at \notin {"none", "said"}
       /\ r \in Callers => q.at \in Holding /\ command'[r].status \in {"RESERVED", "ANALYSIS_RESERVED"}
  BY <1>1, <1>2, <1>3, <1>5, <1>6 DEF Holding, Working, p
<1> QED BY <1>4, <1>6, <1>8, <1>10, <1>11, AttemptMoves

LEMMA UndoKeeps ==
  ASSUME IInv, NEW r \in Requests, NEW g \in DOMAIN proc[r], Undo(r, g)
  PROVE  IInv'
<1> DEFINE p == proc[r][g]
<1>1. /\ TypeOK /\ ProcOK(r, g) /\ p \in ProcType(Len(runs)) /\ Len(runs) \in Nat
      /\ command \in [Retries -> CommandType(Len(runs))]
      /\ r \in Jobs /\ r \in Retries /\ command[r].run # NoRun => runs[command[r].run].by = r
  BY Facts
<1>2. p.at = "undo" BY DEF Undo, At
<1>3. r \in Retries /\ r \in Jobs /\ r \notin Callers
  BY <1>1, <1>2, RequestsAssumption DEF ProcOK
<1>4. /\ rows' = rows /\ runs' = runs /\ bind' = bind
      /\ result' = result /\ thread' = thread /\ process' = process
  BY DEF Undo
<1>5. PICK q \in ProcType(Len(runs)) :
        /\ Moved(r, g, q) /\ proc' \in [Requests -> Seq(ProcType(Len(runs)))]
        /\ q.run = p.run /\ q.at = "said" /\ q.say = "ERROR"
  <2>1. Say(r, g, "ERROR") BY DEF Undo
  <2> QED BY <2>1, <1>1, Says
<1>6. proc'[r][g] = q BY <1>5 DEF Moved
<1> HIDE DEF p
<1>7. /\ command' \in [Retries -> CommandType(Len(runs))]
      /\ \A s \in Retries : s # r => command'[s] = command[s]
      /\ command[r].status = "COMPLETED" => command'[r] = command[r]
      /\ command[r].status # "COMPLETED" => command'[r].status = "FAILED_RETRYABLE" /\ command'[r].run = NoRun
  <2>1. CASE command[r].status = "COMPLETED"
    <3>1. command' = command BY <2>1 DEF Undo
    <3> QED BY <2>1, <3>1, <1>1
  <2>2. CASE command[r].status # "COMPLETED"
    <3>1. command' = CommandTo(r, "FAILED_RETRYABLE", NoRun)
      BY <2>2 DEF Undo
    <3>2. 0 \in 0 .. Len(runs) BY <1>1
    <3> QED BY <2>2, <3>1, <3>2, <1>1, <1>3, Commands DEF CommandStatus, NoRun
  <2> QED BY <2>1, <2>2
<1>8. /\ command[r].status # "NONE" => command'[r].status # "NONE"
      /\ r \in Jobs /\ command'[r].run # NoRun => runs[command'[r].run].by = r
      /\ proc[r][g].at \notin {"none", "said"}
  BY <1>1, <1>2, <1>3, <1>7 DEF p
<1>9. ProcOK(r, g)'
  BY <1>1, <1>2, <1>3, <1>4, <1>5, <1>6 DEF ProcOK, Early, Working, Holding, p
<1>10. \A n \in DOMAIN runs :
         runs[n].by = r /\ runs[n].gen = g /\ runs[n].status = "RUNNING" => RunOK(n)'
  BY <1>3, <1>4, <1>5, RunGoesOn
<1> QED BY <1>3, <1>4, <1>5, <1>7, <1>8, <1>9, <1>10, AttemptMoves

LEMMA ComputeKeeps ==
  ASSUME IInv, NEW r \in Requests, NEW g \in DOMAIN proc[r], Compute(r, g)
  PROVE  IInv'
<1> DEFINE p == proc[r][g]
<1>1. /\ TypeOK /\ ProcOK(r, g) /\ p \in ProcType(Len(runs)) /\ Len(runs) \in Nat
      /\ command \in [Retries -> CommandType(Len(runs))]
      /\ r \in Jobs /\ r \in Retries /\ command[r].run # NoRun => runs[command[r].run].by = r
  BY Facts
<1>2. p.at = "compute" BY DEF Compute, At
<1>3. /\ rows' = rows /\ runs' = runs /\ bind' = bind /\ command' = command
      /\ result' = result /\ thread' = thread /\ process' = process
  BY DEF Compute, tables
<1>4. r \in Callers => r \notin Jobs BY RequestsAssumption
<1>5. PICK q \in ProcType(Len(runs)) :
        /\ Moved(r, g, q) /\ proc' \in [Requests -> Seq(ProcType(Len(runs)))]
        /\ \/ q.at = "finish" /\ q.run = p.run /\ q.say \in {"COMPLETED", "FAILED"}
           \/ r \in Jobs /\ q.at = "dead" /\ q.run = NoRun
  <2>1. ASSUME NEW s \in {"COMPLETED", "FAILED"},
               GoWith(r, g, "finish", s)
        PROVE  \E q \in ProcType(Len(runs)) :
                 /\ Moved(r, g, q) /\ proc' \in [Requests -> Seq(ProcType(Len(runs)))]
                 /\ q.at = "finish" /\ q.run = p.run /\ q.say \in {"COMPLETED", "FAILED"}
    <3>1. "finish" \in Place /\ s \in RunStatus \cup {"NOTHING", "ERROR"}
      BY DEF Place, RunStatus, RunEnded
    <3> QED BY <2>1, <3>1, <1>1, GoesWith
  <2>2. ASSUME r \in Jobs, proc' = [proc EXCEPT ![r][g] = NewProc(NoWorker, "dead")]
        PROVE  \E q \in ProcType(Len(runs)) :
                 /\ Moved(r, g, q) /\ proc' \in [Requests -> Seq(ProcType(Len(runs)))]
                 /\ q.at = "dead" /\ q.run = NoRun
    <3> DEFINE q == NewProc(NoWorker, "dead")
    <3>1. q \in ProcType(Len(runs)) /\ q.at = "dead" /\ q.run = NoRun
      BY <1>1 DEF NewProc, ProcType, Place, NoRun
    <3> HIDE DEF q
    <3>2. Moved(r, g, q) /\ proc' \in [Requests -> Seq(ProcType(Len(runs)))]
      <4>1. proc' = [proc EXCEPT ![r][g] = q] BY <2>2 DEF q
      <4> QED BY <3>1, <4>1, <1>1, Puts
    <3> QED BY <3>1, <3>2
  <2>3. \/ \E s \in {"COMPLETED", "FAILED"} : GoWith(r, g, "finish", s)
        \/ r \in Jobs /\ proc' = [proc EXCEPT ![r][g] = NewProc(NoWorker, "dead")]
    BY Zenon DEF Compute
  <2> HIDE DEF p
  <2> QED BY <2>1, <2>2, <2>3, Zenon
<1>6. proc'[r][g] = q BY <1>5 DEF Moved
<1> HIDE DEF p
<1>7. ProcOK(r, g)'
  BY <1>1, <1>2, <1>3, <1>5, <1>6 DEF ProcOK, Early, BoundTo, Working, Holding, p
<1>8. \A n \in DOMAIN runs :
        runs[n].by = r /\ runs[n].gen = g /\ runs[n].status = "RUNNING" => RunOK(n)'
  <2>1. /\ r \in Jobs => q.at \in Working \cup {"undo", "dead"} \/ (q.at = "said" /\ q.say = "ERROR")
        /\ r \in Callers => q.at \in Working /\ q.run = proc[r][g].run
    BY <1>4, <1>5 DEF Working, p
  <2> QED BY <1>3, <1>5, <2>1, RunGoesOn
<1>9. /\ command' \in [Retries -> CommandType(Len(runs))]
      /\ \A s \in Retries : s # r => command'[s] = command[s]
      /\ r \in Retries =>
           /\ command[r].status # "NONE" => command'[r].status # "NONE"
           /\ command[r].status = "COMPLETED" => command'[r] = command[r]
           /\ r \in Jobs /\ command'[r].run # NoRun => runs[command'[r].run].by = r
      /\ proc[r][g].at \notin {"none", "said"}
  BY <1>1, <1>2, <1>3 DEF p
<1>10. r \in Callers \cap Retries =>
         /\ q.at \in Holding /\ command'[r].status \in {"RESERVED", "ANALYSIS_RESERVED"}
         /\ proc[r][g].at \in Holding
  <2> SUFFICES ASSUME r \in Callers \cap Retries
               PROVE  /\ q.at \in Holding /\ command'[r].status \in {"RESERVED", "ANALYSIS_RESERVED"}
                      /\ proc[r][g].at \in Holding
    OBVIOUS
  <2>1. proc[r][g].at \in Holding /\ q.at \in Holding BY <1>2, <1>4, <1>5 DEF Holding, Working, p
  <2>2. command[r].status \in {"RESERVED", "ANALYSIS_RESERVED"}
    BY <2>1 DEF IInv, HeldInv, CallHolds
  <2> QED BY <2>1, <2>2, <1>3
<1> QED BY <1>3, <1>5, <1>7, <1>8, <1>9, <1>10, AttemptMoves

LEMMA ConcludeKeeps ==
  ASSUME IInv, NEW r \in Requests, NEW g \in DOMAIN proc[r], Conclude(r, g)
  PROVE  IInv'
<1> DEFINE p == proc[r][g]
<1>1. /\ TypeOK /\ ProcOK(r, g) /\ p \in ProcType(Len(runs)) /\ Len(runs) \in Nat
      /\ command \in [Retries -> CommandType(Len(runs))]
      /\ r \in Jobs /\ r \in Retries /\ command[r].run # NoRun => runs[command[r].run].by = r
  BY Facts
<1>2. p.at = "conclude" BY DEF Conclude, At
<1>3. /\ r \in Retries /\ p.run # NoRun /\ runs[p.run].by = r
      /\ p.say = "COMPLETED" /\ r \in Jobs => rows[r].status = "COMPLETED"
  BY <1>1, <1>2 DEF ProcOK
<1>4. /\ rows' = rows /\ runs' = runs /\ bind' = bind
      /\ result' = result /\ thread' = thread /\ process' = process
  BY DEF Conclude
<1>5. PICK q \in ProcType(Len(runs)) :
        /\ Moved(r, g, q) /\ proc' \in [Requests -> Seq(ProcType(Len(runs)))]
        /\ q.run = p.run /\ q.at = "said" /\ q.say = p.say
  <2>1. Go(r, g, "said") /\ "said" \in Place BY DEF Conclude, Place
  <2> QED BY <2>1, <1>1, Goes
<1>6. proc'[r][g] = q BY <1>5 DEF Moved
<1> HIDE DEF p
<1>7. /\ command' \in [Retries -> CommandType(Len(runs))]
      /\ \A s \in Retries : s # r => command'[s] = command[s]
      /\ command[r].status = "COMPLETED" => command'[r] = command[r]
      /\ command[r].status # "COMPLETED" => command'[r].status = "COMPLETED" /\ command'[r].run = p.run
  <2>1. CASE command[r].status = "COMPLETED"
    <3>1. command' = command BY <2>1 DEF Conclude
    <3> QED BY <2>1, <3>1, <1>1
  <2>2. CASE command[r].status # "COMPLETED"
    <3>1. command' = CommandTo(r, "COMPLETED", p.run)
      BY <2>2 DEF Conclude, p
    <3>2. p.run \in 0 .. Len(runs) BY <1>1 DEF ProcType
    <3> QED BY <2>2, <3>1, <3>2, <1>1, <1>3, Commands DEF CommandStatus
  <2> QED BY <2>1, <2>2
<1>8. /\ command[r].status # "NONE" => command'[r].status # "NONE"
      /\ r \in Jobs /\ command'[r].run # NoRun => runs[command'[r].run].by = r
      /\ proc[r][g].at \notin {"none", "said"} /\ proc[r][g].at \in Holding /\ q.at \notin Holding
  BY <1>1, <1>2, <1>3, <1>5, <1>7 DEF Holding, Working, p
<1>9. ProcOK(r, g)'
  BY <1>1, <1>2, <1>3, <1>4, <1>5, <1>6 DEF ProcOK, Early, Working, Holding, p
<1>10. \A n \in DOMAIN runs : ~(runs[n].by = r /\ runs[n].gen = g /\ runs[n].status = "RUNNING")
  BY <1>2, IdleAttempt DEF p, Working
<1> QED BY <1>4, <1>5, <1>7, <1>8, <1>9, <1>10, AttemptMoves

------------------------------------------------------------------------------
(* Reservations: an attempt is bound to an analysis.                        *)

\* The attempt binds its own job and leaves the analyses there are alone.
Binds(r, g) ==
  /\ UNCHANGED <<rows, result, command, thread, process>>
  /\ \A j \in Jobs : j # r => bind'[j] = bind[j]
  /\ r \in Jobs => rows[r].status = "RUNNING" /\ rows[r].gen = g
  /\ Len(runs') \in Nat /\ Len(runs) <= Len(runs') /\ DOMAIN runs' = 1 .. Len(runs')
  /\ \A n \in DOMAIN runs : runs'[n] = runs[n]
  /\ \A n \in DOMAIN runs' : n \notin DOMAIN runs => runs'[n].status = "RUNNING" /\ RunOK(n)'

LEMMA AttemptBinds ==
  ASSUME IInv, NEW r \in Requests, NEW g \in DOMAIN proc[r], Binds(r, g), NEW q, Moved(r, g, q),
         proc[r][g].at \in {"start", "resume", "reserve"},
         runs' \in Seq(RunType), bind' \in [Jobs -> BindType(Len(runs'))],
         proc' \in [Requests -> Seq(ProcType(Len(runs')))],
         r \in Callers \cap Retries => q.at \in Holding /\ proc[r][g].at \in Holding,
         ProcOK(r, g)',
         r \in Jobs => BindOK(r)'
  PROVE  IInv'
<1>1. TypeOK /\ ProcsInv /\ RunsInv /\ BindsInv /\ AnswerIsShared /\ RetryAnswers /\ HeldInv /\ ThreadsInv
  BY DEF IInv
<1>2. /\ Len(runs) \in Nat /\ DOMAIN runs = 1 .. Len(runs)
      /\ \A n \in DOMAIN runs : runs[n] \in RunType
  BY <1>1, Indices
<1>3. /\ rows' = rows /\ result' = result /\ command' = command /\ thread' = thread /\ process' = process
      /\ Len(runs') \in Nat /\ Len(runs) <= Len(runs') /\ DOMAIN runs' = 1 .. Len(runs')
      /\ \A n \in DOMAIN runs : n \in DOMAIN runs' /\ runs'[n] = runs[n]
      /\ \A n \in DOMAIN runs' : n \notin DOMAIN runs => runs'[n].status = "RUNNING" /\ RunOK(n)'
  BY <1>2 DEF Binds
<1>4. TypeOK'
  <2>1. /\ rows \in [Jobs -> Row] /\ result \in [Jobs -> 0 .. Len(runs)]
        /\ command \in [Retries -> CommandType(Len(runs))]
        /\ thread \in [Workers -> ThreadType(Len(runs))]
        /\ process \in [stopping : BOOLEAN, restarts : 0 .. MaxRestarts]
    BY <1>1, Types
  <2>2. /\ 0 .. Len(runs) \subseteq 0 .. Len(runs') /\ CommandType(Len(runs)) \subseteq CommandType(Len(runs'))
        /\ ThreadType(Len(runs)) \subseteq ThreadType(Len(runs'))
    BY <1>2, <1>3, MoreAnalyses
  <2>3. /\ result' \in [Jobs -> 0 .. Len(runs')] /\ command' \in [Retries -> CommandType(Len(runs'))]
        /\ thread' \in [Workers -> ThreadType(Len(runs'))]
    BY <2>1, <2>2, <1>3
  <2> QED BY <2>1, <2>3, <1>3, TypesNext
<1>5. Onward BY <1>3 DEF Onward
<1>6. ProcsInv'
  <2>1. ASSUME NEW s \in Requests, NEW h \in DOMAIN proc'[s] PROVE ProcOK(s, h)'
    <3>1. h \in DOMAIN proc[s] BY DEF Moved
    <3>2. CASE s = r /\ h = g BY <3>2
    <3>3. CASE ~(s = r /\ h = g)
      <4>1. proc'[s][h] = proc[s][h] BY <3>1, <3>3 DEF Moved
      <4>2. ProcOK(s, h) BY <3>1, <1>1 DEF ProcsInv
      <4>3. s \in Jobs /\ h = rows'[s].gen => h = rows[s].gen /\ bind'[s] = bind[s]
        BY <3>3, <1>3 DEF Binds
      <4> QED BY <3>1, <4>1, <4>2, <4>3, <1>1, <1>5, ProcStays
    <3> QED BY <3>2, <3>3
  <2> QED BY <2>1 DEF ProcsInv
<1>7. RunsInv'
  <2>1. ASSUME NEW n \in DOMAIN runs PROVE RunOK(n)'
    <3>1. RunOK(n) /\ runs[n] \in RunType /\ runs'[n] = runs[n] BY <1>1, <1>2, <1>3 DEF RunsInv
    <3>2. CASE runs[n].status # "RUNNING" BY <3>1, <3>2 DEF RunOK
    <3>3. CASE runs[n].status = "RUNNING"
      <4> DEFINE s == runs[n].by
                 h == runs[n].gen
      <4>1. s \in Requests /\ h \in DOMAIN proc[s] BY <3>1, <3>3 DEF RunType, RunOK
      <4>2. ~(s = r /\ h = g)
        <5>1. proc[r][g].at \notin Working \cup {"undo", "dead", "said"} BY DEF Working
        <5> QED BY <5>1, <3>3, IdleAttempt
      <4>3. s \in Jobs => s # r
        <5>1. s \in Jobs => rows[s].gen = h BY <3>1, <3>3 DEF RunOK
        <5> QED BY <5>1, <4>2 DEF Binds
      <4>4. proc'[s][h] = proc[s][h] /\ DOMAIN proc'[s] = DOMAIN proc[s]
        BY <4>1, <4>2 DEF Moved
      <4>5. s \in Jobs => bind'[s] = bind[s] BY <4>3 DEF Binds
      <4> QED BY <4>1, <4>4, <4>5, <3>1, <1>3, <1>5, RunStays
    <3> QED BY <3>2, <3>3
  <2> QED BY <2>1, <1>3 DEF RunsInv
<1>8. BindsInv'
  <2>1. ASSUME NEW j \in Jobs PROVE BindOK(j)'
    <3>1. CASE j = r BY <3>1
    <3>2. CASE j # r
      <4>1. BindOK(j) /\ j \in Requests BY <1>1 DEF BindsInv, Requests
      <4>2. Len(proc'[j]) = Len(proc[j]) BY <4>1 DEF Moved
      <4>3. bind'[j] = bind[j] /\ bind[j] \in BindType(Len(runs)) BY <1>1, <3>2, Types DEF Binds
      <4>4. bind[j].run # NoRun => bind[j].run \in DOMAIN runs
        BY <4>3, <1>2 DEF BindType, NoRun
      <4>5. j \in Retries /\ command[j].run # NoRun => command[j].run \in DOMAIN runs
        <5>1. j \in Retries => command[j] \in CommandType(Len(runs)) BY <1>1, Types
        <5> QED BY <5>1, <1>2 DEF CommandType, NoRun
      <4> QED BY <4>1, <4>2, <4>3, <4>4, <4>5, <1>3 DEF BindOK
    <3> QED BY <3>1, <3>2
  <2> QED BY <2>1 DEF BindsInv
<1>9. AnswerIsShared' /\ RetryAnswers'
  <2>1. \A n \in DOMAIN runs' : runs'[n].status = "COMPLETED" =>
          n \in DOMAIN runs /\ runs[n].status = "COMPLETED"
    BY <1>3
  <2> QED BY <2>1, <1>1, <1>3, <1>5, AnswersStay
<1>10. HeldInv'
  <2>1. r \in Callers \cap Retries => command[r].status \in {"RESERVED", "ANALYSIS_RESERVED"}
    BY <1>1 DEF HeldInv, CallHolds
  <2> QED BY <2>1, <1>1, <1>3, HeldStays
<1>11. ThreadsInv'
  BY <1>1, <1>3, <1>5, ThreadsStay
<1> QED BY <1>4, <1>6, <1>7, <1>8, <1>9, <1>10, <1>11 DEF IInv

LEMMA BindTypes ==
  ASSUME TypeOK, NEW r \in Requests, NEW g \in Nat, NEW m \in Nat, Len(runs) <= m,
         NEW n \in 0 .. m, NEW owns \in BOOLEAN, Bind(r, g, n, owns)
  PROVE  /\ bind' \in [Jobs -> BindType(m)]
         /\ \A j \in Jobs : j # r => bind'[j] = bind[j]
         /\ r \in Jobs => bind'[r] = [gen |-> g, run |-> n, owns |-> owns]
<1>1. bind \in [Jobs -> BindType(m)]
  <2>1. bind \in [Jobs -> BindType(Len(runs))] /\ Len(runs) \in Nat BY Types, Indices
  <2> QED BY <2>1, MoreAnalyses
<1>2. [gen |-> g, run |-> n, owns |-> owns] \in BindType(m) BY DEF BindType
<1> QED BY <1>1, <1>2 DEF Bind, Bound

LEMMA Authority ==
  ASSUME IInv, NEW r \in Jobs, NEW g \in DOMAIN proc[r], Owns(r, g)
  PROVE  rows[r].status = "RUNNING" /\ rows[r].gen = g
BY DEF Owns, HasAuthority, HoldsLease

LEMMA CreateKeeps ==
  ASSUME IInv, NEW r \in Requests, NEW g \in DOMAIN proc[r], Owns(r, g),
         NEW next \in {"record", "compute"}, next = "record" <=> r \in Retries,
         CreateRun(r, g, next), UNCHANGED <<rows, result, command, thread, process>>,
         proc[r][g].at \in {"start", "resume", "reserve"}, proc[r][g].at = "reserve" <=> r \in Retries
  PROVE  IInv'
<1> PICK n : n = Len(runs) + 1 OBVIOUS
<1> DEFINE p == proc[r][g]
           new == [status |-> "RUNNING", by |-> r, gen |-> g]
           q == [p EXCEPT !.run = n, !.at = next]
<1>1. /\ TypeOK /\ ProcOK(r, g) /\ p \in ProcType(Len(runs)) /\ Len(runs) \in Nat
      /\ DOMAIN runs = 1 .. Len(runs) /\ runs \in Seq(RunType)
  BY Facts, Types
<1>2. g \in Nat /\ Len(runs) <= n /\ n \in Nat /\ n \in 0 .. n /\ n # NoRun
  BY <1>1, Indices DEF NoRun
<1>3. /\ runs' \in Seq(RunType) /\ Len(runs') = n /\ DOMAIN runs' = 1 .. n
      /\ \A i \in DOMAIN runs : runs'[i] = runs[i]
      /\ runs'[n] = new
  <2>1. new \in RunType BY <1>2 DEF RunType, RunStatus
  <2>2. runs' = Append(runs, new) BY DEF CreateRun
  <2> HIDE DEF new
  <2>3. /\ runs' \in Seq(RunType) /\ Len(runs') = n /\ \A i \in 1 .. Len(runs) : runs'[i] = runs[i]
        /\ runs'[n] = new
    BY <2>1, <2>2, <1>1, AppendProperties
  <2> QED BY <2>3, <1>1, LenProperties
<1>4. /\ bind' \in [Jobs -> BindType(n)]
      /\ \A j \in Jobs : j # r => bind'[j] = bind[j]
      /\ r \in Jobs => bind'[r] = [gen |-> g, run |-> n, owns |-> TRUE]
  <2>1. Bind(r, g, n, TRUE) BY DEF CreateRun
  <2>2. TypeOK /\ g \in Nat /\ n \in Nat /\ Len(runs) <= n /\ n \in 0 .. n BY <1>1, <1>2
  <2>3. TRUE \in BOOLEAN OBVIOUS
  <2> QED BY <2>1, <2>2, <2>3, BindTypes, Zenon
<1>5. q \in ProcType(n) /\ q.run = n /\ q.at = next
  <2>1. p \in ProcType(n) BY <1>1, <1>2, MoreAnalyses
  <2> HIDE DEF p
  <2> QED BY <2>1, <1>2 DEF ProcType, Place
<1>6. Moved(r, g, q) /\ proc' \in [Requests -> Seq(ProcType(n))]
  <2>1. proc' = [proc EXCEPT ![r] = [proc[r] EXCEPT ![g] = q]] BY Zenon DEF CreateRun
  <2> HIDE DEF q, p
  <2> QED BY <2>1, <1>1, <1>2, <1>5, MoveOne
<1> HIDE DEF q
<1>7. proc'[r][g] = q /\ DOMAIN proc'[r] = DOMAIN proc[r] BY <1>6 DEF Moved
<1>8. r \in Jobs => rows[r].status = "RUNNING" /\ rows[r].gen = g BY Authority
<1>9. runs'[n].status = "RUNNING" /\ runs'[n].by = r /\ runs'[n].gen = g BY <1>3
<1> HIDE DEF p, new
<1>10. RunOK(n)'
  <2>1. r \in Callers => r \notin Jobs BY RequestsAssumption
  <2> QED BY <2>1, <1>4, <1>5, <1>7, <1>8, <1>9 DEF RunOK, BoundTo, Working
<1>11. ProcOK(r, g)'
  <2>1. r \in Retries => command[r].status # "NONE" BY <1>1 DEF ProcOK, Holding
  <2> QED BY <2>1, <1>2, <1>4, <1>5, <1>7, <1>8, <1>9 DEF ProcOK, BoundTo, Early, Working, Holding
<1>12. r \in Jobs => BindOK(r)'
  <2> SUFFICES ASSUME r \in Jobs PROVE BindOK(r)'
    OBVIOUS
  <2>1. BindOK(r) BY DEF IInv, BindsInv
  <2>2. Len(proc'[r]) = Len(proc[r]) BY <1>6 DEF Moved
  <2>3. r \in Retries /\ command[r].run # NoRun => command[r].run \in DOMAIN runs BY Facts
  <2> QED BY <2>1, <2>2, <2>3, <1>2, <1>3, <1>4, <1>9 DEF BindOK
<1>13. Binds(r, g)
  <2>1. \A i \in DOMAIN runs' : i \notin DOMAIN runs => i = n BY <1>1, <1>3
  <2> QED BY <2>1, <1>2, <1>3, <1>4, <1>8, <1>9, <1>10 DEF Binds
<1>14. r \in Callers \cap Retries => q.at \in Holding /\ proc[r][g].at \in Holding
  BY <1>5 DEF Holding, Working
<1> QED BY <1>3, <1>4, <1>6, <1>11, <1>12, <1>13, <1>14, AttemptBinds

LEMMA ReuseKeeps ==
  ASSUME IInv, NEW r \in Requests, NEW g \in DOMAIN proc[r], Owns(r, g), r \notin Retries,
         proc[r][g].at = "start", Len(runs) > 0,
         Reuse(r, g), UNCHANGED <<rows, result, command, thread, process>>
  PROVE  IInv'
<1> DEFINE p == proc[r][g]
           s == runs[Newest].status
<1>1. /\ TypeOK /\ ProcOK(r, g) /\ p \in ProcType(Len(runs)) /\ Len(runs) \in Nat
      /\ DOMAIN runs = 1 .. Len(runs) /\ runs \in Seq(RunType)
      /\ \A n \in DOMAIN runs : runs[n] \in RunType
  BY Facts, Types
<1>2. g \in Nat /\ Newest \in DOMAIN runs /\ Newest \in 0 .. Len(runs) /\ Newest # NoRun /\ runs' = runs
      /\ Len(runs) <= Len(runs)
  BY <1>1, Indices DEF NoRun, Newest, Reuse
<1>3. /\ bind' \in [Jobs -> BindType(Len(runs))]
      /\ \A j \in Jobs : j # r => bind'[j] = bind[j]
      /\ r \in Jobs => bind'[r] = [gen |-> g, run |-> Newest, owns |-> FALSE]
  <2>1. Bind(r, g, Newest, FALSE) BY DEF Reuse
  <2> QED BY <2>1, <1>1, <1>2, BindTypes
<1>4. PICK q \in ProcType(Len(runs)) :
        /\ Moved(r, g, q) /\ proc' \in [Requests -> Seq(ProcType(Len(runs)))]
        /\ q.run = p.run /\ q.at \in {"resume", "said"}
        /\ q.at = "said" /\ q.say = "COMPLETED" => s = "COMPLETED"
  <2>1. CASE Go(r, g, "resume")
    <3>1. "resume" \in Place BY DEF Place
    <3> QED BY <2>1, <3>1, <1>1, Goes
  <2>2. ASSUME NEW x, Say(r, g, x), x = "ERROR" \/ x = s
        PROVE  \E q \in ProcType(Len(runs)) :
                 /\ Moved(r, g, q) /\ proc' \in [Requests -> Seq(ProcType(Len(runs)))]
                 /\ q.run = p.run /\ q.at \in {"resume", "said"}
                 /\ q.at = "said" /\ q.say = "COMPLETED" => s = "COMPLETED"
    <3>1. x \in RunStatus \cup {"NOTHING", "ERROR"} BY <1>1, <1>2, <2>2 DEF RunType
    <3> QED BY <2>2, <3>1, <1>1, Says
  <2>3. Go(r, g, "resume") \/ \E x : Say(r, g, x) /\ (x = "ERROR" \/ x = s)
    BY DEF Reuse
  <2> QED BY <2>1, <2>2, <2>3
<1>5. proc'[r][g] = q BY <1>4 DEF Moved
<1>6. r \in Jobs => rows[r].status = "RUNNING" /\ rows[r].gen = g BY Authority
<1>7. q.run = NoRun BY <1>1, <1>4 DEF ProcOK, Early
<1> HIDE DEF p
<1>8. ProcOK(r, g)'
  BY <1>2, <1>3, <1>4, <1>5, <1>6, <1>7 DEF ProcOK, Early, Working, Holding
<1>9. r \in Jobs => BindOK(r)'
  <2> SUFFICES ASSUME r \in Jobs PROVE BindOK(r)'
    OBVIOUS
  <2>1. BindOK(r) BY DEF IInv, BindsInv
  <2>2. Len(proc'[r]) = Len(proc[r]) BY <1>4 DEF Moved
  <2> QED BY <2>1, <2>2, <1>2, <1>3 DEF BindOK
<1>10. Binds(r, g) BY <1>1, <1>2, <1>3, <1>6 DEF Binds
<1> QED BY <1>1, <1>2, <1>3, <1>4, <1>8, <1>9, <1>10, AttemptBinds

LEMMA ReserveKeeps ==
  ASSUME IInv, NEW r \in Requests, NEW g \in DOMAIN proc[r], Reserve(r, g) \/ ReserveNew(r, g)
  PROVE  IInv'
<1>1. TypeOK /\ ProcOK(r, g) /\ Len(runs) \in Nat /\ runs \in Seq(RunType) BY Facts, Types
<1>2. UNCHANGED <<rows, result, command, thread, process>> BY DEF Reserve, ReserveNew
<1>3. proc[r][g].at \in {"start", "resume", "reserve"} BY DEF Reserve, ReserveNew, At
<1>4. CASE ~Owns(r, g)
  <2>1. r \in Jobs /\ Fail(r, g) /\ UNCHANGED <<runs, bind>>
    BY <1>4 DEF Owns, Reserve, ReserveNew
  <2>2. UNCHANGED <<tables, thread, process>> BY <2>1, <1>2 DEF tables
  <2> QED BY <2>1, <2>2, <1>3, FailKeeps
<1>5. CASE Owns(r, g) /\ Reserve(r, g)
  <2>1. r \notin Retries /\ proc[r][g].at = "start" BY <1>5 DEF Reserve, At
  <2>2. CASE runs = <<>>
    <3>1. CreateRun(r, g, "compute") BY <1>5, <2>2 DEF Reserve
    <3> QED BY <3>1, <2>1, <1>2, <1>5, CreateKeeps
  <2>3. CASE runs # <<>>
    <3>1. Reuse(r, g) BY <1>5, <2>3 DEF Reserve
    <3>2. Len(runs) > 0 BY <2>3, <1>1, EmptySeq
    <3> QED BY <3>1, <3>2, <2>1, <1>2, <1>5, ReuseKeeps
  <2> QED BY <2>2, <2>3
<1>6. CASE Owns(r, g) /\ ReserveNew(r, g)
  <2>1. proc[r][g].at \in {"resume", "reserve"} BY <1>6 DEF ReserveNew, At
  <2>2. proc[r][g].at = "reserve" <=> r \in Retries BY <2>1, <1>1 DEF ProcOK
  <2>3. CreateRun(r, g, IF r \in Retries THEN "record" ELSE "compute")
    BY <1>6 DEF ReserveNew
  <2>4. CASE r \in Retries
    <3>1. CreateRun(r, g, "record") BY <2>3, <2>4
    <3> QED BY <3>1, <2>2, <2>4, <1>2, <1>3, <1>6, CreateKeeps
  <2>5. CASE r \notin Retries
    <3>1. CreateRun(r, g, "compute") BY <2>3, <2>5
    <3> QED BY <3>1, <2>2, <2>5, <1>2, <1>3, <1>6, CreateKeeps
  <2> QED BY <2>4, <2>5
<1> QED BY <1>4, <1>5, <1>6

------------------------------------------------------------------------------
(* The analysis ends.                                                       *)

LEMMA OnlyItsOwn ==
  ASSUME IInv, NEW r \in Requests, NEW g \in DOMAIN proc[r], proc[r][g].at \in Working,
         r \in Jobs => rows[r].gen = g,
         NEW m \in DOMAIN runs, runs[m].by = r, runs[m].status = "RUNNING",
         r \in Jobs \/ runs[m].gen = g
  PROVE  m = proc[r][g].run
<1>1. RunOK(m) /\ ProcOK(r, g) BY Facts
<1>2. CASE r \in Jobs
  <2>1. BoundTo(r, g, m) BY <1>1, <1>2 DEF RunOK
  <2>2. BoundTo(r, g, proc[r][g].run) BY <1>1, <1>2 DEF ProcOK
  <2> QED BY <2>1, <2>2 DEF BoundTo
<1>3. CASE r \notin Jobs BY <1>1, <1>3 DEF RunOK, Requests
<1> QED BY <1>2, <1>3

\* Somebody else ended it: the attempt says so and changes nothing.
LEMMA EndedKeeps ==
  ASSUME IInv, NEW r \in Requests, NEW g \in DOMAIN proc[r], Owns(r, g),
         proc[r][g].at = "finish", runs[proc[r][g].run].status # "RUNNING",
         GoWith(r, g, AfterEnd(r), runs[proc[r][g].run].status),
         UNCHANGED <<tables, thread, process>>
  PROVE  IInv'
<1> DEFINE p == proc[r][g]
           s == runs[p.run].status
<1>1. /\ TypeOK /\ ProcOK(r, g) /\ p \in ProcType(Len(runs)) /\ Len(runs) \in Nat
      /\ command \in [Retries -> CommandType(Len(runs))]
      /\ r \in Jobs /\ r \in Retries /\ command[r].run # NoRun => runs[command[r].run].by = r
      /\ p.run # NoRun => p.run \in DOMAIN runs
      /\ \A n \in DOMAIN runs : runs[n] \in RunType
  BY Facts
<1>2. p.at = "finish" OBVIOUS
<1>3. p.run \in DOMAIN runs /\ runs[p.run].by = r /\ s \in RunStatus
  BY <1>1, <1>2 DEF ProcOK, Working, RunType
<1>4. /\ rows' = rows /\ runs' = runs /\ bind' = bind /\ command' = command
      /\ result' = result /\ thread' = thread /\ process' = process
  BY DEF tables
<1>5. PICK q \in ProcType(Len(runs)) :
        /\ Moved(r, g, q) /\ proc' \in [Requests -> Seq(ProcType(Len(runs)))]
        /\ q.at = AfterEnd(r) /\ q.run = p.run /\ q.say = s
  <2>1. AfterEnd(r) \in Place BY DEF AfterEnd, Place
  <2>2. s \in RunStatus \cup {"NOTHING", "ERROR"} BY <1>3
  <2>3. GoWith(r, g, AfterEnd(r), s) OBVIOUS
  <2> HIDE DEF s
  <2> QED BY <2>1, <2>2, <2>3, <1>1, GoesWith
<1>6. proc'[r][g] = q BY <1>5 DEF Moved
<1> HIDE DEF p, s
<1>7. q.at = IF r \in Retries THEN "conclude" ELSE "said" BY <1>5 DEF AfterEnd
<1>8. s = "COMPLETED" /\ r \in Jobs => rows[r].status = "COMPLETED"
  BY <1>3 DEF IInv, AnswerIsShared, s
<1>9. ProcOK(r, g)'
  BY <1>1, <1>2, <1>3, <1>4, <1>5, <1>6, <1>7, <1>8 DEF ProcOK, Early, Working, Holding, p, s
<1>10. \A n \in DOMAIN runs : ~(runs[n].by = r /\ runs[n].gen = g /\ runs[n].status = "RUNNING")
  <2> SUFFICES ASSUME NEW n \in DOMAIN runs, runs[n].by = r, runs[n].gen = g, runs[n].status = "RUNNING"
               PROVE  FALSE
    OBVIOUS
  <2>1. r \in Jobs => rows[r].gen = g BY Authority
  <2>2. n = p.run BY <2>1, OnlyItsOwn DEF Working, p
  <2> QED BY <2>2 DEF p
<1>11. /\ command' \in [Retries -> CommandType(Len(runs))]
       /\ \A x \in Retries : x # r => command'[x] = command[x]
       /\ r \in Retries =>
            /\ command[r].status # "NONE" => command'[r].status # "NONE"
            /\ command[r].status = "COMPLETED" => command'[r] = command[r]
            /\ r \in Jobs /\ command'[r].run # NoRun => runs[command'[r].run].by = r
       /\ proc[r][g].at \notin {"none", "said"}
  BY <1>1, <1>2, <1>4 DEF p
<1>12. r \in Callers \cap Retries =>
         /\ q.at \in Holding /\ command'[r].status \in {"RESERVED", "ANALYSIS_RESERVED"}
         /\ proc[r][g].at \in Holding
  <2>1. r \in Retries => proc[r][g].at \in Holding /\ q.at \in Holding
    BY <1>2, <1>7 DEF Holding, Working, p
  <2>2. r \in Callers \cap Retries => command[r].status \in {"RESERVED", "ANALYSIS_RESERVED"}
    BY <2>1 DEF IInv, HeldInv, CallHolds
  <2> QED BY <2>1, <2>2, <1>4
<1> QED BY <1>4, <1>5, <1>9, <1>10, <1>11, <1>12, AttemptMoves

LEMMA FinishAsKeeps ==
  ASSUME IInv, NEW r \in Requests, NEW g \in DOMAIN proc[r], Owns(r, g),
         proc[r][g].at = "finish", runs[proc[r][g].run].status = "RUNNING",
         NEW s \in {"COMPLETED", "FAILED"}, FinishAs(r, g, s), UNCHANGED <<bind, thread, process>>
  PROVE  IInv'
<1> PICK n : n = proc[r][g].run OBVIOUS
<1> DEFINE p == proc[r][g]
<1>1. /\ TypeOK /\ ProcOK(r, g) /\ p \in ProcType(Len(runs)) /\ Len(runs) \in Nat
      /\ DOMAIN runs = 1 .. Len(runs) /\ runs \in Seq(RunType)
      /\ command \in [Retries -> CommandType(Len(runs))]
      /\ p.run # NoRun => p.run \in DOMAIN runs
      /\ \A m \in DOMAIN runs : runs[m] \in RunType /\ RunOK(m)
  BY Facts, Types
<1>2. ProcsInv /\ RunsInv /\ BindsInv /\ AnswerIsShared /\ RetryAnswers /\ HeldInv /\ ThreadsInv
  BY DEF IInv
<1>3. n \in DOMAIN runs /\ n # NoRun /\ runs[n].by = r /\ n \in 0 .. Len(runs) /\ runs[n].status = "RUNNING"
  BY <1>1 DEF ProcOK, Working, NoRun
<1>4. r \in Jobs => rows[r].status = "RUNNING" /\ rows[r].gen = g BY Authority
<1>5. bind' = bind /\ thread' = thread /\ process' = process OBVIOUS
<1>6. PICK q \in ProcType(Len(runs)) :
        /\ Moved(r, g, q) /\ proc' \in [Requests -> Seq(ProcType(Len(runs)))]
        /\ q.at = AfterEnd(r) /\ q.run = n /\ q.say = s
  <2>1. AfterEnd(r) \in Place BY DEF AfterEnd, Place
  <2>2. s \in RunStatus \cup {"NOTHING", "ERROR"} BY DEF RunStatus, RunEnded
  <2>3. GoWith(r, g, AfterEnd(r), s) BY DEF FinishAs
  <2> HIDE DEF p
  <2> QED BY <2>1, <2>2, <2>3, <1>1, GoesWith
<1> HIDE DEF p
<1>7. /\ runs' \in Seq(RunType) /\ Len(runs') = Len(runs) /\ DOMAIN runs' = DOMAIN runs
      /\ \A m \in DOMAIN runs : m # n => runs'[m] = runs[m]
      /\ runs'[n].status = s /\ runs'[n].by = r /\ runs'[n].gen = runs[n].gen
  <2> DEFINE x == [runs[n] EXCEPT !.status = s]
  <2>1. x \in RunType /\ x.status = s /\ x.by = r /\ x.gen = runs[n].gen
    BY <1>1, <1>3 DEF RunType, RunStatus, RunEnded
  <2>2. runs' = [runs EXCEPT ![n] = x] BY DEF FinishAs
  <2> HIDE DEF x
  <2>3. /\ runs' \in Seq(RunType) /\ Len(runs') = Len(runs)
        /\ \A m \in 1 .. Len(runs) : runs'[m] = IF m = n THEN x ELSE runs[m]
    BY <2>1, <2>2, <1>1, <1>3, ExceptSeq
  <2> QED BY <2>1, <2>3, <1>1, <1>3, LenProperties
<1>8. /\ rows' \in [Jobs -> Row] /\ result' \in [Jobs -> 0 .. Len(runs)]
      /\ \A j \in Jobs : j # r => rows'[j] = rows[j] /\ result'[j] = result[j]
      /\ \A j \in Jobs : rows'[j].gen = rows[j].gen
      /\ r \in Jobs => rows'[r].status = s /\ result'[r] = n
  <2>1. rows \in [Jobs -> Row] /\ result \in [Jobs -> 0 .. Len(runs)] BY <1>1, Types
  <2>2. CASE r \notin Jobs
    <3>1. rows' = rows /\ result' = result BY <2>2 DEF FinishAs
    <3> QED BY <3>1, <2>1, <2>2
  <2>3. CASE r \in Jobs
    <3>1. rows' = [rows EXCEPT ![r] = Released(rows[r], s)] /\ result' = [result EXCEPT ![r] = n]
      BY <2>3 DEF FinishAs, JobDone
    <3>2. Released(rows[r], s) \in Row BY <2>1, <2>3, ReleasedRow DEF Status, ActiveStatus, Terminal
    <3>3. Released(rows[r], s).gen = rows[r].gen /\ Released(rows[r], s).status = s BY DEF Released
    <3> QED BY <3>1, <3>2, <3>3, <2>1, <2>3, <1>3
  <2> QED BY <2>2, <2>3
<1>9. /\ command' \in [Retries -> CommandType(Len(runs))]
      /\ \A x \in Retries : x \notin Jobs \/ x # r => command'[x] = command[x]
      /\ r \in Jobs \cap Retries => command'[r].status = "COMPLETED" /\ command'[r].run = n
  <2>1. r \in Retries => command[r].status # "NONE" BY <1>1 DEF ProcOK, Holding, Working
  <2>2. CASE r \in Jobs \cap Retries
    <3>1. command' = CommandTo(r, "COMPLETED", n) BY <2>1, <2>2 DEF FinishAs, CommandDone
    <3>2. "COMPLETED" \in CommandStatus BY DEF CommandStatus
    <3> QED BY <2>2, <3>1, <3>2, <1>1, <1>3, Commands
  <2>3. CASE r \notin Jobs \cap Retries
    <3>1. command' = command BY <2>3 DEF FinishAs, CommandDone
    <3> QED BY <2>3, <3>1, <1>1
  <2> QED BY <2>2, <2>3
<1>10. proc'[r][g] = q BY <1>6 DEF Moved
<1>11. q.at = IF r \in Retries THEN "conclude" ELSE "said" BY <1>6 DEF AfterEnd
<1>12. TypeOK'
  <2>1. bind \in [Jobs -> BindType(Len(runs))] /\ thread \in [Workers -> ThreadType(Len(runs))]
        /\ process \in [stopping : BOOLEAN, restarts : 0 .. MaxRestarts]
    BY <1>1, Types
  <2> QED BY <2>1, <1>5, <1>6, <1>7, <1>8, <1>9, TypesNext
<1>13. Onward
  <2>1. \A m \in DOMAIN runs :
          /\ m \in DOMAIN runs' /\ runs'[m].by = runs[m].by /\ runs'[m].gen = runs[m].gen
          /\ runs[m].status # "RUNNING" => runs'[m].status = runs[m].status
    BY <1>3, <1>7
  <2>2. \A j \in Jobs : rows[j].status = "COMPLETED" => rows'[j].status = "COMPLETED"
    BY <1>4, <1>8
  <2>3. \A x \in Retries : command[x].status # "NONE" => command'[x].status # "NONE"
    BY <1>9
  <2> QED BY <2>1, <2>2, <2>3 DEF Onward
<1>14. ProcsInv'
  <2>1. ProcOK(r, g)'
    <3>1. r \in Retries => command'[r].status # "NONE"
      BY <1>1, <1>13 DEF ProcOK, Holding, Working, Onward
    <3> QED BY <3>1, <1>3, <1>6, <1>7, <1>8, <1>10, <1>11 DEF ProcOK, Early, Working, Holding
  <2>2. ASSUME NEW x \in Requests, NEW h \in DOMAIN proc'[x] PROVE ProcOK(x, h)'
    <3>1. h \in DOMAIN proc[x] BY <1>6 DEF Moved
    <3>2. CASE x = r /\ h = g BY <3>2, <2>1
    <3>3. CASE ~(x = r /\ h = g)
      <4>1. proc'[x][h] = proc[x][h] BY <3>1, <3>3, <1>6 DEF Moved
      <4>2. ProcOK(x, h) BY <3>1, <1>2 DEF ProcsInv
      <4>3. x \in Jobs /\ h = rows'[x].gen => h = rows[x].gen /\ bind'[x] = bind[x] BY <1>5, <1>8
      <4> QED BY <3>1, <4>1, <4>2, <4>3, <1>1, <1>13, ProcStays
    <3> QED BY <3>2, <3>3
  <2> QED BY <2>2 DEF ProcsInv
<1>15. RunsInv'
  <2>1. ASSUME NEW m \in DOMAIN runs PROVE RunOK(m)'
    <3>1. CASE runs'[m].status # "RUNNING" BY <3>1 DEF RunOK
    <3>2. CASE runs'[m].status = "RUNNING"
      <4> DEFINE x == runs[m].by
                 h == runs[m].gen
      <4>1. m # n BY <3>2, <1>7
      <4>2. runs'[m] = runs[m] /\ RunOK(m) /\ runs[m] \in RunType /\ runs[m].status = "RUNNING"
        BY <4>1, <3>2, <1>1, <1>7
      <4>3. x \in Requests /\ h \in DOMAIN proc[x] BY <4>2 DEF RunType, RunOK
      <4>4. ~(x = r /\ (r \in Jobs \/ h = g))
        BY <4>1, <4>2, <1>4, OnlyItsOwn DEF Working
      <4>5. proc'[x][h] = proc[x][h] /\ DOMAIN proc'[x] = DOMAIN proc[x]
        BY <4>3, <4>4, <1>6 DEF Moved
      <4>6. x \in Jobs => rows'[x] = rows[x] /\ bind'[x] = bind[x] BY <4>4, <1>5, <1>8
      <4> QED BY <4>2, <4>3, <4>5, <4>6, <1>13, RunStays
    <3> QED BY <3>1, <3>2
  <2> QED BY <2>1, <1>7 DEF RunsInv
<1>16. BindsInv'
  <2>1. ASSUME NEW j \in Jobs PROVE BindOK(j)'
    <3>1. BindOK(j) /\ j \in Requests /\ bind[j] \in BindType(Len(runs))
      BY <1>1, <1>2, Types DEF BindsInv, Requests
    <3>2. /\ Len(proc'[j]) = Len(proc[j]) /\ rows'[j].gen = rows[j].gen
          /\ rows'[j].status = "ABSENT" => rows[j].status = "ABSENT"
      BY <3>1, <1>6, <1>8 DEF Moved
    <3>3. bind[j].run # NoRun => runs'[bind[j].run].by = runs[bind[j].run].by
      BY <3>1, <1>1, <1>13 DEF BindType, NoRun, Onward
    <3>4. j \in Retries /\ command'[j].run # NoRun => runs'[command'[j].run].by = j
      <4>1. CASE j = r BY <4>1, <1>7, <1>9
      <4>2. CASE j # r
        <5>1. j \in Retries => command'[j] = command[j] /\ command[j] \in CommandType(Len(runs))
          BY <4>2, <1>1, <1>9
        <5>2. j \in Retries /\ command[j].run # NoRun =>
                command[j].run \in DOMAIN runs /\ runs[command[j].run].by = j
          BY <5>1, <3>1, <1>1 DEF CommandType, NoRun, BindOK
        <5> QED BY <5>1, <5>2, <1>13 DEF Onward
      <4> QED BY <4>1, <4>2
    <3> QED BY <3>1, <3>2, <3>3, <3>4, <1>5 DEF BindOK
  <2> QED BY <2>1 DEF BindsInv
<1>17. AnswerIsShared'
  <2>1. ASSUME NEW j \in Jobs, rows'[j].status = "COMPLETED"
        PROVE  result'[j] # NoRun /\ runs'[result'[j]].status = "COMPLETED"
    <3>1. CASE j = r BY <2>1, <3>1, <1>3, <1>7, <1>8
    <3>2. CASE j # r
      <4>1. result'[j] = result[j] /\ result[j] # NoRun /\ runs[result[j]].status = "COMPLETED"
        BY <2>1, <3>2, <1>2, <1>8 DEF AnswerIsShared
      <4>2. result[j] \in DOMAIN runs
        <5>1. result[j] \in 0 .. Len(runs) BY <1>1, Types
        <5> QED BY <5>1, <4>1, <1>1 DEF NoRun
      <4> QED BY <4>1, <4>2, <1>13 DEF Onward
    <3> QED BY <3>1, <3>2
  <2>2. ASSUME NEW m \in DOMAIN runs, runs'[m].status = "COMPLETED", runs'[m].by \in Jobs
        PROVE  rows'[runs'[m].by].status = "COMPLETED" /\ result'[runs'[m].by] = m
    <3>1. CASE m = n BY <2>2, <3>1, <1>7, <1>8
    <3>2. CASE m # n
      <4>1. runs'[m] = runs[m] BY <3>2, <1>7
      <4>2. rows[runs[m].by].status = "COMPLETED" /\ result[runs[m].by] = m
        BY <2>2, <4>1, <1>2 DEF AnswerIsShared
      <4>3. runs[m].by # r BY <2>2, <4>1, <4>2, <1>4
      <4> QED BY <2>2, <4>1, <4>2, <4>3, <1>8
    <3> QED BY <3>1, <3>2
  <2> QED BY <2>1, <2>2, <1>7 DEF AnswerIsShared
<1>18. RetryAnswers'
  <2>1. ASSUME NEW j \in Jobs \cap Retries, rows'[j].status = "COMPLETED"
        PROVE  command'[j].status = "COMPLETED" /\ command'[j].run = result'[j]
    <3>1. CASE j = r BY <3>1, <1>8, <1>9
    <3>2. CASE j # r BY <2>1, <3>2, <1>2, <1>8, <1>9 DEF RetryAnswers
    <3> QED BY <3>1, <3>2
  <2> QED BY <2>1 DEF RetryAnswers
<1>19. HeldInv'
  <2>1. \A x \in Retries : x # r => command'[x] = command[x] BY <1>9
  <2>2. r \in Callers \cap Retries => command'[r] = command[r] BY <1>9, RequestsAssumption
  <2>3. r \in Callers \cap Retries => command[r].status \in {"RESERVED", "ANALYSIS_RESERVED"}
    BY <1>2 DEF HeldInv, CallHolds, Holding, Working
  <2>4. r \in Retries => q.at \in Holding /\ proc[r][g].at \in Holding
    BY <1>11 DEF Holding, Working
  <2> QED BY <2>1, <2>2, <2>3, <2>4, <1>2, <1>6, HeldStays
<1>20. ThreadsInv'
  BY <1>1, <1>2, <1>5, <1>6, <1>8, <1>13, ThreadsStay
<1> QED BY <1>12, <1>14, <1>15, <1>16, <1>17, <1>18, <1>19, <1>20 DEF IInv

LEMMA FinishKeeps ==
  ASSUME IInv, NEW r \in Requests, NEW g \in DOMAIN proc[r], Finish(r, g)
  PROVE  IInv'
<1>1. ProcOK(r, g) /\ proc[r][g].at = "finish" BY Facts DEF Finish, At
<1>2. UNCHANGED <<bind, thread, process>> BY DEF Finish
<1>3. CASE ~Owns(r, g)
  <2>1. r \in Jobs /\ Fail(r, g) /\ UNCHANGED <<rows, result, runs, command>>
    BY <1>3 DEF Owns, Finish
  <2>2. UNCHANGED <<tables, thread, process>> BY <2>1, <1>2 DEF tables
  <2> QED BY <2>1, <2>2, <1>1, FailKeeps
<1>4. CASE Owns(r, g) /\ runs[proc[r][g].run].status = "RUNNING"
  <2>1. PICK s \in {proc[r][g].say, "FAILED"} : FinishAs(r, g, s) BY <1>4 DEF Finish
  <2>2. s \in {"COMPLETED", "FAILED"} BY <1>1 DEF ProcOK
  <2> QED BY <2>1, <2>2, <1>1, <1>2, <1>4, FinishAsKeeps
<1>5. CASE Owns(r, g) /\ runs[proc[r][g].run].status # "RUNNING"
  <2>1. /\ GoWith(r, g, AfterEnd(r), runs[proc[r][g].run].status)
        /\ UNCHANGED <<rows, result, runs, command>>
    BY <1>5 DEF Finish
  <2>2. UNCHANGED <<tables, thread, process>> BY <2>1, <1>2 DEF tables
  <2> QED BY <2>1, <2>2, <1>1, <1>5, EndedKeeps
<1> QED BY <1>3, <1>4, <1>5

------------------------------------------------------------------------------
(* Steps on the row of one job, by its thread or by others.                 *)

Dead == NewProc(NoWorker, "dead")

\* The row of j changes, what j computes may be interrupted and its processes
\* may be stopped.
JobStep(j) ==
  /\ bind' = bind
  /\ \A r \in Retries : command'[r].status = command[r].status /\ command'[r].run = command[r].run
  /\ \A i \in Jobs : i # j => rows'[i] = rows[i] /\ result'[i] = result[i]
  /\ rows'[j].gen = rows[j].gen
  /\ rows'[j].status = "ABSENT" => rows[j].status = "ABSENT"
  /\ rows[j].status = "COMPLETED" => rows'[j].status = "COMPLETED" /\ result'[j] = result[j]
  /\ rows'[j].status = "COMPLETED" =>
       \/ rows[j].status = "COMPLETED"
       \/ j \notin Retries /\ result'[j] \in DOMAIN runs /\ runs[result'[j]].status = "COMPLETED"
  /\ Len(runs') = Len(runs) /\ DOMAIN runs' = DOMAIN runs
  /\ \A n \in DOMAIN runs :
       /\ runs'[n].by = runs[n].by /\ runs'[n].gen = runs[n].gen
       /\ \/ runs'[n].status = runs[n].status
          \/ runs[n].status = "RUNNING" /\ runs'[n].status = "INTERRUPTED"
       /\ runs[n].by = j /\ runs'[n].status = "RUNNING" => rows'[j].status = rows[j].status
  /\ \A s \in Requests : Len(proc'[s]) = Len(proc[s]) /\ DOMAIN proc'[s] = DOMAIN proc[s]
  /\ \A s \in Requests : \A h \in DOMAIN proc[s] :
       proc'[s][h] = proc[s][h] \/ (s = j /\ proc'[s][h] = Dead)

LEMMA JobOnward ==
  ASSUME NEW j \in Jobs, JobStep(j)
  PROVE  Onward
<1>1. \A n \in DOMAIN runs :
        /\ n \in DOMAIN runs' /\ runs'[n].by = runs[n].by /\ runs'[n].gen = runs[n].gen
        /\ runs[n].status # "RUNNING" => runs'[n].status = runs[n].status
  BY DEF JobStep
<1>2. \A i \in Jobs : rows[i].status = "COMPLETED" => rows'[i].status = "COMPLETED"
  BY DEF JobStep
<1>3. \A r \in Retries : command[r].status # "NONE" => command'[r].status # "NONE"
  BY DEF JobStep
<1> QED BY <1>1, <1>2, <1>3 DEF Onward

LEMMA JobKeeps ==
  ASSUME IInv, NEW j \in Jobs, JobStep(j),
         rows' \in [Jobs -> Row], result' \in [Jobs -> 0 .. Len(runs)], runs' \in Seq(RunType),
         command' \in [Retries -> CommandType(Len(runs))],
         proc' \in [Requests -> Seq(ProcType(Len(runs)))], thread' \in [Workers -> ThreadType(Len(runs))],
         process' \in [stopping : BOOLEAN, restarts : 0 .. MaxRestarts],
         ThreadsInv'
  PROVE  IInv'
<1>1. TypeOK /\ ProcsInv /\ RunsInv /\ BindsInv /\ AnswerIsShared /\ RetryAnswers /\ HeldInv
  BY DEF IInv
<1>2. /\ DOMAIN runs = 1 .. Len(runs) /\ Len(runs) \in Nat
      /\ \A n \in DOMAIN runs : runs[n] \in RunType
  BY <1>1, Indices
<1>3. /\ bind' = bind
      /\ \A r \in Retries : command'[r].status = command[r].status /\ command'[r].run = command[r].run
      /\ \A i \in Jobs : i # j => rows'[i] = rows[i] /\ result'[i] = result[i]
      /\ \A i \in Jobs : rows'[i].gen = rows[i].gen
      /\ Len(runs') = Len(runs) /\ DOMAIN runs' = DOMAIN runs
  BY DEF JobStep
<1>4. Onward BY JobOnward
<1>5. TypeOK'
  <2>1. bind \in [Jobs -> BindType(Len(runs))]
    BY <1>1, Types
  <2> QED BY <2>1, <1>3, TypesNext
<1>6. ProcsInv'
  <2>1. ASSUME NEW s \in Requests, NEW h \in DOMAIN proc'[s] PROVE ProcOK(s, h)'
    <3>1. h \in DOMAIN proc[s] BY DEF JobStep
    <3>2. CASE proc'[s][h] = Dead
      <4>1. proc'[s][h].at = "dead" /\ proc'[s][h].run = NoRun BY <3>2 DEF Dead, NewProc
      <4> QED BY <4>1 DEF ProcOK, Early, Working, Holding
    <3>3. CASE proc'[s][h] = proc[s][h]
      <4>1. ProcOK(s, h) BY <3>1, <1>1 DEF ProcsInv
      <4>2. s \in Jobs /\ h = rows'[s].gen => h = rows[s].gen /\ bind'[s] = bind[s] BY <1>3
      <4> QED BY <3>1, <3>3, <4>1, <4>2, <1>1, <1>4, ProcStays
    <3> QED BY <3>1, <3>2, <3>3 DEF JobStep
  <2> QED BY <2>1 DEF ProcsInv
<1>7. RunsInv'
  <2>1. ASSUME NEW n \in DOMAIN runs PROVE RunOK(n)'
    <3>1. CASE runs'[n].status # "RUNNING" BY <3>1 DEF RunOK
    <3>2. CASE runs'[n].status = "RUNNING"
      <4> DEFINE r == runs[n].by
                 g == runs[n].gen
      <4>1. RunOK(n) /\ runs[n] \in RunType /\ runs[n].status = "RUNNING" /\ r \in Requests
            /\ runs'[n].by = r /\ runs'[n].gen = g
        BY <3>2, <1>1, <1>2 DEF RunsInv, RunType, JobStep
      <4>2. /\ g \in DOMAIN proc[r] /\ g \in DOMAIN proc'[r]
            /\ proc'[r][g] = proc[r][g] \/ (r = j /\ proc'[r][g].at = "dead")
        <5>1. g \in DOMAIN proc[r] BY <4>1 DEF RunOK
        <5>2. DOMAIN proc'[r] = DOMAIN proc[r] BY <4>1 DEF JobStep
        <5>3. proc'[r][g] = proc[r][g] \/ (r = j /\ proc'[r][g] = Dead) BY <4>1, <5>1 DEF JobStep
        <5> QED BY <5>1, <5>2, <5>3 DEF Dead, NewProc
      <4>3. r \in Jobs => rows'[r].status = rows[r].status /\ rows'[r].gen = rows[r].gen
        BY <3>2, <4>1, <1>3 DEF JobStep
      <4>4. r = j => r \in Jobs /\ r \notin Callers BY RequestsAssumption
      <4> HIDE DEF r, g
      <4>5. CASE proc'[r][g] = proc[r][g] BY <3>2, <4>1, <4>2, <4>3, <4>5, <1>3 DEF RunOK, BoundTo, r, g
      <4>6. CASE r = j /\ proc'[r][g].at = "dead"
        BY <3>2, <4>1, <4>2, <4>3, <4>4, <4>6, <1>3 DEF RunOK, BoundTo, r, g
      <4> QED BY <4>2, <4>5, <4>6
    <3> QED BY <3>1, <3>2
  <2> QED BY <2>1, <1>3 DEF RunsInv
<1>8. BindsInv'
  <2>1. ASSUME NEW i \in Jobs PROVE BindOK(i)'
    <3>1. BindOK(i) /\ i \in Requests /\ bind[i] \in BindType(Len(runs))
      BY <1>1, Types DEF BindsInv, Requests
    <3>2. /\ Len(proc'[i]) = Len(proc[i])
          /\ rows'[i].status = "ABSENT" => rows[i].status = "ABSENT"
      BY <3>1 DEF JobStep
    <3>3. bind[i].run # NoRun => runs'[bind[i].run].by = runs[bind[i].run].by
      BY <3>1, <1>2, <1>4 DEF BindType, NoRun, Onward
    <3>4. i \in Retries /\ command[i].run # NoRun => runs'[command[i].run].by = i
      <4>1. i \in Retries => command[i] \in CommandType(Len(runs)) BY <1>1, Types
      <4>2. i \in Retries /\ command[i].run # NoRun =>
              command[i].run \in DOMAIN runs /\ runs[command[i].run].by = i
        BY <4>1, <3>1, <1>2 DEF CommandType, NoRun, BindOK
      <4> QED BY <4>2, <1>4 DEF Onward
    <3> QED BY <3>1, <3>2, <3>3, <3>4, <1>3 DEF BindOK
  <2> QED BY <2>1 DEF BindsInv
<1>9. AnswerIsShared'
  <2>1. ASSUME NEW i \in Jobs, rows'[i].status = "COMPLETED"
        PROVE  result'[i] # NoRun /\ runs'[result'[i]].status = "COMPLETED"
    <3>1. CASE rows[i].status = "COMPLETED"
      <4>1. result'[i] = result[i] /\ result[i] # NoRun /\ runs[result[i]].status = "COMPLETED"
        BY <3>1, <1>1 DEF AnswerIsShared, JobStep
      <4>2. result[i] \in DOMAIN runs
        <5>1. result[i] \in 0 .. Len(runs) BY <1>1, Types
        <5> QED BY <5>1, <4>1, <1>2 DEF NoRun
      <4> QED BY <4>1, <4>2, <1>4 DEF Onward
    <3>2. CASE rows[i].status # "COMPLETED"
      <4>1. i = j BY <2>1, <3>2, <1>3
      <4>2. result'[i] \in DOMAIN runs /\ runs[result'[i]].status = "COMPLETED"
        BY <2>1, <3>2, <4>1 DEF JobStep
      <4> QED BY <4>2, <1>2, <1>4 DEF Onward, NoRun
    <3> QED BY <3>1, <3>2
  <2>2. ASSUME NEW n \in DOMAIN runs, runs'[n].status = "COMPLETED", runs'[n].by \in Jobs
        PROVE  rows'[runs'[n].by].status = "COMPLETED" /\ result'[runs'[n].by] = n
    <3>1. runs'[n].by = runs[n].by /\ runs[n].status = "COMPLETED" BY <2>2 DEF JobStep
    <3>2. rows[runs[n].by].status = "COMPLETED" /\ result[runs[n].by] = n
      BY <2>2, <3>1, <1>1 DEF AnswerIsShared
    <3>3. CASE runs[n].by = j BY <3>1, <3>2, <3>3 DEF JobStep
    <3>4. CASE runs[n].by # j BY <2>2, <3>1, <3>2, <3>4, <1>3
    <3> QED BY <3>3, <3>4
  <2> QED BY <2>1, <2>2, <1>3 DEF AnswerIsShared
<1>10. RetryAnswers'
  <2>1. ASSUME NEW i \in Jobs \cap Retries, rows'[i].status = "COMPLETED"
        PROVE  command'[i].status = "COMPLETED" /\ command'[i].run = result'[i]
    <3>1. rows[i].status = "COMPLETED" /\ result'[i] = result[i]
      BY <2>1 DEF JobStep
    <3> QED BY <2>1, <3>1, <1>1, <1>3 DEF RetryAnswers
  <2> QED BY <2>1 DEF RetryAnswers
<1>11. HeldInv'
  <2>1. ASSUME NEW c \in Callers \cap Retries
        PROVE  DOMAIN proc'[c] = DOMAIN proc[c] /\ \A h \in DOMAIN proc[c] : proc'[c][h] = proc[c][h]
    <3>1. c \in Requests /\ c # j BY RequestsAssumption DEF Requests
    <3> QED BY <3>1 DEF JobStep
  <2>2. \A c \in Callers \cap Retries : command'[c].status = command[c].status BY <1>3
  <2> SUFFICES ASSUME NEW c \in Callers \cap Retries, NEW g \in DOMAIN proc[c], proc[c][g].at \in Holding
               PROVE  /\ command[c].status \in {"RESERVED", "ANALYSIS_RESERVED"}
                      /\ \A h \in DOMAIN proc[c] : proc[c][h].at \in Holding => h = g
    BY <2>1, <2>2 DEF HeldInv, CallHolds
  <2> QED BY <1>1 DEF HeldInv, CallHolds
<1> QED BY <1>5, <1>6, <1>7, <1>8, <1>9, <1>10, <1>11 DEF IInv

\* The threads that work on other jobs see nothing of it.
LEMMA OtherThread ==
  ASSUME IInv, NEW j \in Jobs, JobStep(j), NEW v \in Workers, thread'[v] = thread[v],
         thread[v].job # j \/ proc' = proc
  PROVE  ThreadOK(v)'
<1>1. TypeOK /\ ThreadOK(v) BY DEF IInv, ThreadsInv
<1>2. Onward BY JobOnward
<1>3. thread[v].at # "idle" =>
        LET i == thread[v].job
            g == thread[v].gen IN
        /\ rows'[i].gen = rows[i].gen
        /\ g \in DOMAIN proc'[i]
        /\ proc'[i][g] = proc[i][g] \/ proc[i][g].at \notin {"none", "said"}
  <2>1. SUFFICES ASSUME thread[v].at # "idle"
                 PROVE  LET i == thread[v].job
                            g == thread[v].gen IN
                        /\ rows'[i].gen = rows[i].gen
                        /\ g \in DOMAIN proc'[i]
                        /\ proc'[i][g] = proc[i][g]
    OBVIOUS
  <2>2. thread[v].job \in Jobs /\ thread[v].job \in Requests /\ thread[v].gen \in DOMAIN proc[thread[v].job]
    BY <2>1, <1>1 DEF ThreadOK, Requests
  <2>3. rows'[thread[v].job].gen = rows[thread[v].job].gen BY <2>2 DEF JobStep
  <2>4. thread[v].gen \in DOMAIN proc'[thread[v].job] BY <2>2 DEF JobStep
  <2>5. proc'[thread[v].job][thread[v].gen] = proc[thread[v].job][thread[v].gen] BY <2>2 DEF JobStep
  <2> QED BY <2>3, <2>4, <2>5
<1> QED BY <1>1, <1>2, <1>3, ThreadStays

\* Nobody's thread moves.
LEMMA RowKeeps ==
  ASSUME IInv, NEW j \in Jobs, JobStep(j), UNCHANGED <<proc, thread>>,
         rows' \in [Jobs -> Row], result' \in [Jobs -> 0 .. Len(runs)], runs' \in Seq(RunType),
         command' \in [Retries -> CommandType(Len(runs))],
         process' \in [stopping : BOOLEAN, restarts : 0 .. MaxRestarts]
  PROVE  IInv'
<1>1. proc \in [Requests -> Seq(ProcType(Len(runs)))] /\ thread \in [Workers -> ThreadType(Len(runs))]
  BY Types DEF IInv
<1>2. \A v \in Workers : ThreadOK(v)' BY OtherThread
<1>3. ThreadsInv' BY <1>2 DEF ThreadsInv, IInv
<1> QED BY <1>1, <1>3, JobKeeps

\* The thread of j moves.
LEMMA ThreadKeeps ==
  ASSUME IInv, NEW w \in Workers, thread[w].at # "idle", JobStep(thread[w].job),
         NEW x \in ThreadType(Len(runs)), x.job \in {thread[w].job, NoJob},
         thread' = [thread EXCEPT ![w] = x], ThreadOK(w)',
         rows' \in [Jobs -> Row], result' \in [Jobs -> 0 .. Len(runs)], runs' \in Seq(RunType),
         command' = command,
         proc' \in [Requests -> Seq(ProcType(Len(runs)))], process' = process
  PROVE  IInv'
<1> PICK j : j = thread[w].job OBVIOUS
<1>1. /\ TypeOK /\ ThreadOK(w) /\ j \in Jobs /\ j # NoJob
      /\ \A v \in Workers : v # w => thread[v].job # j
  BY RequestsAssumption DEF IInv, ThreadsInv, ThreadOK, Requests
<1>2. /\ thread \in [Workers -> ThreadType(Len(runs))]
      /\ command' \in [Retries -> CommandType(Len(runs))]
      /\ process' \in [stopping : BOOLEAN, restarts : 0 .. MaxRestarts]
  BY <1>1, Types
<1>3. /\ thread' \in [Workers -> ThreadType(Len(runs))]
      /\ thread'[w].job \in {j, NoJob}
      /\ \A v \in Workers : v # w => thread'[v] = thread[v]
  BY <1>2
<1>4. ASSUME NEW v \in Workers PROVE ThreadOK(v)'
  <2>1. CASE v = w BY <2>1
  <2>2. CASE v # w
    <3>1. thread'[v] = thread[v] /\ thread[v].job # j BY <2>2, <1>1, <1>3
    <3> QED BY <3>1, <1>1, OtherThread
  <2> QED BY <2>1, <2>2
<1>5. \A u, v \in Workers : thread'[u].job = thread'[v].job /\ thread'[u].job # NoJob => u = v
  BY <1>1, <1>3 DEF IInv, ThreadsInv
<1>6. ThreadsInv' BY <1>4, <1>5 DEF ThreadsInv
<1> QED BY <1>1, <1>2, <1>3, <1>6, JobKeeps

------------------------------------------------------------------------------
(* The row of a job: requests, cancellation, leases.                        *)

LEMMA Interrupts ==
  ASSUME IInv, NEW j \in Jobs, runs' = Interrupted(j)
  PROVE  /\ runs' \in Seq(RunType) /\ Len(runs') = Len(runs) /\ DOMAIN runs' = DOMAIN runs
         /\ \A n \in DOMAIN runs :
              /\ runs'[n].by = runs[n].by /\ runs'[n].gen = runs[n].gen
              /\ \/ runs'[n].status = runs[n].status
                 \/ runs[n].status = "RUNNING" /\ runs'[n].status = "INTERRUPTED"
              /\ runs[n].by = j => runs'[n].status # "RUNNING"
<1>1. /\ Len(runs) \in Nat /\ DOMAIN runs = 1 .. Len(runs)
      /\ \A n \in DOMAIN runs : runs[n] \in RunType
      /\ \A n \in DOMAIN runs : RunOK(n)
  BY Indices DEF IInv, RunsInv
<1>2. ASSUME NEW n \in DOMAIN runs
      PROVE  /\ Interrupted(j)[n] \in RunType
             /\ Interrupted(j)[n].by = runs[n].by /\ Interrupted(j)[n].gen = runs[n].gen
             /\ \/ Interrupted(j)[n].status = runs[n].status
                \/ runs[n].status = "RUNNING" /\ Interrupted(j)[n].status = "INTERRUPTED"
             /\ runs[n].by = j => Interrupted(j)[n].status # "RUNNING"
  <2>1. runs[n] \in RunType /\ RunOK(n) BY <1>1
  <2>2. CASE bind[j].owns /\ bind[j].gen = rows[j].gen /\ bind[j].run = n /\ runs[n].status = "RUNNING"
    <3>1. Interrupted(j)[n] = [runs[n] EXCEPT !.status = "INTERRUPTED"] BY <2>2 DEF Interrupted
    <3> QED BY <2>1, <2>2, <3>1 DEF RunType, RunStatus, RunEnded
  <2>3. CASE ~(bind[j].owns /\ bind[j].gen = rows[j].gen /\ bind[j].run = n /\ runs[n].status = "RUNNING")
    <3>1. Interrupted(j)[n] = runs[n] BY <2>3 DEF Interrupted
    <3>2. runs[n].by = j => runs[n].status # "RUNNING"
      BY <2>1, <2>3 DEF RunOK, BoundTo
    <3> QED BY <2>1, <3>1, <3>2
  <2> QED BY <2>2, <2>3
<1>3. Interrupted(j) \in [1 .. Len(runs) -> RunType]
  <2>1. Interrupted(j) = [n \in 1 .. Len(runs) |-> Interrupted(j)[n]] BY <1>1 DEF Interrupted
  <2> QED BY <2>1, <1>1, <1>2
<1>4. runs' \in Seq(RunType) /\ Len(runs') = Len(runs) /\ DOMAIN runs' = DOMAIN runs
  BY <1>1, <1>3
<1> QED BY <1>2, <1>4

LEMMA NamesType ==
  ASSUME TypeOK, NEW r \in Requests, Names(r)
  PROVE  /\ command' \in [Retries -> CommandType(Len(runs))]
         /\ \A s \in Retries : command'[s].status = command[s].status /\ command'[s].run = command[s].run
<1>1. command \in [Retries -> CommandType(Len(runs))] /\ DOMAIN runs = 1 .. Len(runs) /\ Len(runs) \in Nat
  BY Types, Indices
<1>2. CASE r \in Retries
  <2>1. PICK n \in DOMAIN runs :
          command' = IF command[r].of = NoRun THEN [command EXCEPT ![r].of = n] ELSE command
    BY <1>2 DEF Names
  <2> DEFINE c == [command[r] EXCEPT !.of = n]
  <2>2. n \in 0 .. Len(runs) BY <1>1
  <2>3. c \in CommandType(Len(runs)) /\ c.status = command[r].status /\ c.run = command[r].run
    BY <1>1, <1>2, <2>2 DEF CommandType
  <2>4. command' = [command EXCEPT ![r] = c] \/ command' = command BY <2>1
  <2> HIDE DEF c
  <2> QED BY <1>1, <1>2, <2>3, <2>4
<1>3. CASE r \notin Retries
  <2>1. command' = command BY <1>3 DEF Names
  <2> QED BY <1>1, <2>1
<1> QED BY <1>2, <1>3

LEMMA QueueKeeps ==
  ASSUME IInv, NEW j \in Jobs, Queue(j)
  PROVE  IInv'
<1>1. TypeOK /\ BindOK(j) /\ j \in Requests BY DEF IInv, BindsInv, Requests
<1>2. /\ rows \in [Jobs -> Row] /\ result \in [Jobs -> 0 .. Len(runs)] /\ runs \in Seq(RunType)
      /\ process \in [stopping : BOOLEAN, restarts : 0 .. MaxRestarts]
      /\ \A s \in Requests : \A h \in DOMAIN proc[s] : proc[s][h] \in ProcType(Len(runs))
  BY <1>1, Types, Indices
<1>3. /\ rows[j].status = "ABSENT" /\ rows' = [rows EXCEPT ![j] = QueuedRow]
      /\ result' = result /\ runs' = runs /\ bind' = bind /\ proc' = proc
      /\ thread' = thread /\ process' = process
  BY DEF Queue
<1>4. /\ command' \in [Retries -> CommandType(Len(runs))]
      /\ \A s \in Retries : command'[s].status = command[s].status /\ command'[s].run = command[s].run
  BY <1>1, NamesType DEF Queue
<1>5. QueuedRow \in Row /\ QueuedRow.status = "QUEUED" /\ QueuedRow.gen = 0
  BY NewRows DEF QueuedRow, AbsentRow
<1>6. /\ rows' \in [Jobs -> Row] /\ rows'[j].status = "QUEUED" /\ rows'[j].gen = rows[j].gen
      /\ \A i \in Jobs : i # j => rows'[i] = rows[i]
  BY <1>1, <1>2, <1>3, <1>5 DEF BindOK
<1>7. ASSUME NEW n \in DOMAIN runs, runs[n].by = j PROVE runs[n].status # "RUNNING"
  <2>1. RunOK(n) BY DEF IInv, RunsInv
  <2> QED BY <2>1, <1>3, <1>7 DEF RunOK
<1>8. JobStep(j) BY <1>3, <1>4, <1>6, <1>7 DEF JobStep
<1> QED BY <1>2, <1>3, <1>4, <1>6, <1>8, RowKeeps

\* A cancellation, a reaper or a clock.
LEMMA TableKeeps ==
  ASSUME IInv, NEW j \in Jobs, NEW x \in Row, rows' = [rows EXCEPT ![j] = x],
         UNCHANGED <<result, bind, command, proc, thread, process>>,
         x.gen = rows[j].gen, rows[j].status \notin Terminal, x.status \notin {"ABSENT", "COMPLETED"},
         runs' = Interrupted(j) \/ (runs' = runs /\ x.status = rows[j].status)
  PROVE  IInv'
<1>1. /\ TypeOK /\ rows \in [Jobs -> Row] /\ result \in [Jobs -> 0 .. Len(runs)] /\ runs \in Seq(RunType)
      /\ command \in [Retries -> CommandType(Len(runs))]
      /\ process \in [stopping : BOOLEAN, restarts : 0 .. MaxRestarts]
  BY Types DEF IInv
<1>2. /\ rows' \in [Jobs -> Row] /\ rows'[j] = x /\ \A i \in Jobs : i # j => rows'[i] = rows[i]
  BY <1>1
<1>3. /\ runs' \in Seq(RunType) /\ Len(runs') = Len(runs) /\ DOMAIN runs' = DOMAIN runs
      /\ \A n \in DOMAIN runs :
           /\ runs'[n].by = runs[n].by /\ runs'[n].gen = runs[n].gen
           /\ \/ runs'[n].status = runs[n].status
              \/ runs[n].status = "RUNNING" /\ runs'[n].status = "INTERRUPTED"
           /\ runs[n].by = j /\ runs'[n].status = "RUNNING" => x.status = rows[j].status
  <2>1. CASE runs' = Interrupted(j) BY <2>1, Interrupts
  <2>2. CASE runs' = runs /\ x.status = rows[j].status BY <2>2, <1>1
  <2> QED BY <2>1, <2>2
<1>4. JobStep(j) BY <1>2, <1>3 DEF JobStep, Terminal
<1> QED BY <1>1, <1>2, <1>3, <1>4, RowKeeps

LEMMA CancelKeeps ==
  ASSUME IInv, NEW j \in Jobs, Cancel(j)
  PROVE  IInv'
<1>1. rows[j] \in Row BY Types DEF IInv
<1>2. /\ rows[j].status \in {"QUEUED", "INTERRUPTED", "RUNNING"}
      /\ rows' = [rows EXCEPT ![j] = Cancelled(rows[j])] /\ runs' = Interrupted(j)
      /\ UNCHANGED <<result, bind, command, proc, thread, process>>
  BY DEF Cancel, Cancellable
<1>3. /\ Cancelled(rows[j]) \in Row /\ Cancelled(rows[j]).gen = rows[j].gen
      /\ Cancelled(rows[j]).status \in {"CANCEL_REQUESTED", "CANCELLED"}
  BY <1>1, OwnerKept
<1> QED BY <1>2, <1>3, TableKeeps DEF Terminal

LEMMA ReapKeeps ==
  ASSUME IInv, NEW j \in Jobs, Reap(j)
  PROVE  IInv'
<1>1. rows[j] \in Row BY Types DEF IInv
<1>2. /\ rows[j].status \in {"RUNNING", "CANCEL_REQUESTED"}
      /\ rows' = [rows EXCEPT ![j] = Reaped(rows[j])] /\ runs' = Interrupted(j)
      /\ UNCHANGED <<result, bind, command, proc, thread, process>>
  BY DEF Reap, Expired
<1>3. /\ Reaped(rows[j]) \in Row /\ Reaped(rows[j]).gen = rows[j].gen
      /\ Reaped(rows[j]).status \in {rows[j].status, "CANCELLED", "FAILED", "INTERRUPTED"}
  BY <1>1, ReapedRow
<1> QED BY <1>2, <1>3, TableKeeps DEF Terminal

LEMMA RunOutKeeps ==
  ASSUME IInv, NEW j \in Jobs, RunOut(j)
  PROVE  IInv'
<1>1. rows[j] \in Row BY Types DEF IInv
<1> DEFINE x == [rows[j] EXCEPT !.lease = -1]
<1>2. /\ rows' = [rows EXCEPT ![j] = x]
      /\ UNCHANGED <<result, runs, bind, command, proc, thread, process>>
  BY DEF RunOut
<1>3. x \in Row /\ x.gen = rows[j].gen /\ x.status = rows[j].status BY <1>1 DEF Row
<1> HIDE DEF x
<1>4. /\ TypeOK /\ rows \in [Jobs -> Row] /\ result \in [Jobs -> 0 .. Len(runs)] /\ runs \in Seq(RunType)
      /\ command \in [Retries -> CommandType(Len(runs))]
      /\ process \in [stopping : BOOLEAN, restarts : 0 .. MaxRestarts]
  BY Types DEF IInv
<1>5. rows' \in [Jobs -> Row] /\ rows'[j] = x /\ \A i \in Jobs : i # j => rows'[i] = rows[i]
  BY <1>2, <1>3, <1>4
<1>6. JobStep(j) BY <1>2, <1>3, <1>5 DEF JobStep
<1> QED BY <1>2, <1>4, <1>5, <1>6, RowKeeps

------------------------------------------------------------------------------
(* A new attempt of a job, a new call of a caller.                          *)

Grows(r, q) == proc' = [proc EXCEPT ![r] = Append(proc[r], q)]

LEMMA Appended ==
  ASSUME TypeOK, NEW r \in Requests, NEW q \in ProcType(Len(runs)), Grows(r, q)
  PROVE  /\ proc' \in [Requests -> Seq(ProcType(Len(runs)))]
         /\ Len(proc'[r]) = Len(proc[r]) + 1 /\ DOMAIN proc'[r] = DOMAIN proc[r] \cup {Len(proc[r]) + 1}
         /\ proc'[r][Len(proc[r]) + 1] = q
         /\ \A h \in DOMAIN proc[r] : proc'[r][h] = proc[r][h] /\ h # Len(proc[r]) + 1
         /\ \A s \in Requests : s # r => proc'[s] = proc[s]
<1> DEFINE P == ProcType(Len(runs))
           x == Append(proc[r], q)
<1>1. proc \in [Requests -> Seq(P)] BY Types
<1>2. Len(proc[r]) \in Nat /\ DOMAIN proc[r] = 1 .. Len(proc[r]) BY Indices
<1> HIDE DEF P
<1>3. /\ x \in Seq(P) /\ Len(x) = Len(proc[r]) + 1
      /\ \A i \in 1 .. Len(proc[r]) : x[i] = proc[r][i]
      /\ x[Len(proc[r]) + 1] = q
  <2>1. q \in P /\ proc[r] \in Seq(P) BY <1>1 DEF P
  <2> QED BY <2>1, AppendProperties
<1> HIDE DEF x
<1>4. proc' = [proc EXCEPT ![r] = x] BY DEF x, Grows
<1>5. proc'[r] = x /\ \A s \in Requests : s # r => proc'[s] = proc[s] BY <1>1, <1>4
<1>6. proc' \in [Requests -> Seq(P)] BY <1>1, <1>3, <1>4
<1>7. DOMAIN x = 1 .. Len(x) BY <1>3, LenProperties
<1> QED BY <1>2, <1>3, <1>5, <1>6, <1>7 DEF P

\* The row of a job is claimed, what it computed is interrupted; a call of a
\* caller changes no row.
NewAttempt(r, q) ==
  /\ q.at \in {"none", "start"} /\ q.run = NoRun
  /\ Grows(r, q)
  /\ bind' = bind /\ result' = result
  /\ \A s \in Retries : command'[s].status = command[s].status /\ command'[s].run = command[s].run
  /\ \A i \in Jobs : i # r => rows'[i] = rows[i]
  /\ r \in Jobs => /\ rows'[r].gen = rows[r].gen + 1 /\ rows'[r].status \notin {"ABSENT", "COMPLETED"}
                   /\ rows[r].status # "COMPLETED"
  /\ Len(runs') = Len(runs) /\ DOMAIN runs' = DOMAIN runs
  /\ \A n \in DOMAIN runs :
       /\ runs'[n].by = runs[n].by /\ runs'[n].gen = runs[n].gen
       /\ \/ runs'[n].status = runs[n].status
          \/ runs[n].status = "RUNNING" /\ runs'[n].status = "INTERRUPTED"
       /\ r \in Jobs /\ runs[n].by = r => runs'[n].status # "RUNNING"

LEMMA NewOnward ==
  ASSUME NEW r \in Requests, NEW q, NewAttempt(r, q)
  PROVE  Onward
<1>1. \A n \in DOMAIN runs :
        /\ n \in DOMAIN runs' /\ runs'[n].by = runs[n].by /\ runs'[n].gen = runs[n].gen
        /\ runs[n].status # "RUNNING" => runs'[n].status = runs[n].status
  BY DEF NewAttempt
<1>2. \A i \in Jobs : rows[i].status = "COMPLETED" => rows'[i].status = "COMPLETED"
  BY DEF NewAttempt
<1>3. \A s \in Retries : command[s].status # "NONE" => command'[s].status # "NONE"
  BY DEF NewAttempt
<1> QED BY <1>1, <1>2, <1>3 DEF Onward

LEMMA UntouchedThread ==
  ASSUME IInv, NEW r \in Requests, NEW q \in ProcType(Len(runs)), NewAttempt(r, q),
         NEW v \in Workers, thread'[v] = thread[v], thread[v].job # r
  PROVE  ThreadOK(v)'
<1>1. TypeOK /\ ThreadOK(v) BY DEF IInv, ThreadsInv
<1>2. Onward BY NewOnward
<1>3. Grows(r, q) BY DEF NewAttempt
<1>4. thread[v].at # "idle" =>
        /\ rows'[thread[v].job] = rows[thread[v].job]
        /\ proc'[thread[v].job] = proc[thread[v].job]
        /\ thread[v].gen \in DOMAIN proc[thread[v].job]
  <2> SUFFICES ASSUME thread[v].at # "idle"
               PROVE  /\ rows'[thread[v].job] = rows[thread[v].job]
                      /\ proc'[thread[v].job] = proc[thread[v].job]
                      /\ thread[v].gen \in DOMAIN proc[thread[v].job]
    OBVIOUS
  <2>1. thread[v].job \in Jobs /\ thread[v].job \in Requests /\ thread[v].gen \in DOMAIN proc[thread[v].job]
    BY <1>1 DEF ThreadOK, Requests
  <2>2. proc'[thread[v].job] = proc[thread[v].job] BY <2>1, <1>1, <1>3, Appended
  <2> QED BY <2>1, <2>2 DEF NewAttempt
<1> QED BY <1>1, <1>2, <1>4, ThreadStays

LEMMA NewKeeps ==
  ASSUME IInv, NEW r \in Requests, NEW q \in ProcType(Len(runs)), NewAttempt(r, q),
         rows' \in [Jobs -> Row], runs' \in Seq(RunType), command' \in [Retries -> CommandType(Len(runs))],
         thread' \in [Workers -> ThreadType(Len(runs))],
         process' \in [stopping : BOOLEAN, restarts : 0 .. MaxRestarts],
         ThreadsInv'
  PROVE  IInv'
<1>1. TypeOK /\ ProcsInv /\ RunsInv /\ BindsInv /\ AnswerIsShared /\ RetryAnswers /\ HeldInv
  BY DEF IInv
<1>2. /\ DOMAIN runs = 1 .. Len(runs) /\ Len(runs) \in Nat
      /\ \A n \in DOMAIN runs : runs[n] \in RunType
      /\ \A s \in Requests : Len(proc[s]) \in Nat /\ DOMAIN proc[s] = 1 .. Len(proc[s])
  BY <1>1, Indices
<1> PICK g : g = Len(proc[r]) + 1 OBVIOUS
<1>3. /\ proc' \in [Requests -> Seq(ProcType(Len(runs)))]
      /\ Len(proc'[r]) = Len(proc[r]) + 1 /\ DOMAIN proc'[r] = DOMAIN proc[r] \cup {g}
      /\ proc'[r][g] = q
      /\ \A h \in DOMAIN proc[r] : proc'[r][h] = proc[r][h] /\ h # g
      /\ \A s \in Requests : s # r => proc'[s] = proc[s]
  <2>1. Grows(r, q) BY DEF NewAttempt
  <2> QED BY <2>1, <1>1, Appended
<1>4. /\ bind' = bind /\ result' = result
      /\ \A s \in Retries : command'[s].status = command[s].status /\ command'[s].run = command[s].run
      /\ \A i \in Jobs : i # r => rows'[i] = rows[i]
      /\ r \in Jobs => /\ rows'[r].gen = rows[r].gen + 1 /\ rows'[r].status \notin {"ABSENT", "COMPLETED"}
                       /\ rows[r].status # "COMPLETED"
      /\ Len(runs') = Len(runs) /\ DOMAIN runs' = DOMAIN runs
      /\ q.at \in {"none", "start"} /\ q.run = NoRun
  BY DEF NewAttempt
<1>5. Onward BY NewOnward
<1>6. \A s \in Requests : \A h \in DOMAIN proc[s] : h \in DOMAIN proc'[s] /\ proc'[s][h] = proc[s][h]
  BY <1>3
<1>7. TypeOK'
  <2>1. bind \in [Jobs -> BindType(Len(runs))] /\ result \in [Jobs -> 0 .. Len(runs)] BY <1>1, Types
  <2> QED BY <2>1, <1>3, <1>4, TypesNext
<1>8. r \in Jobs => BindOK(r) BY <1>1 DEF BindsInv
<1>9. ProcsInv'
  <2>1. ProcOK(r, g)' BY <1>3, <1>4 DEF ProcOK, Early, Working, Holding
  <2>2. ASSUME NEW s \in Requests, NEW h \in DOMAIN proc'[s] PROVE ProcOK(s, h)'
    <3>1. CASE s = r /\ h = g BY <3>1, <2>1
    <3>2. CASE ~(s = r /\ h = g)
      <4>1. h \in DOMAIN proc[s] BY <3>2, <1>3
      <4>2. ProcOK(s, h) BY <4>1, <1>1 DEF ProcsInv
      <4>3. s \in Jobs /\ h = rows'[s].gen => h = rows[s].gen /\ bind'[s] = bind[s]
        <5>1. s = r /\ s \in Jobs => rows'[s].gen = g BY <1>4, <1>8 DEF BindOK
        <5> QED BY <5>1, <3>2, <1>4
      <4> QED BY <4>1, <4>2, <4>3, <1>1, <1>5, <1>6, ProcStays
    <3> QED BY <3>1, <3>2
  <2> QED BY <2>2 DEF ProcsInv
<1>10. RunsInv'
  <2>1. ASSUME NEW n \in DOMAIN runs PROVE RunOK(n)'
    <3>1. CASE runs'[n].status # "RUNNING" BY <3>1 DEF RunOK
    <3>2. CASE runs'[n].status = "RUNNING"
      <4> DEFINE s == runs[n].by
                 h == runs[n].gen
      <4>1. RunOK(n) /\ runs[n] \in RunType /\ runs[n].status = "RUNNING" /\ s \in Requests
            /\ (s \in Jobs => s # r)
        BY <3>2, <1>1, <1>2 DEF RunsInv, RunType, NewAttempt
      <4>2. h \in DOMAIN proc[s] BY <4>1 DEF RunOK
      <4>3. proc'[s][h] = proc[s][h] /\ h \in DOMAIN proc'[s] BY <4>1, <4>2, <1>6
      <4>4. s \in Jobs => rows'[s] = rows[s] /\ bind'[s] = bind[s] BY <4>1, <1>4
      <4> QED BY <4>1, <4>3, <4>4, <1>5, RunStays
    <3> QED BY <3>1, <3>2
  <2> QED BY <2>1, <1>4 DEF RunsInv
<1>11. BindsInv'
  <2>1. ASSUME NEW i \in Jobs PROVE BindOK(i)'
    <3>1. BindOK(i) /\ i \in Requests /\ bind[i] \in BindType(Len(runs))
      BY <1>1, Types DEF BindsInv, Requests
    <3>2. Len(proc'[i]) = rows'[i].gen /\ (rows'[i].status = "ABSENT" => rows'[i].gen = 0)
      <4>1. CASE i = r BY <4>1, <3>1, <1>3, <1>4 DEF BindOK
      <4>2. CASE i # r BY <4>2, <3>1, <1>3, <1>4 DEF BindOK
      <4> QED BY <4>1, <4>2
    <3>3. bind[i].run # NoRun => runs'[bind[i].run].by = runs[bind[i].run].by
      BY <3>1, <1>2, <1>5 DEF BindType, NoRun, Onward
    <3>4. i \in Retries /\ command[i].run # NoRun => runs'[command[i].run].by = i
      <4>1. i \in Retries => command[i] \in CommandType(Len(runs)) BY <1>1, Types
      <4>2. i \in Retries /\ command[i].run # NoRun =>
              command[i].run \in DOMAIN runs /\ runs[command[i].run].by = i
        BY <4>1, <3>1, <1>2 DEF CommandType, NoRun, BindOK
      <4> QED BY <4>2, <1>5 DEF Onward
    <3> QED BY <3>1, <3>2, <3>3, <3>4, <1>4 DEF BindOK
  <2> QED BY <2>1 DEF BindsInv
<1>12. AnswerIsShared' /\ RetryAnswers'
  <2>1. \A i \in Jobs : rows'[i].status = "COMPLETED" =>
          rows[i].status = "COMPLETED" /\ result'[i] = result[i]
    BY <1>4
  <2>2. \A n \in DOMAIN runs' : runs'[n].status = "COMPLETED" =>
          n \in DOMAIN runs /\ runs[n].status = "COMPLETED"
    BY DEF NewAttempt
  <2>3. \A s \in Retries : command[s].status = "COMPLETED" =>
          command'[s].status = "COMPLETED" /\ command'[s].run = command[s].run
    BY <1>4
  <2> QED BY <2>1, <2>2, <2>3, <1>1, <1>5, AnswersStay
<1>13. HeldInv'
  <2>1. q.at \notin Holding BY <1>4 DEF Holding, Working
  <2>2. ASSUME NEW c \in Callers \cap Retries, NEW h \in DOMAIN proc'[c], proc'[c][h].at \in Holding
        PROVE  h \in DOMAIN proc[c] /\ proc[c][h].at \in Holding
    BY <2>1, <2>2, <1>3 DEF Requests
  <2> SUFFICES ASSUME NEW c \in Callers \cap Retries, NEW h \in DOMAIN proc'[c], proc'[c][h].at \in Holding
               PROVE  /\ command'[c].status \in {"RESERVED", "ANALYSIS_RESERVED"}
                      /\ \A i \in DOMAIN proc'[c] : proc'[c][i].at \in Holding => i = h
    BY DEF HeldInv, CallHolds
  <2>3. h \in DOMAIN proc[c] /\ proc[c][h].at \in Holding BY <2>2
  <2>4. command[c].status \in {"RESERVED", "ANALYSIS_RESERVED"}
        /\ \A i \in DOMAIN proc[c] : proc[c][i].at \in Holding => i = h
    BY <2>3, <1>1 DEF HeldInv, CallHolds
  <2> QED BY <2>2, <2>4, <1>4
<1> QED BY <1>7, <1>9, <1>10, <1>11, <1>12, <1>13 DEF IInv

LEMMA CallKeeps ==
  ASSUME IInv, NEW c \in Callers, Call(c)
  PROVE  IInv'
<1> DEFINE q == NewProc(NoWorker, "start")
<1>1. TypeOK /\ c \in Requests /\ c \notin Jobs BY RequestsAssumption DEF IInv, Requests
<1>2. /\ rows \in [Jobs -> Row] /\ runs \in Seq(RunType) /\ thread \in [Workers -> ThreadType(Len(runs))]
      /\ process \in [stopping : BOOLEAN, restarts : 0 .. MaxRestarts] /\ Len(runs) \in Nat
  BY <1>1, Types, Indices
<1>3. q \in ProcType(Len(runs)) /\ q.at = "start" /\ q.run = NoRun
  BY <1>2 DEF NewProc, ProcType, Place, NoRun
<1>4. /\ Grows(c, q)
      /\ rows' = rows /\ result' = result /\ runs' = runs /\ bind' = bind
      /\ thread' = thread /\ process' = process
  BY DEF Call, Grows
<1> HIDE DEF q
<1>5. /\ command' \in [Retries -> CommandType(Len(runs))]
      /\ \A s \in Retries : command'[s].status = command[s].status /\ command'[s].run = command[s].run
  BY <1>1, NamesType DEF Call
<1>6. NewAttempt(c, q) BY <1>1, <1>3, <1>4, <1>5 DEF NewAttempt
<1>7. ASSUME NEW v \in Workers PROVE thread[v].job # c
  <2>1. ThreadOK(v) BY DEF IInv, ThreadsInv
  <2> QED BY <2>1, <1>1, RequestsAssumption DEF ThreadOK
<1>8. \A v \in Workers : ThreadOK(v)' BY <1>1, <1>3, <1>4, <1>6, <1>7, UntouchedThread
<1>9. ThreadsInv' BY <1>4, <1>8 DEF IInv, ThreadsInv
<1> QED BY <1>1, <1>2, <1>3, <1>4, <1>5, <1>6, <1>9, NewKeeps

LEMMA ClaimKeeps ==
  ASSUME IInv, NEW w \in Workers, NEW j \in Jobs, Claim(w, j)
  PROVE  IInv'
<1> DEFINE q == NewProc(w, "none")
           x == [IdleThread EXCEPT !.at = "spawn", !.job = j, !.gen = rows[j].gen + 1]
<1>1. TypeOK /\ j \in Requests /\ j # NoJob /\ BindOK(j) BY RequestsAssumption DEF IInv, BindsInv, Requests
<1>2. /\ rows \in [Jobs -> Row] /\ runs \in Seq(RunType) /\ thread \in [Workers -> ThreadType(Len(runs))]
      /\ command \in [Retries -> CommandType(Len(runs))]
      /\ process \in [stopping : BOOLEAN, restarts : 0 .. MaxRestarts] /\ Len(runs) \in Nat
  BY <1>1, Types, Indices
<1>3. q \in ProcType(Len(runs)) /\ q.at = "none" /\ q.run = NoRun
  BY <1>2 DEF NewProc, ProcType, Place, NoRun
<1>4. /\ rows[j].status \in {"QUEUED", "INTERRUPTED"} /\ \A v \in Workers : thread[v].job # j
      /\ rows' = [rows EXCEPT ![j] = Claimed(rows[j], w)] /\ runs' = Interrupted(j)
      /\ Grows(j, q) /\ thread' = [thread EXCEPT ![w] = x]
      /\ result' = result /\ bind' = bind /\ command' = command /\ process' = process
  BY DEF Claim, Grows
<1> HIDE DEF q
<1>5. /\ rows' \in [Jobs -> Row] /\ rows'[j].gen = rows[j].gen + 1 /\ rows'[j].status = "RUNNING"
      /\ \A i \in Jobs : i # j => rows'[i] = rows[i]
  <2>1. /\ Claimed(rows[j], w) \in Row /\ Claimed(rows[j], w).gen = rows[j].gen + 1
        /\ Claimed(rows[j], w).status = "RUNNING"
    <3>1. rows[j] \in Row BY <1>2
    <3> QED BY <3>1, NewRows DEF Claimed
  <2> QED BY <2>1, <1>2, <1>4
<1>6. /\ x \in ThreadType(Len(runs)) /\ x.at = "spawn" /\ x.job = j /\ x.gen = rows[j].gen + 1
  <2>1. rows[j].gen + 1 \in Nat BY <1>2 DEF Row
  <2>2. 0 \in 0 .. Len(runs) BY <1>2
  <2> QED BY <2>1, <2>2 DEF IdleThread, ThreadType, Status, NoRun
<1> HIDE DEF x
<1>7. /\ thread' \in [Workers -> ThreadType(Len(runs))] /\ thread'[w] = x
      /\ \A v \in Workers : v # w => thread'[v] = thread[v]
  BY <1>2, <1>4, <1>6
<1>8. /\ runs' \in Seq(RunType) /\ Len(runs') = Len(runs) /\ DOMAIN runs' = DOMAIN runs
      /\ \A n \in DOMAIN runs :
           /\ runs'[n].by = runs[n].by /\ runs'[n].gen = runs[n].gen
           /\ \/ runs'[n].status = runs[n].status
              \/ runs[n].status = "RUNNING" /\ runs'[n].status = "INTERRUPTED"
           /\ runs[n].by = j => runs'[n].status # "RUNNING"
  BY <1>4, Interrupts
<1>9. NewAttempt(j, q) BY <1>3, <1>4, <1>5, <1>8 DEF NewAttempt
<1>10. ASSUME NEW v \in Workers PROVE ThreadOK(v)'
  <2>1. CASE v # w BY <2>1, <1>1, <1>3, <1>4, <1>7, <1>9, UntouchedThread
  <2>2. CASE v = w
    <3>1. rows[j].gen + 1 \in DOMAIN proc'[j] /\ proc'[j][rows[j].gen + 1] = q
      BY <1>1, <1>3, <1>4, Appended DEF BindOK
    <3> QED BY <3>1, <2>2, <1>3, <1>5, <1>6, <1>7 DEF ThreadOK
  <2> QED BY <2>1, <2>2
<1>11. \A u, v \in Workers : thread'[u].job = thread'[v].job /\ thread'[u].job # NoJob => u = v
  BY <1>4, <1>6, <1>7 DEF IInv, ThreadsInv
<1>12. ThreadsInv' BY <1>10, <1>11 DEF ThreadsInv
<1> QED BY <1>1, <1>2, <1>3, <1>4, <1>5, <1>7, <1>8, <1>9, <1>12, NewKeeps

------------------------------------------------------------------------------
(* The thread of a job.                                                     *)

LEMMA ThreadFacts ==
  ASSUME IInv, NEW w \in Workers, thread[w].at # "idle"
  PROVE  LET t == thread[w]
             p == proc[t.job][t.gen] IN
         /\ TypeOK /\ ThreadOK(w) /\ t \in ThreadType(Len(runs)) /\ t.job # NoJob
         /\ t.job \in Jobs /\ t.job \in Requests /\ t.gen = rows[t.job].gen
         /\ t.gen \in DOMAIN proc[t.job] /\ p \in ProcType(Len(runs)) /\ ProcOK(t.job, t.gen)
         /\ BindOK(t.job) /\ bind[t.job] \in BindType(Len(runs))
         /\ t.job \in Retries => command[t.job] \in CommandType(Len(runs))
         /\ rows \in [Jobs -> Row] /\ result \in [Jobs -> 0 .. Len(runs)] /\ runs \in Seq(RunType)
         /\ thread \in [Workers -> ThreadType(Len(runs))]
         /\ Len(runs) \in Nat /\ DOMAIN runs = 1 .. Len(runs)
<1>1. TypeOK /\ ThreadOK(w) /\ ProcsInv /\ BindsInv BY DEF IInv, ThreadsInv
<1>2. /\ thread[w].job \in Jobs /\ thread[w].job \in Requests /\ thread[w].job # NoJob
      /\ thread[w].gen = rows[thread[w].job].gen /\ thread[w].gen \in DOMAIN proc[thread[w].job]
  BY <1>1, RequestsAssumption DEF ThreadOK, Requests
<1>3. ProcOK(thread[w].job, thread[w].gen) /\ BindOK(thread[w].job)
  BY <1>1, <1>2 DEF ProcsInv, BindsInv
<1>4. proc[thread[w].job][thread[w].gen] \in ProcType(Len(runs)) BY <1>1, <1>2, Indices
<1>5. /\ thread[w] \in ThreadType(Len(runs)) /\ bind[thread[w].job] \in BindType(Len(runs))
      /\ thread[w].job \in Retries => command[thread[w].job] \in CommandType(Len(runs))
      /\ rows \in [Jobs -> Row] /\ result \in [Jobs -> 0 .. Len(runs)] /\ runs \in Seq(RunType)
      /\ thread \in [Workers -> ThreadType(Len(runs))]
  BY <1>1, <1>2, Types
<1>6. Len(runs) \in Nat /\ DOMAIN runs = 1 .. Len(runs) BY <1>1, Indices
<1> QED BY <1>1, <1>2, <1>3, <1>4, <1>5, <1>6

\* The processes of a job other than the attempt's child stay, the child may be
\* stopped.
Stops(j) ==
  /\ \A s \in Requests : Len(proc'[s]) = Len(proc[s]) /\ DOMAIN proc'[s] = DOMAIN proc[s]
  /\ \A s \in Requests : \A h \in DOMAIN proc[s] :
       proc'[s][h] = proc[s][h] \/ (s = j /\ proc'[s][h] = Dead)

LEMMA StopsChild ==
  ASSUME IInv, NEW w \in Workers, thread[w].at # "idle", StopChild(w) \/ proc' = proc
  PROVE  Stops(thread[w].job) /\ proc' \in [Requests -> Seq(ProcType(Len(runs)))]
<1> PICK j, g : j = thread[w].job /\ g = thread[w].gen OBVIOUS
<1>1. TypeOK /\ j \in Requests /\ g \in DOMAIN proc[j] /\ Len(runs) \in Nat BY ThreadFacts
<1>2. CASE proc' = proc
  <2>1. proc \in [Requests -> Seq(ProcType(Len(runs)))] BY <1>1, Types
  <2> QED BY <2>1, <1>2 DEF Stops
<1>3. CASE StopChild(w)
  <2>1. proc' = [proc EXCEPT ![j][g] = Dead] BY <1>3, Zenon DEF StopChild, Dead
  <2>2. Dead \in ProcType(Len(runs)) BY <1>1 DEF Dead, NewProc, ProcType, Place, NoRun
  <2>3. Moved(j, g, Dead) /\ proc' \in [Requests -> Seq(ProcType(Len(runs)))]
    BY <2>1, <2>2, <1>1, Puts
  <2> QED BY <2>3 DEF Moved, Stops
<1> QED BY <1>2, <1>3

\* The thread moves, and nothing else but perhaps its child.
LEMMA WatchKeeps ==
  ASSUME IInv, NEW w \in Workers, thread[w].at # "idle", UNCHANGED <<tables, process>>,
         StopChild(w) \/ proc' = proc,
         NEW x \in ThreadType(Len(runs)), x.job \in {thread[w].job, NoJob},
         thread' = [thread EXCEPT ![w] = x], ThreadOK(w)'
  PROVE  IInv'
<1>1. /\ thread[w].job \in Jobs /\ rows \in [Jobs -> Row] /\ result \in [Jobs -> 0 .. Len(runs)]
      /\ runs \in Seq(RunType)
  BY ThreadFacts
<1>2. /\ rows' = rows /\ result' = result /\ runs' = runs /\ bind' = bind /\ command' = command
      /\ process' = process
  BY DEF tables
<1>3. Stops(thread[w].job) /\ proc' \in [Requests -> Seq(ProcType(Len(runs)))] BY StopsChild
<1>4. JobStep(thread[w].job) BY <1>2, <1>3 DEF JobStep, Stops
<1> QED BY <1>1, <1>2, <1>3, <1>4, ThreadKeeps

\* What a thread that goes on, or rests, has to be.
LEMMA ThreadRests ==
  ASSUME IInv, NEW w \in Workers, thread' = [thread EXCEPT ![w] = IdleThread]
  PROVE  /\ IdleThread \in ThreadType(Len(runs)) /\ IdleThread.job = NoJob
         /\ ThreadOK(w)'
<1>1. Len(runs) \in Nat /\ thread \in [Workers -> ThreadType(Len(runs))] BY Types, Indices DEF IInv
<1>2. IdleThread \in ThreadType(Len(runs)) /\ IdleThread.job = NoJob /\ IdleThread.at = "idle"
  <2>1. 0 \in 0 .. Len(runs) BY <1>1
  <2> QED BY <2>1 DEF IdleThread, ThreadType, Status, NoRun
<1>3. thread'[w] = IdleThread BY <1>1
<1> QED BY <1>2, <1>3 DEF ThreadOK

\* The thread goes to a place that asks nothing of its child.
LEMMA ThreadGoes ==
  ASSUME IInv, NEW w \in Workers, thread[w].at # "idle",
         DOMAIN proc'[thread[w].job] = DOMAIN proc[thread[w].job],
         rows'[thread[w].job].gen = rows[thread[w].job].gen,
         \/ ThrGo(w, "failing")
         \/ \E s \in {"FAILED", "CANCELLED", "INTERRUPTED"}, n \in 0 .. Len(runs) : Report(w, s, n)
  PROVE  \E x \in ThreadType(Len(runs)) :
           x.job = thread[w].job /\ thread' = [thread EXCEPT ![w] = x] /\ ThreadOK(w)'
<1> DEFINE t == thread[w]
<1>1. /\ ThreadOK(w) /\ t \in ThreadType(Len(runs)) /\ thread \in [Workers -> ThreadType(Len(runs))]
      /\ t.job \in Jobs /\ t.gen = rows[t.job].gen /\ t.gen \in DOMAIN proc[t.job]
  BY ThreadFacts
<1>2. PICK x \in ThreadType(Len(runs)) :
        /\ x.at \in {"failing", "report"}
        /\ x.at = "report" => x.say \in {"FAILED", "CANCELLED", "INTERRUPTED"}
        /\ x.job = t.job /\ x.gen = t.gen /\ thread' = [thread EXCEPT ![w] = x]
  <2>1. CASE ThrGo(w, "failing")
    <3> DEFINE x == [t EXCEPT !.at = "failing"]
    <3>1. x \in ThreadType(Len(runs)) /\ x.at = "failing" /\ x.job = t.job /\ x.gen = t.gen
      BY <1>1 DEF ThreadType
    <3>2. thread' = [thread EXCEPT ![w] = x] BY <2>1 DEF ThrGo
    <3> QED BY <3>1, <3>2
  <2>2. ASSUME NEW s \in {"FAILED", "CANCELLED", "INTERRUPTED"}, NEW n \in 0 .. Len(runs), Report(w, s, n)
        PROVE  \E x \in ThreadType(Len(runs)) :
                 /\ x.at \in {"failing", "report"}
                 /\ x.at = "report" => x.say \in {"FAILED", "CANCELLED", "INTERRUPTED"}
                 /\ x.job = t.job /\ x.gen = t.gen /\ thread' = [thread EXCEPT ![w] = x]
    <3> DEFINE x == [t EXCEPT !.at = "report", !.say = s, !.run = n]
    <3>1. x \in ThreadType(Len(runs)) /\ x.at = "report" /\ x.say = s /\ x.job = t.job /\ x.gen = t.gen
      BY <1>1 DEF ThreadType, Status, Terminal, ActiveStatus
    <3>2. thread' = [thread EXCEPT ![w] = x] BY <2>2 DEF Report
    <3> QED BY <3>1, <3>2
  <2> QED BY <2>1, <2>2
<1>3. thread'[w] = x BY <1>1, <1>2
<1> HIDE DEF t
<1>4. ThreadOK(w)' BY <1>1, <1>2, <1>3 DEF ThreadOK, t
<1> QED BY <1>2, <1>4 DEF t

LEMMA GiveUpKeeps ==
  ASSUME IInv, NEW w \in Workers, GiveUp(w) \/ SeeRow(w)
  PROVE  IInv'
<1>1. thread[w].at # "idle" BY DEF GiveUp, SeeRow, Watching
<1>2. StopChild(w) /\ UNCHANGED <<tables, process>> BY DEF GiveUp, SeeRow
<1>3. /\ rows'[thread[w].job].gen = rows[thread[w].job].gen
      /\ DOMAIN proc'[thread[w].job] = DOMAIN proc[thread[w].job]
      /\ NoRun \in 0 .. Len(runs)
  <2>1. thread[w].job \in Requests /\ Stops(thread[w].job) /\ Len(runs) \in Nat
    BY <1>1, <1>2, StopsChild, ThreadFacts
  <2> QED BY <2>1, <1>2 DEF Stops, tables, NoRun
<1>4. CASE thread' = [thread EXCEPT ![w] = IdleThread]
  <2>1. IdleThread \in ThreadType(Len(runs)) /\ IdleThread.job = NoJob /\ ThreadOK(w)'
    BY <1>4, ThreadRests
  <2> QED BY <2>1, <1>1, <1>2, <1>4, WatchKeeps
<1>5. CASE ThrGo(w, "failing") \/ Report(w, "CANCELLED", NoRun) \/ Report(w, "INTERRUPTED", NoRun)
  <2>1. \/ ThrGo(w, "failing")
        \/ \E s \in {"FAILED", "CANCELLED", "INTERRUPTED"}, n \in 0 .. Len(runs) : Report(w, s, n)
    BY <1>3, <1>5
  <2>2. PICK x \in ThreadType(Len(runs)) :
          x.job = thread[w].job /\ thread' = [thread EXCEPT ![w] = x] /\ ThreadOK(w)'
    BY <2>1, <1>1, <1>3, ThreadGoes
  <2> QED BY <2>2, <1>1, <1>2, WatchKeeps
<1> QED BY <1>4, <1>5 DEF GiveUp, SeeRow

LEMMA SpawnKeeps ==
  ASSUME IInv, NEW w \in Workers, Spawn(w)
  PROVE  IInv'
<1> PICK j, g : j = thread[w].job /\ g = thread[w].gen OBVIOUS
<1> DEFINE t == thread[w]
<1>1. t.at = "spawn" /\ t.at # "idle" BY DEF Spawn, Thr
<1>2. /\ TypeOK /\ ThreadOK(w) /\ t \in ThreadType(Len(runs)) /\ j # NoJob
      /\ j \in Jobs /\ j \in Requests /\ g = rows[j].gen /\ g \in DOMAIN proc[j]
      /\ proc[j][g].at = "none" /\ ProcOK(j, g)
      /\ thread \in [Workers -> ThreadType(Len(runs))]
  BY <1>1, ThreadFacts DEF ThreadOK
<1>3. UNCHANGED <<tables, process>> BY DEF Spawn
<1>4. CASE ThrGo(w, "failing") /\ proc' = proc
  <2>1. /\ rows'[thread[w].job].gen = rows[thread[w].job].gen
        /\ DOMAIN proc'[thread[w].job] = DOMAIN proc[thread[w].job]
    BY <1>3, <1>4 DEF tables
  <2>2. PICK x \in ThreadType(Len(runs)) :
          x.job = thread[w].job /\ thread' = [thread EXCEPT ![w] = x] /\ ThreadOK(w)'
    BY <1>1, <1>4, <2>1, ThreadGoes
  <2> QED BY <2>2, <1>1, <1>3, <1>4, WatchKeeps
<1>5. CASE Go(j, g, "start") /\ ThrGo(w, "watch")
  <2>1. "start" \in Place BY DEF Place
  <2>2. PICK q \in ProcType(Len(runs)) :
          /\ Moved(j, g, q) /\ proc' \in [Requests -> Seq(ProcType(Len(runs)))]
          /\ q.at = "start" /\ q.run = proc[j][g].run
    BY <2>1, <1>2, <1>5, Goes
  <2>3. proc'[j][g] = q BY <2>2 DEF Moved
  <2>4. /\ rows' = rows /\ result' = result /\ runs' = runs /\ bind' = bind /\ command' = command
        /\ process' = process
    BY <1>3 DEF tables
  <2>5. ProcOK(j, g)' BY <2>2, <2>3, <1>2 DEF ProcOK, Early, Working, Holding
  <2>6. \A n \in DOMAIN runs : ~(runs[n].by = j /\ runs[n].gen = g /\ runs[n].status = "RUNNING")
    BY <1>2, IdleAttempt DEF Working
  <2>7. j \notin Callers BY <1>2, RequestsAssumption
  <2>8. HeldInv' BY <1>2, <2>2, <2>4, <2>7, HeldStays DEF IInv
  <2> DEFINE x == [t EXCEPT !.at = "watch"]
  <2>9. x \in ThreadType(Len(runs)) /\ x.at = "watch" /\ x.job = j /\ x.gen = g
    BY <1>2 DEF ThreadType, Watching
  <2>10. thread' = [thread EXCEPT ![w] = x] BY <1>5 DEF ThrGo
  <2> HIDE DEF x, t
  <2>11. /\ thread' \in [Workers -> ThreadType(Len(runs))] /\ thread'[w] = x
         /\ \A v \in Workers : v # w => thread'[v] = thread[v]
    BY <1>2, <2>9, <2>10
  <2>12. ASSUME NEW v \in Workers PROVE ThreadOK(v)'
    <3>1. CASE v = w
      <4>1. g \in DOMAIN proc'[j] BY <1>2, <2>2 DEF Moved
      <4> QED BY <3>1, <4>1, <1>2, <2>4, <2>9, <2>11 DEF ThreadOK
    <3>2. CASE v # w
      <4>1. ThreadOK(v) /\ thread[v].job # j /\ thread'[v] = thread[v]
        BY <3>2, <1>2, <2>11 DEF IInv, ThreadsInv
      <4>2. thread[v].at # "idle" =>
              thread[v].job \in Requests /\ thread[v].job \in Jobs /\ thread[v].gen \in DOMAIN proc[thread[v].job]
        BY <4>1 DEF ThreadOK, Requests
      <4>3. thread[v].at # "idle" =>
              /\ thread[v].gen \in DOMAIN proc'[thread[v].job]
              /\ proc'[thread[v].job][thread[v].gen] = proc[thread[v].job][thread[v].gen]
        BY <4>1, <4>2, <2>2 DEF Moved
      <4>4. Onward BY <2>4 DEF Onward
      <4> QED BY <4>1, <4>3, <4>4, <1>2, <2>4, ThreadStays
    <3> QED BY <3>1, <3>2
  <2>13. \A u, v \in Workers : thread'[u].job = thread'[v].job /\ thread'[u].job # NoJob => u = v
    <3>1. \A v \in Workers : thread'[v].job = thread[v].job BY <2>9, <2>11
    <3> QED BY <3>1 DEF IInv, ThreadsInv
  <2>14. ThreadsInv' BY <2>12, <2>13 DEF ThreadsInv
  <2>15. /\ command' \in [Retries -> CommandType(Len(runs))]
         /\ process' \in [stopping : BOOLEAN, restarts : 0 .. MaxRestarts]
         /\ BindOK(j)
    BY <1>2, <2>4, Types DEF IInv, BindsInv
  <2>16. /\ \A s \in Retries : s # j => command'[s] = command[s]
         /\ j \in Retries =>
              /\ command[j].status # "NONE" => command'[j].status # "NONE"
              /\ command[j].status = "COMPLETED" => command'[j] = command[j]
              /\ j \in Jobs /\ command'[j].run # NoRun => runs[command'[j].run].by = j
         /\ UNCHANGED <<rows, result, runs, bind>>
    BY <1>2, <2>4, <2>15 DEF BindOK
  <2> QED BY <1>2, <2>2, <2>5, <2>6, <2>8, <2>11, <2>14, <2>15, <2>16, OneMoves
<1> QED BY <1>4, <1>5 DEF Spawn, Go

\* The thread reports an analysis that is completed.
LEMMA ThreadReports ==
  ASSUME IInv, NEW w \in Workers, thread[w].at # "idle", UNCHANGED <<tables, proc, process>>,
         NEW n \in DOMAIN runs, runs[n].status = "COMPLETED", Report(w, "COMPLETED", n),
         proc[thread[w].job][thread[w].gen].at = "said", proc[thread[w].job][thread[w].gen].say # "ERROR",
         thread[w].job \in Retries => rows[thread[w].job].status = "COMPLETED"
  PROVE  IInv'
<1> DEFINE t == thread[w]
           x == [t EXCEPT !.at = "report", !.say = "COMPLETED", !.run = n]
<1>1. /\ ThreadOK(w) /\ t \in ThreadType(Len(runs)) /\ thread \in [Workers -> ThreadType(Len(runs))]
      /\ t.job \in Jobs /\ t.gen = rows[t.job].gen /\ t.gen \in DOMAIN proc[t.job]
      /\ Len(runs) \in Nat /\ DOMAIN runs = 1 .. Len(runs)
  BY ThreadFacts
<1>2. n \in 0 .. Len(runs) /\ n # NoRun BY <1>1 DEF NoRun
<1>3. /\ x \in ThreadType(Len(runs)) /\ x.at = "report" /\ x.say = "COMPLETED"
      /\ x.job = t.job /\ x.gen = t.gen /\ x.run = n
  BY <1>1, <1>2 DEF ThreadType, Status, Terminal
<1>4. thread' = [thread EXCEPT ![w] = x] BY DEF Report
<1> HIDE DEF x
<1>5. thread'[w] = x BY <1>1, <1>4
<1>6. rows' = rows /\ runs' = runs /\ proc' = proc BY DEF tables
<1> HIDE DEF t
<1>7. ThreadOK(w)' BY <1>1, <1>2, <1>3, <1>5, <1>6 DEF ThreadOK, t
<1> QED BY <1>3, <1>4, <1>6, <1>7, WatchKeeps DEF t

LEMMA FollowKeeps ==
  ASSUME IInv, NEW w \in Workers, Follow(w)
  PROVE  IInv'
<1> PICK j, g : j = thread[w].job /\ g = thread[w].gen OBVIOUS
<1> DEFINE b == bind[j]
<1>1. /\ thread[w].at = "follow" /\ thread[w].at # "idle"
      /\ b.gen = g /\ b.run # NoRun /\ runs[b.run].status # "RUNNING"
      /\ Report(w, IF runs[b.run].status = "COMPLETED" THEN "COMPLETED" ELSE "FAILED", b.run)
      /\ UNCHANGED <<tables, proc, process>>
  BY DEF Follow, Thr
<1>2. /\ ThreadOK(w) /\ BindOK(j) /\ b \in BindType(Len(runs)) /\ j \in Jobs
      /\ Len(runs) \in Nat /\ DOMAIN runs = 1 .. Len(runs)
  BY <1>1, ThreadFacts
<1>3. b.run \in DOMAIN runs /\ b.run \in 0 .. Len(runs) BY <1>1, <1>2 DEF BindType, NoRun
<1>4. CASE runs[b.run].status = "COMPLETED"
  <2>1. proc[j][g].at = "said" /\ proc[j][g].say # "ERROR" BY <1>1, <1>2 DEF ThreadOK
  <2>2. j \in Retries => rows[j].status = "COMPLETED"
    <3>1. j \in Retries => runs[b.run].by = j BY <1>1, <1>2 DEF BindOK
    <3> QED BY <3>1, <1>2, <1>3, <1>4 DEF IInv, AnswerIsShared
  <2>3. Report(w, "COMPLETED", b.run) BY <1>1, <1>4
  <2> QED BY <2>1, <2>2, <2>3, <1>1, <1>3, <1>4, ThreadReports
<1>5. CASE runs[b.run].status # "COMPLETED"
  <2>1. Report(w, "FAILED", b.run) BY <1>1, <1>5
  <2>2. /\ rows'[thread[w].job].gen = rows[thread[w].job].gen
        /\ DOMAIN proc'[thread[w].job] = DOMAIN proc[thread[w].job]
        /\ UNCHANGED <<tables, process>> /\ proc' = proc
    BY <1>1 DEF tables
  <2>3. PICK x \in ThreadType(Len(runs)) :
          x.job = thread[w].job /\ thread' = [thread EXCEPT ![w] = x] /\ ThreadOK(w)'
    BY <2>1, <2>2, <1>1, <1>3, ThreadGoes
  <2> QED BY <2>2, <2>3, <1>1, WatchKeeps
<1> QED BY <1>4, <1>5

LEMMA HearKeeps ==
  ASSUME IInv, NEW w \in Workers, Hear(w)
  PROVE  IInv'
<1> PICK j, g : j = thread[w].job /\ g = thread[w].gen OBVIOUS
<1> DEFINE p == proc[j][g]
           n == IF p.run # NoRun THEN p.run
                ELSE IF j \in Retries THEN command[j].run ELSE bind[j].run
<1>1. /\ thread[w].at = "watch" /\ thread[w].at # "idle" /\ p.at = "said"
      /\ UNCHANGED <<tables, proc, process>>
  BY DEF Hear, Thr, Child
<1>2. /\ TypeOK /\ ThreadOK(w) /\ BindOK(j) /\ bind[j] \in BindType(Len(runs)) /\ j \in Jobs
      /\ j \in Retries => command[j] \in CommandType(Len(runs))
      /\ g = rows[j].gen /\ g \in DOMAIN proc[j] /\ p \in ProcType(Len(runs)) /\ ProcOK(j, g)
      /\ Len(runs) \in Nat /\ DOMAIN runs = 1 .. Len(runs)
      /\ thread[w] \in ThreadType(Len(runs)) /\ thread \in [Workers -> ThreadType(Len(runs))]
  BY <1>1, ThreadFacts
<1>3. n \in 0 .. Len(runs) BY <1>2 DEF ProcType, BindType, CommandType
<1>4. /\ rows'[thread[w].job].gen = rows[thread[w].job].gen
      /\ DOMAIN proc'[thread[w].job] = DOMAIN proc[thread[w].job]
      /\ UNCHANGED <<tables, process>> /\ proc' = proc /\ rows' = rows
  BY <1>1 DEF tables
<1>5. \/ ThrGo(w, "failing") /\ p.say = "ERROR"
      \/ ThrGo(w, "follow") /\ p.say = "RUNNING"
      \/ Report(w, "COMPLETED", n) /\ p.say = "COMPLETED"
      \/ Report(w, "FAILED", n)
  <2>1. CASE p.say = "ERROR" BY <2>1 DEF Hear, Child
  <2>2. CASE p.say = "RUNNING" BY <2>2 DEF Hear, Child
  <2>3. CASE p.say \notin {"ERROR", "RUNNING"}
    <3>1. Report(w, IF p.say = "COMPLETED" THEN "COMPLETED" ELSE "FAILED", n) BY <2>3 DEF Hear, Child
    <3> HIDE DEF n
    <3>2. CASE p.say = "COMPLETED" BY <3>1, <3>2
    <3>3. CASE p.say # "COMPLETED" BY <3>1, <3>3
    <3> QED BY <3>2, <3>3
  <2> QED BY <2>1, <2>2, <2>3
<1>6. CASE p.say = "COMPLETED" /\ Report(w, "COMPLETED", n)
  <2>0. p.say = "COMPLETED" BY <1>6
  <2>1. /\ j \in Retries => rows[j].status = "COMPLETED"
        /\ p.run # NoRun => runs[p.run].status = "COMPLETED"
    <3>1. ProcOK(j, g) /\ j \in Jobs /\ p.at = "said" BY <1>1, <1>2
    <3> HIDE DEF n
    <3> QED BY <2>0, <3>1 DEF ProcOK
  <2>2. n # NoRun /\ runs[n].status = "COMPLETED"
    <3>1. CASE p.run # NoRun
      <4>1. n = p.run BY <3>1
      <4>2. runs[p.run].status = "COMPLETED" BY <3>1, <2>1
      <4> QED BY <3>1, <4>1, <4>2
    <3>2. CASE p.run = NoRun /\ j \in Retries
      <4>1. n = command[j].run BY <3>2
      <4>2. rows[j].status = "COMPLETED" BY <3>2, <2>1
      <4>3. command[j].run = result[j] BY <3>2, <4>2, <1>2 DEF IInv, RetryAnswers
      <4>4. result[j] # NoRun /\ runs[result[j]].status = "COMPLETED"
        BY <4>2, <1>2 DEF IInv, AnswerIsShared
      <4> QED BY <4>1, <4>3, <4>4
    <3>3. CASE p.run = NoRun /\ j \notin Retries
      <4>1. n = bind[j].run BY <3>3
      <4>2. bind[j].run # NoRun /\ runs[bind[j].run].status = "COMPLETED"
        BY <3>3, <1>1, <1>2, <1>6 DEF ProcOK
      <4> QED BY <4>1, <4>2
    <3> QED BY <3>1, <3>2, <3>3
  <2> HIDE DEF n
  <2>3. n \in DOMAIN runs BY <2>2, <1>2, <1>3 DEF NoRun
  <2>4. p.say # "ERROR" BY <1>6
  <2> QED BY <2>1, <2>2, <2>3, <2>4, <1>1, <1>6, ThreadReports
<1>7. CASE ThrGo(w, "failing") \/ Report(w, "FAILED", n)
  <2> HIDE DEF n
  <2>1. PICK x \in ThreadType(Len(runs)) :
          x.job = thread[w].job /\ thread' = [thread EXCEPT ![w] = x] /\ ThreadOK(w)'
    BY <1>1, <1>3, <1>4, <1>7, ThreadGoes
  <2> QED BY <2>1, <1>1, <1>4, WatchKeeps
<1>8. CASE ThrGo(w, "follow") /\ p.say = "RUNNING"
  <2> DEFINE x == [thread[w] EXCEPT !.at = "follow"]
  <2>1. x \in ThreadType(Len(runs)) /\ x.at = "follow" /\ x.job = j /\ x.gen = g
    BY <1>2 DEF ThreadType, Watching
  <2>2. thread' = [thread EXCEPT ![w] = x] BY <1>8 DEF ThrGo
  <2> HIDE DEF x
  <2>3. thread'[w] = x BY <1>2, <2>2
  <2> HIDE DEF n
  <2>4. ThreadOK(w)' BY <2>1, <2>3, <1>1, <1>2, <1>4, <1>8 DEF ThreadOK
  <2> QED BY <2>1, <2>2, <2>4, <1>1, <1>4, WatchKeeps
<1> HIDE DEF n
<1> QED BY <1>5, <1>6, <1>7, <1>8

\* The report of the thread ends the row with the authority of the attempt.  It
\* completes the job only where the child said that an analysis is completed.
LEMMA FinishJobSteps ==
  ASSUME IInv, NEW w \in Workers, thread[w].at # "idle",
         NEW s \in {"COMPLETED", "FAILED", "CANCELLED", "INTERRUPTED"}, NEW n \in 0 .. Len(runs),
         FinishJob(w, s, n), UNCHANGED <<bind, command>>,
         StopChild(w) \/ proc' = proc,
         s = "COMPLETED" =>
           /\ n # NoRun /\ runs[n].status = "COMPLETED"
           /\ thread[w].job \in Retries => rows[thread[w].job].status = "COMPLETED"
           /\ proc[thread[w].job][thread[w].gen].at = "said"
           /\ proc[thread[w].job][thread[w].gen].say # "ERROR"
  PROVE  /\ JobStep(thread[w].job)
         /\ rows' \in [Jobs -> Row] /\ result' \in [Jobs -> 0 .. Len(runs)] /\ runs' \in Seq(RunType)
         /\ proc' \in [Requests -> Seq(ProcType(Len(runs)))]
<1> PICK j, g : j = thread[w].job /\ g = thread[w].gen OBVIOUS
<1>1. /\ j \in Jobs /\ g = rows[j].gen /\ bind[j] \in BindType(Len(runs))
      /\ rows \in [Jobs -> Row] /\ result \in [Jobs -> 0 .. Len(runs)] /\ runs \in Seq(RunType)
      /\ Len(runs) \in Nat /\ DOMAIN runs = 1 .. Len(runs)
  BY ThreadFacts
<1>2. Stops(j) /\ proc' \in [Requests -> Seq(ProcType(Len(runs)))] BY StopsChild
<1>3. bind' = bind /\ command' = command OBVIOUS
<1>4. CASE ~Finishes(rows[j], w, g)
  <2>1. rows' = rows /\ runs' = runs /\ result' = result BY <1>4 DEF FinishJob
  <2>2. JobStep(j) BY <2>1, <1>2, <1>3 DEF JobStep, Stops
  <2> QED BY <2>1, <2>2, <1>1, <1>2
<1>5. CASE Finishes(rows[j], w, g)
  <2> PICK f : f = FinalStatus(rows[j], s) OBVIOUS
  <2> PICK m : m = IF n = NoRun /\ bind[j].owns /\ bind[j].gen = g THEN bind[j].run ELSE n OBVIOUS
  <2>1. /\ rows' = [rows EXCEPT ![j] = AfterFinish(rows[j], w, g, s)]
        /\ runs' = IF f = "COMPLETED" THEN runs ELSE Interrupted(j)
        /\ result' = [result EXCEPT ![j] = m]
    BY <1>5 DEF FinishJob
  <2>2. /\ f \in {"COMPLETED", "FAILED", "CANCELLED", "INTERRUPTED"}
        /\ f = "COMPLETED" => s = "COMPLETED"
    BY DEF FinalStatus
  <2>3. /\ AfterFinish(rows[j], w, g, s) \in Row /\ AfterFinish(rows[j], w, g, s).gen = rows[j].gen
        /\ AfterFinish(rows[j], w, g, s).status = f
    <3>1. AfterFinish(rows[j], w, g, s) = Released(rows[j], f) BY <1>5 DEF AfterFinish
    <3>2. rows[j] \in Row /\ f \in Status BY <1>1, <2>2 DEF Status, Terminal, ActiveStatus
    <3>3. Released(rows[j], f).gen = rows[j].gen /\ Released(rows[j], f).status = f BY DEF Released
    <3> QED BY <3>1, <3>2, <3>3, ReleasedRow
  <2>4. /\ rows' \in [Jobs -> Row] /\ rows'[j].gen = rows[j].gen /\ rows'[j].status = f
        /\ \A i \in Jobs : i # j => rows'[i] = rows[i]
    BY <2>1, <2>3, <1>1
  <2>5. m \in 0 .. Len(runs) /\ (n # NoRun => m = n) BY <1>1 DEF BindType
  <2>6. /\ result' \in [Jobs -> 0 .. Len(runs)] /\ result'[j] = m
        /\ \A i \in Jobs : i # j => result'[i] = result[i]
    BY <2>1, <2>5, <1>1
  <2>7. /\ runs' \in Seq(RunType) /\ Len(runs') = Len(runs) /\ DOMAIN runs' = DOMAIN runs
        /\ \A i \in DOMAIN runs :
             /\ runs'[i].by = runs[i].by /\ runs'[i].gen = runs[i].gen
             /\ \/ runs'[i].status = runs[i].status
                \/ runs[i].status = "RUNNING" /\ runs'[i].status = "INTERRUPTED"
             /\ runs[i].by = j => runs'[i].status # "RUNNING"
    <3>1. CASE f # "COMPLETED"
      <4>1. runs' = Interrupted(j) BY <2>1, <3>1
      <4> QED BY <4>1, <1>1, Interrupts
    <3>2. CASE f = "COMPLETED"
      <4>1. runs' = runs BY <2>1, <3>2
      <4>2. proc[j][g].at = "said" /\ proc[j][g].say # "ERROR" BY <2>2, <3>2
      <4>3. ASSUME NEW i \in DOMAIN runs, runs[i].by = j, runs[i].status = "RUNNING" PROVE FALSE
        <5>1. RunOK(i) BY DEF IInv, RunsInv
        <5> QED BY <5>1, <4>2, <4>3, <1>1 DEF RunOK, Working
      <4> QED BY <4>1, <4>3, <1>1
    <3> QED BY <3>1, <3>2
  <2>8. rows[j].status \notin Terminal BY <1>5 DEF Finishes
  <2>9. f = "COMPLETED" =>
          j \notin Retries /\ result'[j] \in DOMAIN runs /\ runs[result'[j]].status = "COMPLETED"
    BY <2>2, <2>5, <2>6, <2>8, <1>1 DEF Terminal, NoRun
  <2>10. JobStep(j)
    BY <2>2, <2>4, <2>6, <2>7, <2>8, <2>9, <1>2, <1>3 DEF JobStep, Stops, Terminal
  <2> QED BY <2>4, <2>6, <2>7, <2>10, <1>2
<1> QED BY <1>4, <1>5

LEMMA ReportJobKeeps ==
  ASSUME IInv, NEW w \in Workers, ReportJob(w)
  PROVE  IInv'
<1> PICK j, g : j = thread[w].job /\ g = thread[w].gen OBVIOUS
<1>1. /\ thread[w].at = "report" /\ thread[w].at # "idle"
      /\ FinishJob(w, thread[w].say, thread[w].run)
      /\ UNCHANGED <<bind, command, process>>
      /\ \/ StopChild(w) /\ thread' = [thread EXCEPT ![w] = IdleThread]
         \/ ThrGo(w, "failing") /\ proc' = proc
  BY DEF ReportJob, Thr
<1>2. ThreadOK(w) /\ thread[w] \in ThreadType(Len(runs)) /\ j \in Jobs /\ j \in Requests
  BY <1>1, ThreadFacts
<1>3. /\ thread[w].say \in {"COMPLETED", "FAILED", "CANCELLED", "INTERRUPTED"}
      /\ thread[w].run \in 0 .. Len(runs)
      /\ thread[w].say = "COMPLETED" =>
           /\ thread[w].run # NoRun /\ runs[thread[w].run].status = "COMPLETED"
           /\ j \in Retries => rows[j].status = "COMPLETED"
           /\ proc[j][g].at = "said" /\ proc[j][g].say # "ERROR"
  BY <1>1, <1>2 DEF ThreadOK, ThreadType
<1>4. /\ JobStep(j)
      /\ rows' \in [Jobs -> Row] /\ result' \in [Jobs -> 0 .. Len(runs)] /\ runs' \in Seq(RunType)
      /\ proc' \in [Requests -> Seq(ProcType(Len(runs)))]
  BY <1>1, <1>3, FinishJobSteps
<1>5. PICK x \in ThreadType(Len(runs)) :
        x.job \in {j, NoJob} /\ thread' = [thread EXCEPT ![w] = x] /\ ThreadOK(w)'
  <2>1. CASE thread' = [thread EXCEPT ![w] = IdleThread] BY <2>1, ThreadRests
  <2>2. CASE ThrGo(w, "failing")
    <3>1. rows'[j].gen = rows[j].gen /\ DOMAIN proc'[j] = DOMAIN proc[j]
      BY <1>2, <1>4 DEF JobStep
    <3>2. PICK x \in ThreadType(Len(runs)) :
            x.job = j /\ thread' = [thread EXCEPT ![w] = x] /\ ThreadOK(w)'
      BY <2>2, <3>1, <1>1, ThreadGoes
    <3> QED BY <3>2
  <2> QED BY <2>1, <2>2, <1>1
<1> QED BY <1>1, <1>4, <1>5, ThreadKeeps

LEMMA FailJobKeeps ==
  ASSUME IInv, NEW w \in Workers, FailJob(w)
  PROVE  IInv'
<1> PICK j, n : /\ j = thread[w].job
                /\ n = IF bind[j].gen = thread[w].gen THEN bind[j].run ELSE NoRun
  OBVIOUS
<1>1. /\ thread[w].at = "failing" /\ thread[w].at # "idle"
      /\ FinishJob(w, "FAILED", n) /\ UNCHANGED <<bind, command, process>>
      /\ StopChild(w) /\ thread' = [thread EXCEPT ![w] = IdleThread]
  BY DEF FailJob, Thr
<1>2. bind[j] \in BindType(Len(runs)) /\ Len(runs) \in Nat BY <1>1, ThreadFacts
<1>3. n \in 0 .. Len(runs) BY <1>2 DEF BindType, NoRun
<1>4. /\ JobStep(j)
      /\ rows' \in [Jobs -> Row] /\ result' \in [Jobs -> 0 .. Len(runs)] /\ runs' \in Seq(RunType)
      /\ proc' \in [Requests -> Seq(ProcType(Len(runs)))]
  BY <1>1, <1>3, FinishJobSteps
<1>5. IdleThread \in ThreadType(Len(runs)) /\ IdleThread.job = NoJob /\ ThreadOK(w)'
  BY <1>1, ThreadRests
<1> QED BY <1>1, <1>4, <1>5, ThreadKeeps

LEMMA ThreadStepKeeps ==
  ASSUME IInv, NEW w \in Workers, ThreadStep(w)
  PROVE  IInv'
BY SpawnKeeps, GiveUpKeeps, HearKeeps, FollowKeeps, ReportJobKeeps, FailJobKeeps DEF ThreadStep

------------------------------------------------------------------------------
(* The service.                                                             *)

LEMMA RestartKeeps ==
  ASSUME IInv, Restart
  PROVE  IInv'
<1>1. TypeOK /\ ProcsInv /\ BindsInv /\ AnswerIsShared /\ RetryAnswers BY DEF IInv
<1>2. /\ rows \in [Jobs -> Row] /\ result \in [Jobs -> 0 .. Len(runs)] /\ runs \in Seq(RunType)
      /\ bind \in [Jobs -> BindType(Len(runs))] /\ command \in [Retries -> CommandType(Len(runs))]
      /\ process \in [stopping : BOOLEAN, restarts : 0 .. MaxRestarts]
      /\ Len(runs) \in Nat /\ DOMAIN runs = 1 .. Len(runs)
      /\ \A n \in DOMAIN runs : runs[n] \in RunType
      /\ \A r \in Requests : /\ proc[r] \in Seq(ProcType(Len(runs)))
                             /\ Len(proc[r]) \in Nat /\ DOMAIN proc[r] = 1 .. Len(proc[r])
  BY <1>1, Types, Indices
<1>3. bind' = bind /\ result' = result BY DEF Restart
<1>4. /\ rows' \in [Jobs -> Row]
      /\ \A j \in Jobs : /\ rows'[j].gen = rows[j].gen
                         /\ rows'[j].status = "ABSENT" => rows[j].status = "ABSENT"
                         /\ rows'[j].status = "COMPLETED" <=> rows[j].status = "COMPLETED"
  <2>1. rows' = [j \in Jobs |-> Recovered(rows[j])] BY DEF Restart
  <2>2. \A j \in Jobs :
          /\ Recovered(rows[j]) \in Row /\ Recovered(rows[j]).gen = rows[j].gen
          /\ Recovered(rows[j]).status = IF rows[j].status = "RUNNING" THEN "INTERRUPTED"
                                         ELSE IF rows[j].status = "CANCEL_REQUESTED" THEN "CANCELLED"
                                         ELSE rows[j].status
    BY <1>2, RecoveredRow
  <2> QED BY <2>1, <2>2
<1>5. /\ runs' \in Seq(RunType) /\ Len(runs') = Len(runs) /\ DOMAIN runs' = DOMAIN runs
      /\ \A n \in DOMAIN runs :
           /\ runs'[n].by = runs[n].by /\ runs'[n].gen = runs[n].gen
           /\ runs[n].status # "RUNNING" => runs'[n].status = runs[n].status
           /\ runs[n].status = "RUNNING" => runs'[n].status = "INTERRUPTED"
  <2> DEFINE x(n) == [runs[n] EXCEPT !.status = IF @ = "RUNNING" THEN "INTERRUPTED" ELSE @]
  <2>1. \A n \in DOMAIN runs :
          /\ x(n) \in RunType /\ x(n).by = runs[n].by /\ x(n).gen = runs[n].gen
          /\ runs[n].status # "RUNNING" => x(n).status = runs[n].status
          /\ runs[n].status = "RUNNING" => x(n).status = "INTERRUPTED"
    BY <1>2 DEF RunType, RunStatus, RunEnded
  <2>2. runs' = [n \in 1 .. Len(runs) |-> x(n)] BY <1>2 DEF Restart, RecoveredRuns
  <2> HIDE DEF x
  <2>3. runs' \in Seq(RunType) /\ Len(runs') = Len(runs) /\ DOMAIN runs' = DOMAIN runs
    BY <2>1, <2>2, <1>2
  <2> QED BY <2>1, <2>2, <2>3, <1>2
<1>6. /\ command' \in [Retries -> CommandType(Len(runs))]
      /\ \A r \in Retries : /\ command'[r].run = command[r].run
                            /\ command[r].status # "NONE" => command'[r].status # "NONE"
                            /\ command[r].status = "COMPLETED" => command'[r].status = "COMPLETED"
  <2> DEFINE x(r) == [command[r] EXCEPT !.status =
                        IF @ \in {"RESERVED", "ANALYSIS_RESERVED"} THEN "FAILED_RETRYABLE" ELSE @]
  <2>1. \A r \in Retries :
          /\ x(r) \in CommandType(Len(runs)) /\ x(r).run = command[r].run
          /\ command[r].status # "NONE" => x(r).status # "NONE"
          /\ command[r].status = "COMPLETED" => x(r).status = "COMPLETED"
    BY <1>2 DEF CommandType, CommandStatus
  <2>2. command' = [r \in Retries |-> x(r)] BY DEF Restart
  <2> HIDE DEF x
  <2> QED BY <2>1, <2>2
<1>7. PICK orphans \in SUBSET Jobs :
        proc' = [r \in Requests |-> IF r \in orphans THEN proc[r] ELSE [g \in DOMAIN proc[r] |-> Dead]]
  BY DEF Restart, Dead
<1>8. Dead \in ProcType(Len(runs)) /\ Dead.at = "dead" /\ Dead.run = NoRun
  BY <1>2 DEF Dead, NewProc, ProcType, Place, NoRun
<1>9. ASSUME NEW r \in Requests
      PROVE  /\ proc'[r] \in Seq(ProcType(Len(runs)))
             /\ Len(proc'[r]) = Len(proc[r]) /\ DOMAIN proc'[r] = DOMAIN proc[r]
             /\ \A g \in DOMAIN proc[r] : \/ r \in Jobs /\ proc'[r][g] = proc[r][g]
                                          \/ proc'[r][g] = Dead
             /\ r \in Callers => \A g \in DOMAIN proc[r] : proc'[r][g] = Dead
  <2>1. CASE r \in orphans
    <3>1. proc'[r] = proc[r] /\ r \in Jobs /\ r \notin Callers BY <2>1, <1>7, RequestsAssumption
    <3> QED BY <3>1, <1>2
  <2>2. CASE r \notin orphans
    <3>1. proc'[r] = [g \in 1 .. Len(proc[r]) |-> Dead] BY <2>2, <1>2, <1>7
    <3>2. Len(proc[r]) \in Nat /\ DOMAIN proc[r] = 1 .. Len(proc[r]) BY <1>2
    <3> QED BY <3>1, <3>2, <1>8
  <2> QED BY <2>1, <2>2
<1>10. proc' \in [Requests -> Seq(ProcType(Len(runs)))]
  <2>1. proc' = [r \in Requests |-> proc'[r]] BY <1>7
  <2> HIDE DEF Requests
  <2> QED BY <2>1, <1>9
<1>11. \A w \in Workers : thread'[w] = IdleThread BY DEF Restart
<1>12. thread' \in [Workers -> ThreadType(Len(runs))] /\ IdleThread.at = "idle" /\ IdleThread.job = NoJob
  <2>1. thread' = [w \in Workers |-> IdleThread] BY DEF Restart
  <2>2. 0 \in 0 .. Len(runs) BY <1>2
  <2>3. IdleThread \in ThreadType(Len(runs)) BY <2>2 DEF IdleThread, ThreadType, Status, NoRun
  <2> QED BY <2>1, <2>3 DEF IdleThread
<1>13. process' \in [stopping : BOOLEAN, restarts : 0 .. MaxRestarts]
  BY <1>2, BoundsAssumption DEF Restart
<1>14. TypeOK' BY <1>2, <1>3, <1>4, <1>5, <1>6, <1>10, <1>12, <1>13, TypesNext
<1>15. Onward BY <1>4, <1>5, <1>6 DEF Onward
<1>16. ProcsInv'
  <2>1. ASSUME NEW r \in Requests, NEW g \in DOMAIN proc'[r] PROVE ProcOK(r, g)'
    <3>1. g \in DOMAIN proc[r] BY <1>9
    <3>2. CASE proc'[r][g] = Dead
      <4>1. proc'[r][g].at = "dead" /\ proc'[r][g].run = NoRun BY <3>2, <1>8
      <4> QED BY <4>1 DEF ProcOK, Early, Working, Holding
    <3>3. CASE proc'[r][g] = proc[r][g]
      <4>1. ProcOK(r, g) BY <3>1, <1>1 DEF ProcsInv
      <4>2. r \in Jobs /\ g = rows'[r].gen => g = rows[r].gen /\ bind'[r] = bind[r] BY <1>3, <1>4
      <4> QED BY <3>1, <3>3, <4>1, <4>2, <1>1, <1>15, ProcStays
    <3> QED BY <3>1, <3>2, <3>3, <1>9
  <2> QED BY <2>1 DEF ProcsInv
<1>17. RunsInv'
  <2>1. \A n \in DOMAIN runs' : runs'[n].status # "RUNNING" BY <1>5
  <2> QED BY <2>1 DEF RunsInv, RunOK
<1>18. BindsInv'
  <2>1. ASSUME NEW j \in Jobs PROVE BindOK(j)'
    <3>1. BindOK(j) /\ j \in Requests BY <1>1 DEF BindsInv, Requests
    <3>2. Len(proc'[j]) = Len(proc[j]) BY <3>1, <1>9
    <3>3. bind[j].run # NoRun => runs'[bind[j].run].by = runs[bind[j].run].by
      BY <1>2, <1>5 DEF BindType, NoRun
    <3>4. j \in Retries /\ command[j].run # NoRun => runs'[command[j].run].by = j
      BY <3>1, <1>2, <1>5 DEF CommandType, NoRun, BindOK
    <3> QED BY <3>1, <3>2, <3>3, <3>4, <1>3, <1>4, <1>6 DEF BindOK
  <2> QED BY <2>1 DEF BindsInv
<1>19. AnswerIsShared' /\ RetryAnswers'
  <2>1. \A n \in DOMAIN runs' : runs'[n].status = "COMPLETED" =>
          n \in DOMAIN runs /\ runs[n].status = "COMPLETED"
    BY <1>5
  <2> QED BY <2>1, <1>1, <1>3, <1>4, <1>6, <1>15, AnswersStay
<1>20. HeldInv'
  <2>1. ASSUME NEW c \in Callers, NEW g \in DOMAIN proc'[c] PROVE proc'[c][g].at = "dead"
    <3>1. c \in Requests BY DEF Requests
    <3> QED BY <3>1, <1>8, <1>9
  <2> QED BY <2>1 DEF HeldInv, CallHolds, Holding, Working
<1>21. ThreadsInv' BY <1>11, <1>12 DEF ThreadsInv, ThreadOK
<1> QED BY <1>14, <1>16, <1>17, <1>18, <1>19, <1>20, <1>21 DEF IInv

LEMMA NothingKeeps ==
  ASSUME IInv, UNCHANGED <<rows, result, runs, bind, command, proc, thread>>,
         process' \in [stopping : BOOLEAN, restarts : 0 .. MaxRestarts]
  PROVE  IInv'
<1>1. TypeOK' BY Types, TypesNext DEF IInv
<1>2. ProcsInv' /\ RunsInv' BY DEF IInv, ProcsInv, ProcOK, RunsInv, RunOK, BoundTo
<1>3. HeldInv' /\ BindsInv' BY DEF IInv, HeldInv, CallHolds, BindsInv, BindOK
<1>4. ThreadsInv' BY DEF IInv, ThreadsInv, ThreadOK
<1>5. AnswerIsShared' /\ RetryAnswers' BY DEF IInv, AnswerIsShared, RetryAnswers
<1> QED BY <1>1, <1>2, <1>3, <1>4, <1>5 DEF IInv

LEMMA StopKeeps ==
  ASSUME IInv, Stop
  PROVE  IInv'
<1>1. process \in [stopping : BOOLEAN, restarts : 0 .. MaxRestarts] BY Types DEF IInv
<1>2. process' \in [stopping : BOOLEAN, restarts : 0 .. MaxRestarts] BY <1>1 DEF Stop
<1> QED BY <1>2, NothingKeeps DEF Stop, tables

------------------------------------------------------------------------------
(* Theorems.                                                                *)

LEMMA StartsConsistent == Init => IInv
<1> SUFFICES ASSUME Init PROVE IInv
  OBVIOUS
<1>1. runs = <<>> /\ Len(runs) = 0 /\ DOMAIN runs = {} /\ runs \in Seq(RunType) BY DEF Init
<1>2. \A r \in Requests : proc[r] = <<>> /\ DOMAIN proc[r] = {} /\ Len(proc[r]) = 0 BY DEF Init
<1>3. TypeOK
  <2>1. rows \in [Jobs -> Row] BY NewRows DEF Init
  <2>2. result \in [Jobs -> 0 .. Len(runs)] /\ bind \in [Jobs -> BindType(Len(runs))]
        /\ command \in [Retries -> CommandType(Len(runs))]
    BY <1>1 DEF Init, NoRun, BindType, CommandType, CommandStatus
  <2>3. proc \in [Requests -> Seq(ProcType(Len(runs)))] BY DEF Init
  <2>4. thread \in [Workers -> ThreadType(Len(runs))]
    BY <1>1 DEF Init, IdleThread, ThreadType, Status, NoRun
  <2>5. process \in [stopping : BOOLEAN, restarts : 0 .. MaxRestarts] BY BoundsAssumption DEF Init
  <2> QED BY <2>1, <2>2, <2>3, <2>4, <2>5, <1>1, Types
<1>4. ProcsInv /\ HeldInv /\ RunsInv
  BY <1>1, <1>2 DEF ProcsInv, HeldInv, CallHolds, RunsInv, Requests
<1>5. BindsInv
  <2>1. \A j \in Jobs : j \in Requests /\ rows[j].status = "ABSENT" /\ rows[j].gen = 0
                        /\ bind[j].owns = FALSE /\ bind[j].run = NoRun
    BY DEF Init, AbsentRow, Requests
  <2>2. \A r \in Retries : command[r].run = NoRun BY DEF Init
  <2> QED BY <2>1, <2>2, <1>2 DEF BindsInv, BindOK
<1>6. ThreadsInv
  <2>1. \A w \in Workers : thread[w].at = "idle" /\ thread[w].job = NoJob BY DEF Init, IdleThread
  <2> QED BY <2>1 DEF ThreadsInv, ThreadOK
<1>7. AnswerIsShared /\ RetryAnswers
  <2>1. \A j \in Jobs : rows[j].status # "COMPLETED" BY DEF Init, AbsentRow
  <2> QED BY <2>1, <1>1 DEF AnswerIsShared, RetryAnswers
<1> QED BY <1>3, <1>4, <1>5, <1>6, <1>7 DEF IInv

LEMMA StepsConsistent == IInv /\ [Next]_vars => IInv'
<1> SUFFICES ASSUME IInv, [Next]_vars PROVE IInv'
  OBVIOUS
<1>1. ASSUME NEW j \in Jobs, Queue(j) \/ Cancel(j) \/ RunOut(j) \/ Reap(j) PROVE IInv'
  BY <1>1, QueueKeeps, CancelKeeps, RunOutKeeps, ReapKeeps
<1>2. ASSUME NEW c \in Callers, Call(c) PROVE IInv' BY <1>2, CallKeeps
<1>3. ASSUME NEW r \in Requests, NEW g \in DOMAIN proc[r], ProcStep(r, g) PROVE IInv'
  BY <1>3, ReserveKeeps, LookUpKeeps, BeginKeeps, RecordKeeps, UndoKeeps, ComputeKeeps, FinishKeeps,
     ConcludeKeeps DEF ProcStep
<1>4. ASSUME NEW w \in Workers, ThreadStep(w) \/ \E j \in Jobs : Claim(w, j) PROVE IInv'
  BY <1>4, ThreadStepKeeps, ClaimKeeps
<1>5. CASE Stop \/ Restart BY <1>5, StopKeeps, RestartKeeps
<1>6. CASE UNCHANGED vars
  <2>1. process \in [stopping : BOOLEAN, restarts : 0 .. MaxRestarts] BY Types DEF IInv
  <2> QED BY <2>1, <1>6, NothingKeeps DEF vars, tables
<1> QED BY <1>1, <1>2, <1>3, <1>4, <1>5, <1>6 DEF Next

LEMMA InvariantHolds == Spec => []IInv
BY StartsConsistent, StepsConsistent, PTL DEF Spec

\* However requests, threads, children that outlive a killed parent, leases and
\* restarts interleave, no analysis runs that nobody computes
\* (_interrupt_job_analysis, _recover_runtime_owned).
THEOREM AnalysesAreConsistent == Spec => []Consistent
<1>1. IInv => Consistent
  <2> SUFFICES ASSUME IInv, NEW n \in DOMAIN runs, runs[n].status = "RUNNING"
               PROVE  LET r == runs[n].by IN
                      IF r \in Jobs THEN rows[r].status = "RUNNING" /\ rows[r].gen = runs[n].gen
                      ELSE proc[r][runs[n].gen].at \notin {"said", "dead"}
    BY DEF Consistent, RunningHasOwner, IInv
  <2>1. RunOK(n) BY DEF IInv, RunsInv
  <2>2. runs[n] \in RunType BY Indices DEF IInv
  <2>3. runs[n].by \in Requests BY <2>2 DEF RunType
  <2> QED BY <2>1, <2>3 DEF RunOK, Requests, Working
<1> QED BY <1>1, InvariantHolds, PTL

\* A completed job names a completed analysis, whoever computed it and under
\* whatever key it was asked for, and so does the command of a retry job
\* (finish_decision_analysis_run, finish_runtime_job).
THEOREM AnswersAlwaysAgree == Spec => []AnswersAgree
<1>1. IInv => AnswersAgree BY DEF IInv, AnswersAgree
<1> QED BY <1>1, InvariantHolds, PTL

------------------------------------------------------------------------------
(* Who interrupts an analysis.                                              *)

\* A running analysis that the row of j interrupts is computed for j.
LEMMA InterruptsItsOwn ==
  ASSUME IInv, NEW j \in Jobs, runs' = Interrupted(j), NEW n \in DOMAIN runs,
         runs[n].status = "RUNNING", runs'[n].status = "INTERRUPTED"
  PROVE  runs[n].by = j /\ rows[j].status = "RUNNING"
<1>1. RunOK(n) /\ BindOK(j) BY DEF IInv, RunsInv, BindsInv
<1>2. bind[j].owns /\ bind[j].run = n BY DEF Interrupted
<1>3. runs[n].by = j BY <1>1, <1>2 DEF BindOK
<1> QED BY <1>1, <1>3 DEF RunOK

\* A step that interrupts the running analysis n takes the row of its job along,
\* or is a restart.
ItsOwner(n) == process' # process \/ (runs[n].by \in Jobs /\ rows'[runs[n].by] # rows[runs[n].by])

LEMMA RowsInterrupt ==
  ASSUME IInv, NEW j \in Jobs, Queue(j) \/ Cancel(j) \/ RunOut(j) \/ Reap(j) \/ \E w \in Workers : Claim(w, j),
         NEW n \in DOMAIN runs, runs[n].status = "RUNNING", runs'[n].status = "INTERRUPTED"
  PROVE  ItsOwner(n)
<1>1. rows \in [Jobs -> Row] /\ rows[j] \in Row BY Types DEF IInv
<1>2. CASE Queue(j) \/ RunOut(j) BY <1>2 DEF Queue, RunOut
<1>3. CASE Cancel(j)
  <2>1. runs' = Interrupted(j) /\ rows' = [rows EXCEPT ![j] = Cancelled(rows[j])] BY <1>3 DEF Cancel
  <2>2. Cancelled(rows[j]).status \in {"CANCEL_REQUESTED", "CANCELLED"} BY <1>1, OwnerKept
  <2>3. runs[n].by = j /\ rows[j].status = "RUNNING" BY <2>1, InterruptsItsOwn
  <2> QED BY <1>1, <2>1, <2>2, <2>3 DEF ItsOwner
<1>4. CASE Reap(j)
  <2>1. runs' = Interrupted(j) /\ rows' = [rows EXCEPT ![j] = Reaped(rows[j])] /\ Expired(rows[j])
    BY <1>4 DEF Reap
  <2>2. runs[n].by = j /\ rows[j].status = "RUNNING" BY <2>1, InterruptsItsOwn
  <2>3. Reaped(rows[j]).status # "RUNNING" BY <2>1 DEF Reaped, Released, ReapedStatus
  <2> QED BY <1>1, <2>1, <2>2, <2>3 DEF ItsOwner
<1>5. ASSUME NEW w \in Workers, Claim(w, j) PROVE FALSE
  <2>1. runs' = Interrupted(j) /\ rows[j].status \in {"QUEUED", "INTERRUPTED"} BY <1>5 DEF Claim
  <2> QED BY <2>1, InterruptsItsOwn
<1> QED BY <1>2, <1>3, <1>4, <1>5

LEMMA ThreadsInterrupt ==
  ASSUME IInv, NEW w \in Workers, ThreadStep(w),
         NEW n \in DOMAIN runs, runs[n].status = "RUNNING", runs'[n].status = "INTERRUPTED"
  PROVE  ItsOwner(n)
<1>1. runs' # runs OBVIOUS
<1>2. PICK s, i : FinishJob(w, s, i) /\ thread[w].at # "idle"
  <2>1. ~(Spawn(w) \/ SeeRow(w) \/ Hear(w) \/ Follow(w) \/ GiveUp(w))
    BY <1>1 DEF Spawn, SeeRow, Hear, Follow, GiveUp, tables
  <2>2. ReportJob(w) \/ FailJob(w) BY <2>1 DEF ThreadStep
  <2> QED BY <2>2 DEF ReportJob, FailJob, Thr
<1> PICK j : j = thread[w].job OBVIOUS
<1>3. j \in Jobs /\ rows \in [Jobs -> Row] BY <1>2, ThreadFacts
<1>4. /\ Finishes(rows[j], w, thread[w].gen)
      /\ rows' = [rows EXCEPT ![j] = AfterFinish(rows[j], w, thread[w].gen, s)]
      /\ runs' = Interrupted(j)
  BY <1>1, <1>2 DEF FinishJob
<1>5. runs[n].by = j /\ rows[j].status = "RUNNING" BY <1>3, <1>4, InterruptsItsOwn
<1>6. AfterFinish(rows[j], w, thread[w].gen, s).owner = NoWorker
  BY <1>4 DEF AfterFinish, Released
<1>7. rows[j].owner # NoWorker
  BY <1>4, WorkersAssumption DEF Finishes, HoldsLease
<1> QED BY <1>3, <1>4, <1>5, <1>6, <1>7 DEF ItsOwner

LEMMA AttemptsEnd ==
  ASSUME IInv, NEW r \in Requests, NEW g \in DOMAIN proc[r], ProcStep(r, g),
         NEW n \in DOMAIN runs, runs[n].status = "RUNNING"
  PROVE  runs'[n].status # "INTERRUPTED"
<1>1. /\ ProcOK(r, g) /\ runs \in Seq(RunType) /\ Len(runs) \in Nat /\ DOMAIN runs = 1 .. Len(runs)
  BY Facts, Types
<1>2. CASE runs' = runs BY <1>2
<1>3. CASE \E next : CreateRun(r, g, next)
  <2> DEFINE x == [status |-> "RUNNING", by |-> r, gen |-> g]
  <2>1. runs' = Append(runs, x) BY <1>3 DEF CreateRun
  <2>2. x \in RunType
    <3>1. g \in Nat BY Indices DEF IInv
    <3> QED BY <3>1 DEF RunType, RunStatus
  <2> HIDE DEF x
  <2>3. \A i \in 1 .. Len(runs) : runs'[i] = runs[i] BY <2>1, <2>2, <1>1, AppendProperties
  <2> QED BY <2>3, <1>1
<1>4. CASE Finish(r, g)
  <2>1. proc[r][g].say \in {"COMPLETED", "FAILED"} BY <1>1, <1>4 DEF Finish, At, ProcOK
  <2>2. CASE \E s \in {"COMPLETED", "FAILED"} : runs' = [runs EXCEPT ![proc[r][g].run].status = s]
    <3>1. runs[n] \in RunType BY Indices DEF IInv
    <3> QED BY <3>1, <2>2, <1>1 DEF RunType
  <2> QED BY <2>1, <2>2, <1>2, <1>4 DEF Finish, FinishAs
<1>5. runs' = runs \/ (\E next : CreateRun(r, g, next)) \/ Finish(r, g)
  BY DEF ProcStep, Reserve, ReserveNew, Reuse, LookUp, Begin, Record, Undo, Compute, Conclude, tables
<1> QED BY <1>2, <1>3, <1>4, <1>5

\* A follower that is cancelled, fails or loses its lease leaves the analysis to
\* its owner: what interrupts a running analysis is the end of the job attempt
\* that computes it, or a restart (_interrupt_job_analysis,
\* _recover_runtime_owned).
THEOREM OnlyOwnersInterrupt == Spec => OnlyOwnerInterrupts
<1>1. ASSUME IInv, Next, NEW n \in DOMAIN runs, runs[n].status = "RUNNING", runs'[n].status = "INTERRUPTED"
      PROVE  ItsOwner(n)
  <2>1. ASSUME NEW j \in Jobs, Queue(j) \/ Cancel(j) \/ RunOut(j) \/ Reap(j) PROVE ItsOwner(n)
    BY <1>1, <2>1, RowsInterrupt
  <2>2. ASSUME NEW c \in Callers, Call(c) PROVE FALSE BY <1>1, <2>2 DEF Call
  <2>3. ASSUME NEW r \in Requests, NEW g \in DOMAIN proc[r], ProcStep(r, g) PROVE FALSE
    BY <1>1, <2>3, AttemptsEnd
  <2>4. ASSUME NEW w \in Workers, ThreadStep(w) PROVE ItsOwner(n) BY <1>1, <2>4, ThreadsInterrupt
  <2>5. ASSUME NEW w \in Workers, NEW j \in Jobs, Claim(w, j) PROVE ItsOwner(n)
    BY <1>1, <2>5, RowsInterrupt
  <2>6. ~Stop BY <1>1 DEF Stop, tables
  <2>7. CASE Restart
    <3>1. process.restarts \in 0 .. MaxRestarts BY <1>1, Types DEF IInv
    <3>2. process'.restarts = process.restarts + 1 BY <2>7 DEF Restart
    <3>3. process'.restarts # process.restarts BY <3>1, <3>2, BoundsAssumption
    <3>4. process' # process BY <3>3
    <3> QED BY <3>4 DEF ItsOwner
  <2> QED BY <1>1, <2>1, <2>2, <2>3, <2>4, <2>5, <2>6, <2>7 DEF Next
<1>2. IInv /\ [Next]_vars =>
        [\A n \in DOMAIN runs : runs[n].status = "RUNNING" /\ runs'[n].status = "INTERRUPTED" =>
           \/ process' # process
           \/ runs[n].by \in Jobs /\ rows'[runs[n].by] # rows[runs[n].by]]_vars
  BY <1>1 DEF ItsOwner
<1> QED BY <1>2, InvariantHolds, PTL DEF Spec, OnlyOwnerInterrupts

------------------------------------------------------------------------------
(* RiskComparison: the inductive invariant.                                 *)

AnalysisType == [status : AnalysisStatus, by : Threads \cup {Others}]

IsCompleted(s, n) == n \in DOMAIN analyses[PlanOf(s)] /\ analyses[PlanOf(s)][n].status = "COMPLETED"

\* What a thread has read and what it computes.  Completed analyses stay
\* completed, so what was read as completed still is.
CallInv(c) ==
  LET now == Now(c) IN
    /\ \A s \in Sides : now.saw[s] = "COMPLETED" => IsCompleted(s, now.run[s])
    /\ now.side = "before" => now.saw["after"] = "NONE"
    /\ now.at \in {"lookup", "reserve", "start", "compute", "failed"} => now.saw[now.side] = "NONE"
    /\ now.at \in {"lookup", "reserve"} => now.side = "before"
    /\ now.at = "compute" =>
         /\ now.run[now.side] \in DOMAIN analyses[PlanOf(now.side)]
         /\ analyses[PlanOf(now.side)][now.run[now.side]] = [status |-> "RUNNING", by |-> c]
    /\ now.at = "saved" =>
         /\ Ready(c) /\ now.got \in DOMAIN saved
         /\ saved[now.got].run = now.run \/ saved[now.got].key = Key(c)

\* Comparisons of completed analyses, one per key and one per content.
SavedInv ==
  /\ \A n \in DOMAIN saved : \A s \in Sides : IsCompleted(s, saved[n].run[s])
  /\ \A n, m \in DOMAIN saved : saved[n].key = saved[m].key \/ saved[n].run = saved[m].run => n = m

SagaInv ==
  \A k \in Keys : sagas[k].status = "COMPARISON_COMPLETED" => sagas[k].comparison \in answers[k]

MetInv ==
  \A c, d \in Threads : ~CallAt(c, "idle") /\ ~CallAt(d, "idle") /\ Key(c) = Key(d) /\ c # d => Key(c) \in met

\* A key of which no two calls were under way together was answered with its own
\* comparison, or with the one its saga was completed with, made under another
\* key of the very analyses the saga still names.
Answered(k, n) ==
  \/ n \in SavedFor(k)
  \/ /\ SavedFor(k) = {} /\ sagas[k].status = "COMPARISON_COMPLETED"
     /\ sagas[k].comparison = n /\ saved[n].run = sagas[k].run

\* Once such a key was answered with a foreign comparison, its next call is on
\* the way to the same one.
OnTheWay(c) ==
  LET now == Now(c) IN
    /\ now.at = "saved" /\ saved[now.got].key # Key(c) => SavedFor(Key(c)) = {}
    /\ answers[Key(c)] # {} /\ SavedFor(Key(c)) = {} =>
         \/ now.at \in {"lookup", "reserve"}
         \/ /\ now.at \in {"start", "save", "broken", "saved"}
            /\ now.run = sagas[Key(c)].run
            /\ now.at = "saved" => now.got = sagas[Key(c)].comparison

OneInv ==
  /\ \A k \in Keys \ met : \A n \in answers[k] : Answered(k, n)
  /\ \A c \in Threads : ~CallAt(c, "idle") /\ Key(c) \notin met => OnTheWay(c)

CompareInv ==
  /\ CompareTypeOK
  /\ \A c \in Threads : CallInv(c)
  /\ SavedInv /\ SagaInv /\ MetInv /\ OneInv

------------------------------------------------------------------------------
(* What a step leaves alone.                                                *)

\* Analyses are added, and a completed one stays completed.
Grown(a, b) ==
  \A p \in Plans :
    /\ Len(a[p]) <= Len(b[p])
    /\ \A n \in DOMAIN a[p] :
         n \in DOMAIN b[p] /\ (a[p][n].status = "COMPLETED" => b[p][n].status = "COMPLETED")

\* What somebody else computes is left to them.
Untouched(c, a, b) ==
  \A p \in Plans : \A n \in DOMAIN a[p] : a[p][n].by \in Threads \ {c} => b[p][n] = a[p][n]

LEMMA SeqOfMore ==
  ASSUME NEW A, NEW B, A \subseteq B, NEW q \in Seq(A)
  PROVE  q \in Seq(B)
<1>1. Len(q) \in Nat /\ q \in [1 .. Len(q) -> A] BY LenProperties
<1>2. q \in [1 .. Len(q) -> B] BY <1>1
<1> QED BY <1>1, <1>2, SeqDef

LEMMA PlanOfSide == \A s \in Sides : PlanOf(s) \in Plans
BY DEF PlanOf, Sides, Plans

\* Types of later states include those of earlier ones.
LEMMA TypesGrow ==
  ASSUME CompareTypeOK, Grown(analyses, analyses'), Len(saved) <= Len(saved')
  PROVE  RunsOfSides \subseteq RunsOfSides' /\ Doing \subseteq Doing'
<1>1. ASSUME NEW r \in RunsOfSides PROVE r \in RunsOfSides'
  <2>1. \A s \in Sides : r[s] <= Len(analyses'[PlanOf(s)])
    <3> SUFFICES ASSUME NEW s \in Sides PROVE r[s] <= Len(analyses'[PlanOf(s)])
      OBVIOUS
    <3>1. r[s] \in Nat /\ r[s] <= Len(analyses[PlanOf(s)]) BY DEF RunsOfSides
    <3>2. Len(analyses[PlanOf(s)]) <= Len(analyses'[PlanOf(s)]) BY PlanOfSide DEF Grown
    <3> QED BY <3>1, <3>2, PlanOfSide DEF CompareTypeOK
  <2> QED BY <2>1 DEF RunsOfSides, PlanOf
<1>2. 0 .. Len(saved) \subseteq 0 .. Len(saved') BY DEF CompareTypeOK
<1> QED BY <1>1, <1>2 DEF Doing

\* A completed analysis is there for good.
LEMMA StaysCompleted ==
  ASSUME Grown(analyses, analyses'), NEW s \in Sides, NEW n, IsCompleted(s, n)
  PROVE  IsCompleted(s, n)'
BY PlanOfSide DEF Grown, IsCompleted, PlanOf

\* The calls that do not take the step.
LEMMA OtherCalls ==
  ASSUME CompareTypeOK, NEW c, NEW d \in Threads, CallInv(d),
         call'[d] = call[d], d # c, Grown(analyses, analyses'), Untouched(c, analyses, analyses'),
         \A n \in DOMAIN saved : n \in DOMAIN saved' /\ saved'[n] = saved[n]
  PROVE  CallInv(d)'
<1>1. Now(d)' = Now(d) /\ Key(d)' = Key(d) BY DEF Now, Key
<1>2. Now(d).side \in Sides BY DEF CompareTypeOK, Doing, Now
<1>3. ASSUME NEW s \in Sides, Now(d).saw[s] = "COMPLETED"
      PROVE  IsCompleted(s, Now(d).run[s])'
  <2>1. IsCompleted(s, Now(d).run[s]) BY <1>3 DEF CallInv
  <2>2. (Now(d).run[s])' = Now(d).run[s] BY <1>1
  <2> DEFINE n == Now(d).run[s]
  <2>3. n \in DOMAIN analyses'[PlanOf(s)] /\ analyses'[PlanOf(s)][n].status = "COMPLETED"
    BY <2>1, PlanOfSide DEF Grown, IsCompleted
  <2> QED BY <2>2, <2>3 DEF IsCompleted, PlanOf
<1>4. Now(d).at = "compute" =>
         /\ Now(d).run[Now(d).side] \in DOMAIN analyses'[PlanOf(Now(d).side)]
         /\ analyses'[PlanOf(Now(d).side)][Now(d).run[Now(d).side]] = [status |-> "RUNNING", by |-> d]
  BY <1>2, PlanOfSide DEF CallInv, Grown, Untouched
<1>5. Now(d).at = "saved" =>
         /\ Ready(d)' /\ Now(d).got \in DOMAIN saved'
         /\ saved'[Now(d).got].run = Now(d).run \/ saved'[Now(d).got].key = Key(d)
  BY <1>1 DEF CallInv, Ready
<1> QED BY <1>1, <1>3, <1>4, <1>5 DEF CallInv, IsCompleted, PlanOf

\* What becomes of a call when its thread takes a step.
LEMMA OneCallMoves ==
  ASSUME CompareTypeOK, NEW c \in Threads, NEW now, Becomes(c, now)
  PROVE  /\ Now(c)' = now /\ Key(c)' = Key(c)
         /\ \A d \in Threads \ {c} : call'[d] = call[d] /\ Now(d)' = Now(d) /\ Key(d)' = Key(d)
         /\ now \in Doing' /\ Doing \subseteq Doing' => call' \in [Threads -> [key : Keys, now : Doing']]
BY DEF CompareTypeOK, Becomes, Now, Key

\* Without a new comparison those there are stand.
LEMMA SavedStands ==
  ASSUME SavedInv, Grown(analyses, analyses'), saved' = saved
  PROVE  SavedInv'
BY StaysCompleted DEF SavedInv

LEMMA SameRuns == ASSUME CompareTypeOK, NEW c, analyses' = analyses PROVE Grown(analyses, analyses') /\ Untouched(c, analyses, analyses')
BY DEF CompareTypeOK, Grown, Untouched

\* What a call has read as completed still is.
LEMMA ReadStands ==
  ASSUME NEW c, NEW now, Now(c)' = now, Grown(analyses, analyses'),
         \A s \in Sides : now.saw[s] = "COMPLETED" => IsCompleted(s, now.run[s])
  PROVE  (\A s \in Sides : Now(c).saw[s] = "COMPLETED" => IsCompleted(s, Now(c).run[s]))'
<1> SUFFICES ASSUME NEW s \in Sides, now.saw[s] = "COMPLETED" PROVE IsCompleted(s, Now(c).run[s])'
  BY DEF Sides
<1>1. IsCompleted(s, now.run[s]) OBVIOUS
<1> DEFINE n == now.run[s]
<1>2. n \in DOMAIN analyses'[PlanOf(s)] /\ analyses'[PlanOf(s)][n].status = "COMPLETED"
  BY <1>1, PlanOfSide DEF Grown, IsCompleted
<1>3. (Now(c).run[s])' = n OBVIOUS
<1> QED BY <1>2, <1>3 DEF IsCompleted, PlanOf

LEMMA CompareInvStarts == CompareInit => CompareInv
<1> SUFFICES ASSUME CompareInit PROVE CompareInv
  OBVIOUS
<1>1. analyses \in [Plans -> Seq(AnalysisType)]
  <2>1. Made \subseteq Seq(AnalysisType)
    <3> SUFFICES ASSUME NEW past \in Made PROVE past \in Seq(AnalysisType)
      OBVIOUS
    <3>1. past \in Seq([status : AnalysisStatus, by : {Others}]) BY MadeAssumption
    <3>2. [status : AnalysisStatus, by : {Others}] \subseteq AnalysisType BY DEF AnalysisType
    <3> QED BY <3>1, <3>2, SeqOfMore
  <2> QED BY <2>1 DEF CompareInit
<1>2. NoAnalyses \in RunsOfSides
  <2>1. \A s \in Sides : Len(analyses[PlanOf(s)]) \in Nat BY <1>1, PlanOfSide
  <2> QED BY <2>1 DEF NoAnalyses, NoAnalysis, RunsOfSides
<1>3. <<>> \in Seq([key : Keys, run : RunsOfSides]) /\ DOMAIN <<>> = {} /\ Len(<<>>) = 0
  BY EmptySeq
<1>4. Idle \in Doing BY <1>2, <1>3 DEF CompareInit, Idle, Doing, CallPlace, Sides
<1>5. (CHOOSE k \in Keys : TRUE) \in Keys BY KeysAssumption
<1>6. NoSaga \in SagaRow
  BY <1>2, <1>3 DEF CompareInit, NoSaga, SagaRow, SagaStatus
<1>7. count \in [calls : 0 .. MaxAsked, restarts : 0 .. MaxServiceRestarts]
  BY ComparisonBounds DEF CompareInit
<1>8. CompareTypeOK BY <1>1, <1>3, <1>4, <1>5, <1>6, <1>7 DEF CompareInit, CompareTypeOK, AnalysisType
<1>9. \A c \in Threads : Now(c) = Idle BY DEF CompareInit, Now
<1>10. \A c \in Threads : CallInv(c) BY <1>9 DEF CallInv, Idle, Sides
<1>11. SavedInv BY <1>3 DEF CompareInit, SavedInv
<1>12. SagaInv BY DEF CompareInit, SagaInv, NoSaga
<1>13. MetInv /\ OneInv BY <1>9 DEF MetInv, OneInv, CallAt, Idle, CompareInit
<1> QED BY <1>8, <1>10, <1>11, <1>12, <1>13 DEF CompareInv

------------------------------------------------------------------------------
(* Calls and keys.                                                          *)

LEMMA NoAnalysesTyped == ASSUME CompareTypeOK PROVE NoAnalyses \in RunsOfSides /\ Idle \in Doing
<1>1. \A s \in Sides : Len(analyses[PlanOf(s)]) \in Nat BY PlanOfSide DEF CompareTypeOK
<1>2. NoAnalyses \in RunsOfSides BY <1>1 DEF NoAnalyses, NoAnalysis, RunsOfSides
<1>3. 0 \in 0 .. Len(saved) BY DEF CompareTypeOK
<1> QED BY <1>2, <1>3 DEF Idle, Doing, CallPlace, Sides

LEMMA IdleCall ==
  ASSUME NEW c, Now(c)' = Idle
  PROVE  CallInv(c)'
BY DEF CallInv, Idle, Sides

\* A key without calls together that was answered with a foreign comparison:
\* the saga names it and its analyses.
LEMMA Settled ==
  ASSUME CompareInv, NEW k \in Keys \ met, answers[k] # {}, SavedFor(k) = {}
  PROVE  /\ sagas[k].status = "COMPARISON_COMPLETED" /\ sagas[k].comparison \in DOMAIN saved
         /\ saved[sagas[k].comparison].run = sagas[k].run
         /\ \A s \in Sides : IsCompleted(s, sagas[k].run[s])
<1>1. PICK n \in answers[k] : TRUE OBVIOUS
<1>2. Answered(k, n) BY <1>1 DEF CompareInv, OneInv
<1>3. n \in DOMAIN saved BY <1>1 DEF CompareInv, CompareTypeOK
<1>4. /\ sagas[k].status = "COMPARISON_COMPLETED" /\ sagas[k].comparison = n
      /\ saved[n].run = sagas[k].run
  BY <1>2 DEF Answered
<1> QED BY <1>3, <1>4 DEF CompareInv, SavedInv

\* What a step of c has to show: the rest of the invariant follows, as other
\* calls of its key are under way only if the key is in `met'.
LEMMA StepKeeps ==
  ASSUME CompareInv, NEW c \in Threads, ~CallAt(c, "idle"), NEW now, Becomes(c, now),
         analyses' \in [Plans -> Seq(AnalysisType)], Grown(analyses, analyses'), Untouched(c, analyses, analyses'),
         saved' = saved, met' = met, count' = count, now \in Doing', CallInv(c)',
         \E saga \in SagaRow' : sagas' = [sagas EXCEPT ![Key(c)] = saga],
         \E told \in SUBSET DOMAIN saved : answers' = [answers EXCEPT ![Key(c)] = told],
         sagas'[Key(c)].status = "COMPARISON_COMPLETED"
           => sagas'[Key(c)].comparison \in answers'[Key(c)],
         Key(c) \notin met => /\ \A n \in answers'[Key(c)] : Answered(Key(c), n)'
                              /\ now.at # "idle" => OnTheWay(c)'
  PROVE  CompareInv'
<1> DEFINE k == Key(c)
<1>1. CompareTypeOK /\ SavedInv /\ SagaInv /\ MetInv /\ OneInv /\ \A d \in Threads : CallInv(d)
  BY DEF CompareInv
<1>2. k \in Keys BY <1>1 DEF CompareTypeOK, Key
<1>3. RunsOfSides \subseteq RunsOfSides' /\ Doing \subseteq Doing'
  <2>1. Len(saved) <= Len(saved') BY <1>1 DEF CompareTypeOK
  <2> QED BY <1>1, <2>1, TypesGrow
<1>4. /\ Now(c)' = now /\ Key(c)' = k
      /\ \A d \in Threads \ {c} : call'[d] = call[d] /\ Now(d)' = Now(d) /\ Key(d)' = Key(d)
      /\ call' \in [Threads -> [key : Keys, now : Doing']]
  BY <1>1, <1>3, OneCallMoves
<1>5. /\ sagas'[k] \in SagaRow' /\ answers'[k] \in SUBSET DOMAIN saved
      /\ \A l \in Keys \ {k} : sagas'[l] = sagas[l] /\ answers'[l] = answers[l]
  BY <1>1, <1>2 DEF CompareTypeOK
<1>6. CompareTypeOK'
  <2>1. [key : Keys, run : RunsOfSides] \subseteq [key : Keys, run : RunsOfSides'] BY <1>3
  <2>2. saved' \in Seq([key : Keys, run : RunsOfSides']) BY <2>1, <1>1, SeqOfMore DEF CompareTypeOK
  <2>3. sagas' \in [Keys -> SagaRow']
    <3>1. SagaRow \subseteq SagaRow' BY <1>3 DEF SagaRow
    <3> QED BY <1>1, <3>1 DEF CompareTypeOK
  <2>4. answers' \in [Keys -> SUBSET DOMAIN saved] BY <1>1 DEF CompareTypeOK
  <2> QED BY <1>1, <1>4, <2>2, <2>3, <2>4 DEF CompareTypeOK, AnalysisType
<1>7. \A d \in Threads : CallInv(d)'
  <2>1. ASSUME NEW d \in Threads, d # c PROVE CallInv(d)'
    BY <1>1, <1>4, <2>1, OtherCalls
  <2> QED BY <2>1
<1>8. SavedInv' BY <1>1, SavedStands
<1>9. SagaInv' BY <1>1, <1>2, <1>5 DEF SagaInv
<1>10. \A d \in Threads : ~CallAt(d, "idle")' => ~CallAt(d, "idle") /\ Key(d)' = Key(d)
  BY <1>4 DEF CallAt
<1>11. MetInv' BY <1>1, <1>10 DEF MetInv
<1>12. ASSUME NEW l \in Keys \ met, NEW n \in answers'[l] PROVE Answered(l, n)'
  <2>1. CASE l = k
    <3>1. n \in answers'[Key(c)] /\ Key(c) \notin met BY <2>1, <1>5, <1>12
    <3>2. Answered(Key(c), n)' BY <3>1
    <3> QED BY <2>1, <3>2, <1>4
  <2>2. CASE l # k
    <3>1. Answered(l, n) BY <2>2, <1>1, <1>5, <1>12 DEF OneInv
    <3> QED BY <2>2, <3>1, <1>5 DEF Answered, SavedFor
  <2> QED BY <2>1, <2>2
<1>13. ASSUME NEW d \in Threads, ~CallAt(d, "idle")', Key(d)' \notin met PROVE OnTheWay(d)'
  <2>1. CASE d = c BY <2>1, <1>4, <1>13 DEF CallAt
  <2>2. CASE d # c
    <3>1. ~CallAt(d, "idle") /\ Key(d)' = Key(d) BY <1>10, <1>13
    <3>2. Key(d) # k BY <2>2, <3>1, <1>1, <1>13 DEF MetInv
    <3>3. OnTheWay(d) BY <3>1, <1>1, <1>13 DEF OneInv
    <3>4. Key(d) \in Keys BY <1>1 DEF CompareTypeOK, Key
    <3>5. Now(d)' = Now(d) BY <2>2, <1>4
    <3>6. sagas'[Key(d)] = sagas[Key(d)] /\ answers'[Key(d)] = answers[Key(d)] BY <3>2, <3>4, <1>5
    <3>7. SavedFor(Key(d))' = SavedFor(Key(d)) BY <3>1 DEF SavedFor
    <3> QED BY <3>1, <3>3, <3>5, <3>6, <3>7 DEF OnTheWay
  <2> QED BY <2>1, <2>2
<1>14. OneInv' BY <1>12, <1>13 DEF OneInv
<1> QED BY <1>6, <1>7, <1>8, <1>9, <1>11, <1>14 DEF CompareInv

------------------------------------------------------------------------------
(* The steps.                                                               *)

LEMMA CallTyped ==
  ASSUME CompareTypeOK, NEW c \in Threads
  PROVE  /\ Key(c) \in Keys /\ Now(c) \in Doing
         /\ Now(c).side \in Sides /\ Now(c).run \in RunsOfSides
         /\ Now(c).saw \in [Sides -> AnalysisStatus \cup {"NONE"}] /\ Now(c).got \in 0 .. Len(saved)
         /\ \A s \in Sides : /\ Now(c).run[s] \in 0 .. Len(analyses[PlanOf(s)])
                             /\ analyses[PlanOf(s)] \in Seq(AnalysisType)
                             /\ DOMAIN analyses[PlanOf(s)] = 1 .. Len(analyses[PlanOf(s)])
         /\ sagas[Key(c)] \in SagaRow
         /\ sagas = [sagas EXCEPT ![Key(c)] = sagas[Key(c)]]
         /\ answers[Key(c)] \in SUBSET DOMAIN saved
         /\ answers = [answers EXCEPT ![Key(c)] = answers[Key(c)]]
         /\ analyses \in [Plans -> Seq(AnalysisType)]
<1>1. Key(c) \in Keys /\ Now(c) \in Doing BY DEF CompareTypeOK, Key, Now
<1>2. /\ Now(c).side \in Sides /\ Now(c).run \in RunsOfSides
      /\ Now(c).saw \in [Sides -> AnalysisStatus \cup {"NONE"}] /\ Now(c).got \in 0 .. Len(saved)
  BY <1>1 DEF Doing
<1>3. analyses \in [Plans -> Seq(AnalysisType)] BY DEF CompareTypeOK, AnalysisType
<1>4. \A s \in Sides : /\ Now(c).run[s] \in 0 .. Len(analyses[PlanOf(s)])
                       /\ analyses[PlanOf(s)] \in Seq(AnalysisType)
                       /\ DOMAIN analyses[PlanOf(s)] = 1 .. Len(analyses[PlanOf(s)])
  BY <1>2, <1>3, PlanOfSide DEF RunsOfSides
<1> QED BY <1>1, <1>2, <1>3, <1>4 DEF CompareTypeOK

LEMMA StatusCompleted ==
  ASSUME CompareTypeOK, NEW s \in Sides, NEW n \in 0 .. Len(analyses[PlanOf(s)])
  PROVE  StatusOf(s, n) = "COMPLETED" <=> IsCompleted(s, n)
<1>1. analyses[PlanOf(s)] \in Seq([status : AnalysisStatus, by : Threads \cup {Others}]) BY PlanOfSide DEF CompareTypeOK
<1>2. DOMAIN analyses[PlanOf(s)] = 1 .. Len(analyses[PlanOf(s)]) BY <1>1
<1> QED BY <1>1, <1>2 DEF StatusOf, NoAnalysis, IsCompleted

LEMMA LookUpSavedKeeps == ASSUME CompareInv, NEW c \in Threads, LookUpSaved(c) PROVE CompareInv'
<1>1. CompareTypeOK /\ SagaInv /\ CallInv(c) BY DEF CompareInv
<1>2. /\ analyses' = analyses /\ sagas' = sagas /\ saved' = saved /\ count' = count /\ met' = met
      /\ CallAt(c, "lookup") /\ ~CallAt(c, "idle")
  BY DEF LookUpSaved, CallAt
<1>3. Grown(analyses, analyses') /\ Untouched(c, analyses, analyses') BY <1>1, <1>2, SameRuns
<1>4. Doing \subseteq Doing' /\ RunsOfSides' = RunsOfSides
  <2>1. Len(saved) <= Len(saved') BY <1>1, <1>2 DEF CompareTypeOK
  <2>2. Doing \subseteq Doing' BY <1>1, <1>3, <2>1, TypesGrow
  <2> QED BY <1>2, <2>2 DEF RunsOfSides, PlanOf
<1>5. SavedFor(Key(c))' = {n \in DOMAIN saved : saved[n].key = Key(c)'} BY <1>2 DEF SavedFor
<1>6. CASE SavedFor(Key(c)) # {}
  <2>1. PICK n \in SavedFor(Key(c)) : Answer(c, n) BY <1>6 DEF LookUpSaved
  <2>2. Becomes(c, Idle) /\ answers' = [answers EXCEPT ![Key(c)] = answers[Key(c)] \cup {n}]
    BY <2>1 DEF Answer
  <2>3. Now(c)' = Idle /\ Key(c)' = Key(c) BY <1>1, <2>2, OneCallMoves
  <2>4. CallInv(c)' BY <2>3, IdleCall
  <2>5. n \in DOMAIN saved BY DEF SavedFor
  <2>6. Key(c) \notin met => \A m \in answers[Key(c)] \cup {n} : m \in SavedFor(Key(c))
    BY <1>1, <1>6, <2>1, CallTyped DEF CompareInv, OneInv, Answered
  <2>7. Key(c) \notin met => \A m \in answers'[Key(c)] : Answered(Key(c), m)'
    <3>1. SavedFor(Key(c))' = SavedFor(Key(c)) BY <1>5, <2>3 DEF SavedFor
    <3>2. answers'[Key(c)] = answers[Key(c)] \cup {n} BY <1>1, <2>2, CallTyped DEF CompareTypeOK
    <3> QED BY <2>6, <3>1, <3>2 DEF Answered
  <2>8. Idle.at = "idle" BY DEF Idle
  <2>9. Idle \in Doing' BY <1>1, <1>4, NoAnalysesTyped
  <2>10. answers[Key(c)] \cup {n} \in SUBSET DOMAIN saved BY <1>1, <2>5, CallTyped
  <2>11. sagas'[Key(c)].status = "COMPARISON_COMPLETED"
           => sagas'[Key(c)].comparison \in answers'[Key(c)]
    BY <1>1, <1>2, <2>2, CallTyped DEF SagaInv, CompareTypeOK
  <2>12. analyses' \in [Plans -> Seq(AnalysisType)] /\ sagas' = [sagas EXCEPT ![Key(c)] = sagas[Key(c)]]
         /\ sagas[Key(c)] \in SagaRow'
    BY <1>1, <1>2, <1>4, CallTyped DEF SagaRow
  <2> HIDE DEF Idle
  <2> QED BY <1>2, <1>3, <2>2, <2>4, <2>7, <2>8, <2>9, <2>10, <2>11, <2>12, StepKeeps
<1>7. CASE SavedFor(Key(c)) = {}
  <2> DEFINE now == [Now(c) EXCEPT !.at = "reserve"]
  <2>1. Becomes(c, now) /\ answers' = answers BY <1>7 DEF LookUpSaved, CallGoes
  <2>2. Now(c)' = now /\ Key(c)' = Key(c) BY <1>1, <2>1, OneCallMoves
  <2>3. now \in Doing /\ now.at = "reserve" /\ now.side = Now(c).side /\ now.saw = Now(c).saw
        /\ now.run = Now(c).run
    BY <1>1, CallTyped DEF Doing, CallPlace
  <2> HIDE DEF now
  <2>4. CallInv(c)' BY <1>1, <1>2, <2>2, <2>3 DEF CallInv, IsCompleted, PlanOf, CallAt
  <2>5. Key(c) \notin met => \A n \in answers'[Key(c)] : Answered(Key(c), n)'
    BY <1>1, <1>2, <2>1, <2>2, CallTyped DEF CompareInv, OneInv, Answered, SavedFor
  <2>6. OnTheWay(c)' BY <2>2, <2>3 DEF OnTheWay
  <2>7. sagas'[Key(c)].status = "COMPARISON_COMPLETED"
           => sagas'[Key(c)].comparison \in answers'[Key(c)]
    BY <1>1, <1>2, <2>1, CallTyped DEF SagaInv
  <2>8. /\ analyses' \in [Plans -> Seq(AnalysisType)] /\ sagas' = [sagas EXCEPT ![Key(c)] = sagas[Key(c)]]
        /\ sagas[Key(c)] \in SagaRow'
        /\ answers' = [answers EXCEPT ![Key(c)] = answers[Key(c)]]
        /\ answers[Key(c)] \in SUBSET DOMAIN saved
    BY <1>1, <1>2, <1>4, <2>1, CallTyped DEF SagaRow
  <2> QED BY <1>2, <1>3, <1>4, <2>1, <2>3, <2>4, <2>5, <2>6, <2>7, <2>8, StepKeeps
<1> QED BY <1>6, <1>7

\* A step that answers nobody and saves nothing, with what it makes of the saga.
LEMMA QuietStepKeeps ==
  ASSUME CompareInv, NEW c \in Threads, ~CallAt(c, "idle"), NEW now, Becomes(c, now),
         analyses' \in [Plans -> Seq(AnalysisType)], Grown(analyses, analyses'), Untouched(c, analyses, analyses'),
         saved' = saved, met' = met, count' = count, answers' = answers,
         now \in Doing', CallInv(c)',
         NEW saga, saga \in SagaRow,
         sagas' = [sagas EXCEPT ![Key(c)] = saga],
         sagas[Key(c)].status = "COMPARISON_COMPLETED" => saga = sagas[Key(c)],
         saga.status = "COMPARISON_COMPLETED" => sagas[Key(c)].status = "COMPARISON_COMPLETED",
         Key(c) \notin met /\ now.at # "idle" => OnTheWay(c)'
  PROVE  CompareInv'
<1>1. CompareTypeOK /\ SagaInv BY DEF CompareInv
<1>2. RunsOfSides \subseteq RunsOfSides'
  <2>1. Len(saved) <= Len(saved') BY <1>1 DEF CompareTypeOK
  <2> QED BY <1>1, <2>1, TypesGrow
<1>3. Key(c)' = Key(c) BY <1>1, OneCallMoves
<1>4. /\ answers' = [answers EXCEPT ![Key(c)] = answers[Key(c)]]
      /\ answers[Key(c)] \in SUBSET DOMAIN saved /\ Key(c) \in Keys
  BY <1>1, CallTyped
<1>5. sagas'[Key(c)] = saga BY <1>1, <1>4 DEF CompareTypeOK
<1>6. sagas'[Key(c)].status = "COMPARISON_COMPLETED"
        => sagas'[Key(c)].comparison \in answers'[Key(c)]
  BY <1>1, <1>4, <1>5 DEF SagaInv
<1>7. ASSUME Key(c) \notin met, NEW n \in answers'[Key(c)] PROVE Answered(Key(c), n)'
  <2>1. Answered(Key(c), n) BY <1>4, <1>7 DEF CompareInv, OneInv
  <2> QED BY <2>1, <1>3, <1>5 DEF Answered, SavedFor
<1>8. \E row \in SagaRow' : sagas' = [sagas EXCEPT ![Key(c)] = row] BY <1>2 DEF SagaRow
<1>9. \E told \in SUBSET DOMAIN saved : answers' = [answers EXCEPT ![Key(c)] = told] BY <1>4
<1>10. Key(c) \notin met => /\ \A n \in answers'[Key(c)] : Answered(Key(c), n)'
                            /\ now.at # "idle" => OnTheWay(c)'
  BY <1>7
<1> QED BY <1>6, <1>8, <1>9, <1>10, StepKeeps

\* What an update short of the comparison makes of a saga.
LEMMA UpdatedSaga ==
  ASSUME CompareTypeOK, NEW c \in Threads, NEW status \in SagaStatus \ {"COMPARISON_COMPLETED"},
         NEW run \in RunsOfSides
  PROVE  LET old == sagas[Key(c)]
             saga == Updated(old, status, run, 0)
         IN /\ saga \in SagaRow
            /\ old.status = "COMPARISON_COMPLETED" => saga = old
            /\ saga.status = "COMPARISON_COMPLETED" => old.status = "COMPARISON_COMPLETED"
<1> DEFINE old == sagas[Key(c)]
           both == [s \in Sides |-> IF run[s] # NoAnalysis THEN run[s] ELSE old.run[s]]
<1>1. old \in SagaRow
  BY CallTyped
<1>2. both \in RunsOfSides BY <1>1 DEF RunsOfSides, SagaRow
<1> HIDE DEF old
<1> QED BY <1>1, <1>2 DEF Updated, old, SagaRow

\* Nothing is made or awaited for a key that was answered with a foreign
\* comparison, so a call that does is not bound to it.
LEMMA NotBound ==
  ASSUME CompareInv, NEW c \in Threads, Now(c).at \in {"compute", "told", "failed"}, Key(c) \notin met,
         saved' = saved, answers' = answers, Key(c)' = Key(c), Now(c)'.at # "saved"
  PROVE  OnTheWay(c)'
<1>1. OnTheWay(c) BY DEF CompareInv, OneInv, CallAt
<1>2. SavedFor(Key(c))' = SavedFor(Key(c)) BY DEF SavedFor
<1> QED BY <1>1, <1>2 DEF OnTheWay

LEMMA ReserveSagaKeeps == ASSUME CompareInv, NEW c \in Threads, ReserveSaga(c) PROVE CompareInv'
<1> DEFINE old == sagas[Key(c)]
           saga == [old EXCEPT !.status = IF @ = "NONE" THEN "RESERVED" ELSE @]
           now == [Now(c) EXCEPT !.at = "start", !.run = old.run]
<1>1. CompareTypeOK /\ CallInv(c) BY DEF CompareInv
<1>2. /\ analyses' = analyses /\ saved' = saved /\ count' = count /\ met' = met /\ answers' = answers
      /\ CallAt(c, "reserve") /\ ~CallAt(c, "idle") /\ Becomes(c, now)
      /\ sagas' = [sagas EXCEPT ![Key(c)] = saga]
  BY DEF ReserveSaga, CallAt
<1>3. Grown(analyses, analyses') /\ Untouched(c, analyses, analyses') BY <1>1, <1>2, SameRuns
<1>4. old \in SagaRow
  BY <1>1, CallTyped
<1>5. /\ saga \in SagaRow
      /\ old.status = "COMPARISON_COMPLETED" => saga = old
      /\ saga.status = "COMPARISON_COMPLETED" => old.status = "COMPARISON_COMPLETED"
      /\ saga.run = old.run /\ saga.comparison = old.comparison
  BY <1>4 DEF SagaStatus, SagaRow
<1>6. Now(c)' = now /\ Key(c)' = Key(c) BY <1>1, <1>2, OneCallMoves
<1>7. now \in Doing /\ now.at = "start" /\ now.side = Now(c).side /\ now.saw = Now(c).saw
      /\ now.run = old.run
  BY <1>1, <1>4, CallTyped DEF Doing, CallPlace, SagaRow
<1>8. Doing \subseteq Doing' /\ analyses' \in [Plans -> Seq(AnalysisType)]
  <2>1. Len(saved) <= Len(saved') BY <1>1, <1>2 DEF CompareTypeOK
  <2> QED BY <1>1, <1>2, <1>3, <2>1, TypesGrow, CallTyped
<1>9. sagas'[Key(c)] = saga BY <1>1, <1>2, CallTyped DEF CompareTypeOK
<1> HIDE DEF now, saga
<1>10. CallInv(c)'
  <2>1. Now(c).side = "before" /\ Now(c).saw["before"] = "NONE" /\ Now(c).saw["after"] = "NONE"
    BY <1>1, <1>2 DEF CallInv, CallAt
  <2> QED BY <2>1, <1>6, <1>7 DEF CallInv, Sides
<1>11. OnTheWay(c)' BY <1>5, <1>6, <1>7, <1>9 DEF OnTheWay
<1>12. now \in Doing' BY <1>7, <1>8
<1> QED BY <1>2, <1>3, <1>5, <1>8, <1>10, <1>11, <1>12, QuietStepKeeps DEF old

LEMMA ComputeSideKeeps == ASSUME CompareInv, NEW c \in Threads, ComputeSide(c) PROVE CompareInv'
<1> DEFINE s == Now(c).side
           n == Now(c).run[s]
<1>1. CompareTypeOK /\ CallInv(c) /\ s \in Sides /\ PlanOf(s) \in Plans
  BY CallTyped, PlanOfSide DEF CompareInv
<1>2. PICK r \in {"COMPLETED", "FAILED"} :
        /\ analyses' = [analyses EXCEPT ![PlanOf(s)][n].status = r]
        /\ Becomes(c, [Now(c) EXCEPT !.saw[s] = r, !.at = "told"])
  BY DEF ComputeSide
<1> DEFINE now == [Now(c) EXCEPT !.saw[s] = r, !.at = "told"]
<1>3. /\ saved' = saved /\ count' = count /\ met' = met /\ answers' = answers /\ sagas' = sagas
      /\ CallAt(c, "compute") /\ ~CallAt(c, "idle")
  BY DEF ComputeSide, CallAt
<1>4. n \in DOMAIN analyses[PlanOf(s)] /\ analyses[PlanOf(s)][n] = [status |-> "RUNNING", by |-> c]
  BY <1>1, <1>3 DEF CallInv, CallAt
<1>5. analyses \in [Plans -> Seq(AnalysisType)] /\ c \in Threads BY <1>1, CallTyped
<1>6. /\ analyses'[PlanOf(s)] = [analyses[PlanOf(s)] EXCEPT ![n].status = r]
      /\ \A p \in Plans \ {PlanOf(s)} : analyses'[p] = analyses[p]
      /\ DOMAIN analyses' = Plans
  BY <1>1, <1>2, <1>5
<1>7. analyses[PlanOf(s)] \in Seq(AnalysisType) /\ [analyses[PlanOf(s)][n] EXCEPT !.status = r] \in AnalysisType
  <2>1. analyses[PlanOf(s)] \in Seq(AnalysisType) BY <1>1, <1>5
  <2>2. [analyses[PlanOf(s)][n] EXCEPT !.status = r] = [status |-> r, by |-> c] BY <1>4
  <2>3. [status |-> r, by |-> c] \in AnalysisType BY DEF AnalysisType, AnalysisStatus
  <2> QED BY <2>1, <2>2, <2>3
<1>8. analyses'[PlanOf(s)] = [analyses[PlanOf(s)] EXCEPT ![n] = [analyses[PlanOf(s)][n] EXCEPT !.status = r]]
  BY <1>6
<1>9. /\ analyses'[PlanOf(s)] \in Seq(AnalysisType) /\ Len(analyses'[PlanOf(s)]) = Len(analyses[PlanOf(s)])
      /\ DOMAIN analyses'[PlanOf(s)] = DOMAIN analyses[PlanOf(s)]
      /\ analyses'[PlanOf(s)][n].status = r
      /\ \A m \in DOMAIN analyses[PlanOf(s)] \ {n} : analyses'[PlanOf(s)][m] = analyses[PlanOf(s)][m]
  <2> DEFINE q == analyses[PlanOf(s)]
             v == [analyses[PlanOf(s)][n] EXCEPT !.status = r]
  <2>1. v.status = r BY <1>4
  <2> HIDE DEF q, v, n
  <2>2. q \in Seq(AnalysisType) /\ v \in AnalysisType /\ n \in DOMAIN q BY <1>4, <1>7 DEF q, v
  <2>3. /\ [q EXCEPT ![n] = v] \in Seq(AnalysisType) /\ Len([q EXCEPT ![n] = v]) = Len(q)
        /\ DOMAIN [q EXCEPT ![n] = v] = DOMAIN q
        /\ [q EXCEPT ![n] = v][n] = v
        /\ \A m \in DOMAIN q \ {n} : [q EXCEPT ![n] = v][m] = q[m]
    BY <2>2
  <2> QED BY <1>8, <2>1, <2>3 DEF q, v
<1>10. analyses' \in [Plans -> Seq(AnalysisType)] BY <1>2, <1>5, <1>6, <1>9
<1>11. Grown(analyses, analyses') /\ Untouched(c, analyses, analyses')
  <2> HIDE DEF n, s
  <2> SUFFICES ASSUME NEW p \in Plans
               PROVE  /\ Len(analyses[p]) <= Len(analyses'[p])
                      /\ \A m \in DOMAIN analyses[p] :
                           /\ m \in DOMAIN analyses'[p]
                           /\ analyses[p][m].status = "COMPLETED" => analyses'[p][m].status = "COMPLETED"
                           /\ analyses[p][m].by \in Threads \ {c} => analyses'[p][m] = analyses[p][m]
    BY DEF Grown, Untouched
  <2>1. Len(analyses[p]) \in Nat BY <1>5
  <2>2. CASE p # PlanOf(s) BY <2>1, <2>2, <1>6
  <2>3. CASE p = PlanOf(s)
    <3>1. Len(analyses[p]) <= Len(analyses'[p]) /\ DOMAIN analyses'[p] = DOMAIN analyses[p] BY <2>1, <2>3, <1>9
    <3>2. analyses[p][n].status = "RUNNING" /\ analyses[p][n].by = c BY <2>3, <1>4
    <3>3. \A m \in DOMAIN analyses[p] : m # n => analyses'[p][m] = analyses[p][m] BY <2>3, <1>9
    <3> QED BY <3>1, <3>2, <3>3
  <2> QED BY <2>2, <2>3
<1>13. Now(c)' = now /\ Key(c)' = Key(c) BY <1>1, <1>2, OneCallMoves
<1>14. /\ now \in Doing /\ now.at = "told" /\ now.side = s /\ now.run = Now(c).run
       /\ now.saw = [Now(c).saw EXCEPT ![s] = r]
  BY <1>1, CallTyped DEF Doing, CallPlace, AnalysisStatus
<1> HIDE DEF now
<1>15. CallInv(c)'
  <2>1. ASSUME NEW u \in Sides, now.saw[u] = "COMPLETED" PROVE (IsCompleted(u, Now(c).run[u]))'
    <3>1. PlanOf(u)' = PlanOf(u) BY DEF PlanOf
    <3>2. CASE u = s
      <4>1. r = "COMPLETED" BY <2>1, <3>2, <1>1, <1>14, CallTyped
      <4>2. (Now(c).run[u])' = n BY <3>2, <1>14, <1>13
      <4>3. n \in DOMAIN analyses'[PlanOf(s)] /\ analyses'[PlanOf(s)][n].status = "COMPLETED"
        BY <4>1, <1>4, <1>9
      <4> QED BY <3>1, <3>2, <4>2, <4>3 DEF IsCompleted
    <3>3. CASE u # s
      <4>1. Now(c).saw[u] = "COMPLETED" BY <2>1, <3>3, <1>1, <1>14, CallTyped
      <4>2. IsCompleted(u, Now(c).run[u]) BY <4>1, <1>1 DEF CallInv
      <4>3. (Now(c).run[u])' = Now(c).run[u] BY <1>13, <1>14
      <4> DEFINE m == Now(c).run[u]
      <4>4. m \in DOMAIN analyses'[PlanOf(u)] /\ analyses'[PlanOf(u)][m].status = "COMPLETED"
        BY <4>2, <1>11, PlanOfSide DEF IsCompleted, Grown
      <4> QED BY <3>1, <4>3, <4>4 DEF IsCompleted
    <3> QED BY <3>2, <3>3
  <2>2. now.side = "before" => now.saw["after"] = "NONE"
    BY <1>1, <1>14, CallTyped DEF CallInv, Sides
  <2>3. \A u \in Sides : now.saw[u] = "COMPLETED" => IsCompleted(u, Now(c).run[u])' BY <2>1
  <2> QED BY <2>2, <2>3, <1>13, <1>14 DEF CallInv
<1>16. Key(c) \notin met => OnTheWay(c)'
  BY <1>3, <1>13, <1>14, NotBound DEF CallAt
<1>17. now \in Doing'
  <2>1. Len(saved) <= Len(saved') BY <1>1, <1>3 DEF CompareTypeOK
  <2> QED BY <1>1, <1>11, <1>14, <2>1, TypesGrow
<1>18. /\ sagas' = [sagas EXCEPT ![Key(c)] = sagas[Key(c)]]
       /\ sagas[Key(c)] \in SagaRow
  BY <1>1, <1>3, CallTyped
<1>19. Becomes(c, now) BY <1>2 DEF now
<1> QED BY <1>3, <1>10, <1>11, <1>15, <1>16, <1>17, <1>18, <1>19, QuietStepKeeps

\* A quiet step that runs nothing.
LEMMA QuietStepOnSameRuns ==
  ASSUME CompareInv, NEW c \in Threads, ~CallAt(c, "idle"), NEW now, Becomes(c, now), now \in Doing,
         analyses' = analyses, saved' = saved, met' = met, count' = count, answers' = answers,
         CallInv(c)', NEW saga, saga \in SagaRow, sagas' = [sagas EXCEPT ![Key(c)] = saga],
         sagas[Key(c)].status = "COMPARISON_COMPLETED" => saga = sagas[Key(c)],
         saga.status = "COMPARISON_COMPLETED" => sagas[Key(c)].status = "COMPARISON_COMPLETED",
         Key(c) \notin met /\ now.at # "idle" => OnTheWay(c)'
  PROVE  CompareInv'
<1>1. CompareTypeOK BY DEF CompareInv
<1>2. Grown(analyses, analyses') /\ Untouched(c, analyses, analyses') BY <1>1, SameRuns
<1>3. now \in Doing'
  <2>1. Len(saved) <= Len(saved') BY <1>1 DEF CompareTypeOK
  <2> QED BY <1>1, <1>2, <2>1, TypesGrow
<1>4. analyses' \in [Plans -> Seq(AnalysisType)] BY <1>1, CallTyped
<1> QED BY <1>2, <1>3, <1>4, QuietStepKeeps

\* A call that is refused, with what is recorded of its failure.
LEMMA RefusalKeeps ==
  ASSUME CompareInv, NEW c \in Threads, ~CallAt(c, "idle"), Refuse(c),
         analyses' = analyses, saved' = saved, met' = met, count' = count,
         \/ sagas' = sagas
         \/ \E run \in RunsOfSides : UpdateSaga(c, "FAILED", run, 0)
  PROVE  CompareInv'
<1>1. CompareTypeOK BY DEF CompareInv
<1>2. Becomes(c, Idle) /\ answers' = answers BY DEF Refuse
<1>3. Idle.at = "idle" /\ Idle \in Doing BY <1>1, NoAnalysesTyped DEF Idle
<1>4. CallInv(c)' BY <1>1, <1>2, OneCallMoves, IdleCall
<1> HIDE DEF Idle
<1>5. CASE sagas' = sagas
  <2>1. sagas' = [sagas EXCEPT ![Key(c)] = sagas[Key(c)]] /\ sagas[Key(c)] \in SagaRow
    BY <1>1, <1>5, CallTyped
  <2> QED BY <1>2, <1>3, <1>4, <2>1, QuietStepOnSameRuns
<1>6. CASE \E run \in RunsOfSides : UpdateSaga(c, "FAILED", run, 0)
  <2>1. PICK run \in RunsOfSides : UpdateSaga(c, "FAILED", run, 0) BY <1>6
  <2> DEFINE saga == Updated(sagas[Key(c)], "FAILED", run, 0)
  <2>2. sagas' = [sagas EXCEPT ![Key(c)] = saga] BY <2>1 DEF UpdateSaga
  <2>3. /\ saga \in SagaRow
        /\ sagas[Key(c)].status = "COMPARISON_COMPLETED" => saga = sagas[Key(c)]
        /\ saga.status = "COMPARISON_COMPLETED" => sagas[Key(c)].status = "COMPARISON_COMPLETED"
    BY <1>1, UpdatedSaga DEF SagaStatus
  <2> HIDE DEF saga
  <2> QED BY <1>2, <1>3, <1>4, <2>2, <2>3, QuietStepOnSameRuns
<1> QED BY <1>5, <1>6

LEMMA FailSideKeeps == ASSUME CompareInv, NEW c \in Threads, FailSide(c) PROVE CompareInv'
<1> DEFINE run == [NoAnalyses EXCEPT !["before"] = IF Now(c).side = "after" THEN Now(c).run["before"]
                                               ELSE NoAnalysis]
<1>1. CompareTypeOK BY DEF CompareInv
<1>2. run \in RunsOfSides
  <2>1. NoAnalyses \in RunsOfSides /\ Now(c).run \in RunsOfSides BY <1>1, NoAnalysesTyped, CallTyped
  <2>2. NoAnalyses \in [Sides -> Nat] /\ Now(c).run \in [Sides -> Nat] BY <2>1 DEF RunsOfSides
  <2>3. run \in [Sides -> Nat] BY <2>2 DEF NoAnalysis, Sides
  <2>4. \A s \in Sides : run[s] \in {NoAnalyses[s], Now(c).run[s]} BY <2>2 DEF NoAnalyses, NoAnalysis, Sides
  <2> QED BY <2>1, <2>3, <2>4 DEF RunsOfSides
<1>3. /\ ~CallAt(c, "idle") /\ UpdateSaga(c, "FAILED", run, 0) /\ Refuse(c)
      /\ analyses' = analyses /\ saved' = saved /\ count' = count /\ met' = met
  BY DEF FailSide, CallAt
<1> HIDE DEF run
<1> QED BY <1>2, <1>3, RefusalKeeps

LEMMA FailSavedKeeps == ASSUME CompareInv, NEW c \in Threads, FailSaved(c) PROVE CompareInv'
<1>1. Now(c).run \in RunsOfSides BY CallTyped DEF CompareInv
<1>2. /\ ~CallAt(c, "idle") /\ UpdateSaga(c, "FAILED", Now(c).run, 0) /\ Refuse(c)
      /\ analyses' = analyses /\ saved' = saved /\ count' = count /\ met' = met
  BY DEF FailSaved, CallAt
<1> QED BY <1>1, <1>2, RefusalKeeps

LEMMA RecordSideKeeps == ASSUME CompareInv, NEW c \in Threads, RecordSide(c) PROVE CompareInv'
<1> DEFINE status == IF Now(c).side = "before" THEN "BEFORE_COMPLETED" ELSE "AFTER_COMPLETED"
           saga == Updated(sagas[Key(c)], status, InHand(c), 0)
           told == [Now(c) EXCEPT !.run["after"] = IF Now(c).side = "before" THEN saga.run["after"]
                                                   ELSE @]
           now == NextSide(told)
<1>1. CompareTypeOK /\ CallInv(c) BY DEF CompareInv
<1>2. /\ analyses' = analyses /\ saved' = saved /\ count' = count /\ met' = met /\ answers' = answers
      /\ CallAt(c, "told") /\ ~CallAt(c, "idle") /\ Becomes(c, now)
      /\ sagas' = [sagas EXCEPT ![Key(c)] = saga]
  BY DEF RecordSide, CallAt
<1>3. InHand(c) \in RunsOfSides
  <2>1. Now(c).run \in [Sides -> Nat] /\ \A s \in Sides : Now(c).run[s] <= Len(analyses[PlanOf(s)])
    BY <1>1, CallTyped DEF RunsOfSides
  <2>2. \A s \in Sides : Len(analyses[PlanOf(s)]) \in Nat BY <1>1, PlanOfSide DEF CompareTypeOK
  <2> QED BY <2>1, <2>2 DEF InHand, RunsOfSides, NoAnalysis
<1>4. /\ saga \in SagaRow
      /\ sagas[Key(c)].status = "COMPARISON_COMPLETED" => saga = sagas[Key(c)]
      /\ saga.status = "COMPARISON_COMPLETED" => sagas[Key(c)].status = "COMPARISON_COMPLETED"
  <2>1. status \in SagaStatus \ {"COMPARISON_COMPLETED"} BY DEF SagaStatus
  <2> HIDE DEF status
  <2> QED BY <1>1, <1>3, <2>1, UpdatedSaga
<1> HIDE DEF saga
<1>5. /\ told.side = Now(c).side /\ told.saw = Now(c).saw /\ told.run \in RunsOfSides
      /\ told.run["before"] = Now(c).run["before"]
      /\ Now(c).side = "after" => told.run = Now(c).run
      /\ told \in Doing
  <2>1. Now(c).run \in RunsOfSides /\ saga.run \in RunsOfSides /\ Now(c) \in Doing
    BY <1>1, <1>4, CallTyped DEF SagaRow
  <2> DEFINE run == [Now(c).run EXCEPT !["after"] = IF Now(c).side = "before" THEN saga.run["after"]
                                                    ELSE @]
  <2>2. told = [Now(c) EXCEPT !.run = run] BY <2>1 DEF Doing
  <2>3. Now(c).run \in [Sides -> Nat] /\ saga.run \in [Sides -> Nat] BY <2>1 DEF RunsOfSides
  <2>4. run \in [Sides -> Nat] /\ run["before"] = Now(c).run["before"]
        /\ \A s \in Sides : run[s] \in {Now(c).run[s], saga.run[s]}
    BY <2>3 DEF Sides
  <2>5. run \in RunsOfSides BY <2>1, <2>4 DEF RunsOfSides
  <2>6. Now(c).side = "after" => run = Now(c).run BY <2>3
  <2> HIDE DEF run
  <2> QED BY <2>1, <2>2, <2>4, <2>5, <2>6 DEF Doing
<1> HIDE DEF told
<1>6. /\ now \in Doing /\ now.at \in {"start", "save"} /\ now.side = "after"
      /\ now.saw = told.saw /\ now.run = told.run
      /\ now.at = "start" => Now(c).side = "before"
  BY <1>1, <1>5, CallTyped DEF NextSide, Doing, CallPlace, Sides
<1> HIDE DEF now
<1>7. Now(c)' = now /\ Key(c)' = Key(c) BY <1>1, <1>2, OneCallMoves
<1>8. CallInv(c)'
  <2>1. ASSUME NEW s \in Sides, now.saw[s] = "COMPLETED" PROVE IsCompleted(s, now.run[s])
    <3>1. Now(c).saw[s] = "COMPLETED" BY <2>1, <1>5, <1>6
    <3>2. now.run[s] = Now(c).run[s]
      BY <1>1, <1>5, <1>6, <3>1, CallTyped DEF CallInv, Sides
    <3> QED BY <1>1, <3>1, <3>2 DEF CallInv
  <2>2. now.at = "start" => now.saw["after"] = "NONE" BY <1>1, <1>5, <1>6 DEF CallInv
  <2>3. Grown(analyses, analyses') BY <1>1, <1>2, SameRuns
  <2>4. \A s \in Sides : now.saw[s] = "COMPLETED" => IsCompleted(s, now.run[s]) BY <2>1
  <2>5. (\A s \in Sides : Now(c).saw[s] = "COMPLETED" => IsCompleted(s, Now(c).run[s]))'
    BY <1>7, <2>3, <2>4, ReadStands
  <2> QED BY <1>6, <1>7, <2>2, <2>5 DEF CallInv
<1>9. Key(c) \notin met => OnTheWay(c)'
  <2>1. Now(c)'.at # "saved" BY <1>6, <1>7
  <2> QED BY <1>2, <1>7, <2>1, NotBound DEF CallAt
<1> QED BY <1>2, <1>4, <1>6, <1>8, <1>9, QuietStepOnSameRuns
\* A call that has yet to make or await an analysis is not bound to a foreign
\* comparison either: what the saga names would be completed.
LEMMA NotDone ==
  ASSUME CompareInv, NEW c \in Threads, CallAt(c, "start"), Key(c) \notin met,
         StatusOf(Now(c).side, Now(c).run[Now(c).side]) # "COMPLETED",
         saved' = saved, answers' = answers, Key(c)' = Key(c), Now(c)'.at # "saved"
  PROVE  OnTheWay(c)'
<1>1. CompareTypeOK BY DEF CompareInv
<1>2. SavedFor(Key(c))' = SavedFor(Key(c)) BY DEF SavedFor
<1>3. OnTheWay(c) /\ Key(c) \in Keys BY <1>1, CallTyped DEF CompareInv, OneInv, CallAt
<1>4. ~IsCompleted(Now(c).side, Now(c).run[Now(c).side]) BY <1>1, CallTyped, StatusCompleted
<1>5. answers[Key(c)] = {} \/ SavedFor(Key(c)) # {}
  <2> SUFFICES ASSUME answers[Key(c)] # {}, SavedFor(Key(c)) = {} PROVE FALSE
    OBVIOUS
  <2>1. Now(c).run = sagas[Key(c)].run BY <1>3 DEF OnTheWay, CallAt
  <2>2. \A s \in Sides : IsCompleted(s, sagas[Key(c)].run[s]) BY <1>3, Settled
  <2> QED BY <1>1, <1>4, <2>1, <2>2, CallTyped
<1> QED BY <1>2, <1>5 DEF OnTheWay

\* A step that starts, awaits or passes a side, the saga being left alone.
LEMMA StartStepKeeps ==
  ASSUME CompareInv, NEW c \in Threads, CallAt(c, "start"), NEW now, Becomes(c, now), now \in Doing',
         analyses' \in [Plans -> Seq(AnalysisType)], Grown(analyses, analyses'), Untouched(c, analyses, analyses'),
         saved' = saved, met' = met, count' = count, answers' = answers, sagas' = sagas,
         CallInv(c)', Key(c) \notin met => OnTheWay(c)'
  PROVE  CompareInv'
<1>1. CompareTypeOK BY DEF CompareInv
<1>2. sagas' = [sagas EXCEPT ![Key(c)] = sagas[Key(c)]] /\ sagas[Key(c)] \in SagaRow
  BY <1>1, CallTyped
<1>3. ~CallAt(c, "idle") BY DEF CallAt
<1> QED BY <1>2, <1>3, QuietStepKeeps

LEMMA StartSideKeeps == ASSUME CompareInv, NEW c \in Threads, StartSide(c) PROVE CompareInv'
<1> DEFINE s == Now(c).side
           p == PlanOf(s)
           n == Now(c).run[s]
           newest == Len(analyses[p])
<1>1. CompareTypeOK /\ CallInv(c) /\ s \in Sides /\ p \in Plans /\ newest \in Nat /\ n \in 0 .. newest
  BY CallTyped, PlanOfSide DEF CompareInv
<1>2. /\ saved' = saved /\ count' = count /\ met' = met /\ answers' = answers /\ sagas' = sagas
      /\ CallAt(c, "start")
  BY DEF StartSide
<1>3. /\ analyses \in [Plans -> Seq(AnalysisType)] /\ Now(c) \in Doing /\ Now(c).run \in RunsOfSides
      /\ Now(c).saw \in [Sides -> AnalysisStatus \cup {"NONE"}]
  BY <1>1, CallTyped
<1>4. /\ \A u \in Sides : Now(c).saw[u] = "COMPLETED" => IsCompleted(u, Now(c).run[u])
      /\ s = "before" => Now(c).saw["after"] = "NONE"
      /\ Now(c).saw[s] = "NONE"
  BY <1>1, <1>2 DEF CallInv, CallAt
<1>5. Len(saved) <= Len(saved') BY <1>1, <1>2 DEF CompareTypeOK
<1>6. ASSUME NEW m \in 0 .. newest, StatusOf(s, m) \in AnalysisStatus
      PROVE  /\ Reads(c, s, m) \in Doing /\ Reads(c, s, m).side = s
             /\ Reads(c, s, m).run = [Now(c).run EXCEPT ![s] = m]
             /\ Reads(c, s, m).saw = [Now(c).saw EXCEPT ![s] = StatusOf(s, m)]
             /\ \A u \in Sides : Reads(c, s, m).saw[u] = "COMPLETED"
                                   => IsCompleted(u, Reads(c, s, m).run[u])
             /\ s = "before" => Reads(c, s, m).saw["after"] = "NONE"
  <2> DEFINE run == [Now(c).run EXCEPT ![s] = m]
             saw == [Now(c).saw EXCEPT ![s] = StatusOf(s, m)]
  <2>1. Reads(c, s, m) = [Now(c) EXCEPT !.run = run, !.saw = saw]
    BY <1>3 DEF Reads, Doing
  <2>2. run \in RunsOfSides
    <3>1. Now(c).run \in [Sides -> Nat] /\ \A u \in Sides : Now(c).run[u] <= Len(analyses[PlanOf(u)])
      BY <1>3 DEF RunsOfSides
    <3>2. m \in Nat /\ m <= Len(analyses[PlanOf(s)]) BY <1>1
    <3>3. run \in [Sides -> Nat] BY <3>1, <3>2, <1>1
    <3>4. \A u \in Sides : run[u] <= Len(analyses[PlanOf(u)]) BY <3>1, <3>2, <1>1
    <3> QED BY <3>3, <3>4 DEF RunsOfSides
  <2>3. saw \in [Sides -> AnalysisStatus \cup {"NONE"}] BY <1>1, <1>3, <1>6
  <2>4. \A u \in Sides : saw[u] = "COMPLETED" => IsCompleted(u, run[u])
    <3> SUFFICES ASSUME NEW u \in Sides, saw[u] = "COMPLETED" PROVE IsCompleted(u, run[u])
      OBVIOUS
    <3>1. run[s] = m /\ saw[s] = StatusOf(s, m) BY <1>1, <1>3 DEF RunsOfSides
    <3>2. CASE u = s BY <3>1, <3>2, <1>1, StatusCompleted
    <3>3. CASE u # s BY <3>3, <1>4, <1>3 DEF RunsOfSides
    <3> QED BY <3>2, <3>3
  <2>5. s = "before" => saw["after"] = "NONE" BY <1>3, <1>4 DEF Sides
  <2> HIDE DEF run, saw
  <2> QED BY <2>1, <2>2, <2>3, <2>4, <2>5, <1>3 DEF Doing, run, saw
<1>7. CASE StatusOf(s, n) = "COMPLETED" /\ Becomes(c, NextSide(Reads(c, s, n))) /\ analyses' = analyses
  <2> DEFINE read == Reads(c, s, n)
             now == NextSide(read)
  <2>1. /\ read \in Doing /\ read.side = s /\ read.run = [Now(c).run EXCEPT ![s] = n]
        /\ \A u \in Sides : read.saw[u] = "COMPLETED" => IsCompleted(u, read.run[u])
        /\ s = "before" => read.saw["after"] = "NONE"
    <3>1. n \in 0 .. newest /\ StatusOf(s, n) \in AnalysisStatus BY <1>1, <1>7 DEF AnalysisStatus
    <3> QED BY <1>6, <3>1
  <2>2. read.run = Now(c).run BY <2>1, <1>3 DEF RunsOfSides
  <2> HIDE DEF read
  <2>3. /\ now \in Doing /\ now.at \in {"start", "save"} /\ now.side = "after"
        /\ now.saw = read.saw /\ now.run = Now(c).run /\ (now.at = "start" => s = "before")
    BY <1>1, <2>1, <2>2 DEF NextSide, Doing, CallPlace, Sides
  <2>4. Becomes(c, now) BY <1>7 DEF read
  <2> HIDE DEF now
  <2>5. Now(c)' = now /\ Key(c)' = Key(c) BY <1>1, <2>4, OneCallMoves
  <2>6. Grown(analyses, analyses') /\ Untouched(c, analyses, analyses') BY <1>1, <1>7, SameRuns
  <2>7. CallInv(c)'
    <3>1. \A u \in Sides : now.saw[u] = "COMPLETED" => IsCompleted(u, now.run[u])
      BY <2>1, <2>2, <2>3
    <3>2. (\A u \in Sides : Now(c).saw[u] = "COMPLETED" => IsCompleted(u, Now(c).run[u]))'
      BY <2>5, <2>6, <3>1, ReadStands
    <3> QED BY <2>1, <2>3, <2>5, <3>2 DEF CallInv
  <2>8. Key(c) \notin met => OnTheWay(c)'
    <3>1. Key(c) \notin met => OnTheWay(c) BY <1>2 DEF CompareInv, OneInv, CallAt
    <3>2. SavedFor(Key(c))' = SavedFor(Key(c)) BY <1>2, <2>5 DEF SavedFor
    <3> QED BY <1>2, <2>3, <2>5, <3>1, <3>2 DEF OnTheWay, CallAt
  <2>9. now \in Doing' /\ analyses' \in [Plans -> Seq(AnalysisType)]
    BY <1>1, <1>3, <1>5, <1>7, <2>3, <2>6, TypesGrow
  <2> QED BY <1>2, <2>4, <2>6, <2>7, <2>8, <2>9, StartStepKeeps
<1>8. CASE /\ StatusOf(s, n) # "COMPLETED" /\ newest = 0
           /\ analyses' = [analyses EXCEPT ![p] = <<[status |-> "RUNNING", by |-> c]>>]
           /\ Becomes(c, [Now(c) EXCEPT !.run[s] = 1, !.at = "compute"])
  <2> DEFINE first == <<[status |-> "RUNNING", by |-> c]>>
             run == [Now(c).run EXCEPT ![s] = 1]
             now == [Now(c) EXCEPT !.run[s] = 1, !.at = "compute"]
  <2>1. /\ first \in Seq(AnalysisType) /\ Len(first) = 1 /\ DOMAIN first = {1}
        /\ first[1] = [status |-> "RUNNING", by |-> c]
    <3>1. [status |-> "RUNNING", by |-> c] \in AnalysisType BY DEF AnalysisType, AnalysisStatus
    <3> QED BY <3>1
  <2> HIDE DEF first
  <2>2. analyses' = [analyses EXCEPT ![p] = first] BY <1>8 DEF first
  <2>3. /\ analyses'[p] = first /\ \A q \in Plans \ {p} : analyses'[q] = analyses[q]
        /\ analyses' \in [Plans -> Seq(AnalysisType)]
    BY <1>1, <1>3, <2>1, <2>2
  <2>4. analyses[p] \in Seq(AnalysisType) /\ DOMAIN analyses[p] = {} BY <1>1, <1>3, <1>8
  <2>5. Grown(analyses, analyses') /\ Untouched(c, analyses, analyses')
    <3> SUFFICES ASSUME NEW q \in Plans
                 PROVE  /\ Len(analyses[q]) <= Len(analyses'[q])
                        /\ \A m \in DOMAIN analyses[q] : m \in DOMAIN analyses'[q] /\ analyses'[q][m] = analyses[q][m]
      BY DEF Grown, Untouched
    <3>1. Len(analyses[q]) \in Nat BY <1>3
    <3>2. CASE q = p BY <3>2, <1>8, <2>1, <2>3, <2>4
    <3>3. CASE q # p BY <3>1, <3>3, <2>3
    <3> QED BY <3>2, <3>3
  <2>6. RunsOfSides \subseteq RunsOfSides' /\ Doing \subseteq Doing' BY <1>1, <1>5, <2>5, TypesGrow
  <2>7. run \in RunsOfSides' /\ run[s] = 1
    <3>1. /\ Now(c).run \in [Sides -> Nat]
          /\ \A u \in Sides : Now(c).run[u] <= Len(analyses'[PlanOf(u)])
      BY <1>3, <2>6 DEF RunsOfSides, PlanOf
    <3>2. Len(analyses'[PlanOf(s)]) = 1 BY <2>1, <2>3
    <3>3. run \in [Sides -> Nat] /\ run[s] = 1 BY <3>1, <1>1
    <3>4. ASSUME NEW u \in Sides PROVE run[u] <= Len(analyses'[PlanOf(u)])
      <4>1. CASE u = s
        <5>1. run[u] = 1 /\ Len(analyses'[PlanOf(u)]) = 1 BY <4>1, <3>2, <3>3
        <5> HIDE DEF run
        <5> QED BY <5>1
      <4>2. CASE u # s BY <4>2, <3>1
      <4> QED BY <4>1, <4>2
    <3> QED BY <3>3, <3>4 DEF RunsOfSides, PlanOf
  <2>8. /\ now \in Doing' /\ now.at = "compute" /\ now.side = s /\ now.run = run
        /\ now.saw = Now(c).saw
    <3>1. now = [Now(c) EXCEPT !.run = run, !.at = "compute"] BY <1>3 DEF Doing
    <3>2. Now(c) \in [at : CallPlace, side : Sides, run : RunsOfSides',
                      saw : [Sides -> AnalysisStatus \cup {"NONE"}], got : 0 .. Len(saved')]
      BY <1>3, <2>6 DEF Doing
    <3> HIDE DEF run
    <3> QED BY <3>1, <3>2, <2>7 DEF Doing, CallPlace
  <2>9. Becomes(c, now) BY <1>8
  <2> HIDE DEF now, run
  <2>10. Now(c)' = now /\ Key(c)' = Key(c) BY <1>1, <2>9, OneCallMoves
  <2>11. CallInv(c)'
    <3>1. \A u \in Sides : now.saw[u] = "COMPLETED" => IsCompleted(u, now.run[u])
      <4> SUFFICES ASSUME NEW u \in Sides, now.saw[u] = "COMPLETED" PROVE IsCompleted(u, now.run[u])
        OBVIOUS
      <4>1. u # s /\ IsCompleted(u, Now(c).run[u]) BY <1>4, <2>8
      <4>2. run[u] = Now(c).run[u] BY <4>1, <1>3 DEF run, RunsOfSides
      <4> QED BY <4>1, <4>2, <2>8
    <3>2. (\A u \in Sides : Now(c).saw[u] = "COMPLETED" => IsCompleted(u, Now(c).run[u]))'
      BY <2>5, <2>10, <3>1, ReadStands
    <3>3. 1 \in DOMAIN analyses'[p] /\ analyses'[p][1] = [status |-> "RUNNING", by |-> c] BY <2>1, <2>3
    <3>4. Now(c)'.at = "compute" /\ Now(c)'.side = s /\ Now(c)'.run[s] = 1 /\ Now(c)'.saw = Now(c).saw
      BY <2>7, <2>8, <2>10
    <3> QED BY <1>4, <3>2, <3>3, <3>4 DEF CallInv, PlanOf
  <2>12. Key(c) \notin met => OnTheWay(c)' BY <1>2, <1>8, <2>8, <2>10, NotDone
  <2> QED BY <1>2, <2>3, <2>5, <2>8, <2>9, <2>11, <2>12, StartStepKeeps
<1>9. CASE /\ StatusOf(s, n) # "COMPLETED" /\ StatusOf(s, newest) \in {"RUNNING", "COMPLETED"}
           /\ Becomes(c, [Reads(c, s, newest) EXCEPT !.at = "told"]) /\ analyses' = analyses
  <2> DEFINE read == Reads(c, s, newest)
             now == [read EXCEPT !.at = "told"]
  <2>1. /\ read \in Doing /\ read.side = s
        /\ \A u \in Sides : read.saw[u] = "COMPLETED" => IsCompleted(u, read.run[u])
        /\ s = "before" => read.saw["after"] = "NONE"
    <3>1. newest \in 0 .. newest /\ StatusOf(s, newest) \in AnalysisStatus BY <1>1, <1>9 DEF AnalysisStatus
    <3> HIDE DEF newest
    <3> QED BY <1>6, <3>1
  <2> HIDE DEF read
  <2>2. /\ now \in Doing /\ now.at = "told" /\ now.side = s
        /\ now.saw = read.saw /\ now.run = read.run
    BY <2>1 DEF Doing, CallPlace
  <2>3. Becomes(c, now) BY <1>9 DEF read
  <2> HIDE DEF now
  <2>4. Now(c)' = now /\ Key(c)' = Key(c) BY <1>1, <2>3, OneCallMoves
  <2>5. Grown(analyses, analyses') /\ Untouched(c, analyses, analyses') BY <1>1, <1>9, SameRuns
  <2>6. CallInv(c)'
    <3>1. \A u \in Sides : now.saw[u] = "COMPLETED" => IsCompleted(u, now.run[u]) BY <2>1, <2>2
    <3>2. (\A u \in Sides : Now(c).saw[u] = "COMPLETED" => IsCompleted(u, Now(c).run[u]))'
      BY <2>4, <2>5, <3>1, ReadStands
    <3> QED BY <2>1, <2>2, <2>4, <3>2 DEF CallInv
  <2>7. Key(c) \notin met => OnTheWay(c)' BY <1>2, <1>9, <2>2, <2>4, NotDone
  <2>8. now \in Doing' /\ analyses' \in [Plans -> Seq(AnalysisType)]
    BY <1>1, <1>3, <1>5, <1>9, <2>2, <2>5, TypesGrow
  <2> QED BY <1>2, <2>3, <2>5, <2>6, <2>7, <2>8, StartStepKeeps
<1>10. CASE StatusOf(s, n) # "COMPLETED" /\ CallGoes(c, "failed") /\ analyses' = analyses
  <2> DEFINE now == [Now(c) EXCEPT !.at = "failed"]
  <2>1. /\ now \in Doing /\ now.at = "failed" /\ now.side = s
        /\ now.saw = Now(c).saw /\ now.run = Now(c).run
    BY <1>3 DEF Doing, CallPlace
  <2>2. Becomes(c, now) BY <1>10 DEF CallGoes
  <2> HIDE DEF now
  <2>3. Now(c)' = now /\ Key(c)' = Key(c) BY <1>1, <2>2, OneCallMoves
  <2>4. Grown(analyses, analyses') /\ Untouched(c, analyses, analyses') BY <1>1, <1>10, SameRuns
  <2>5. CallInv(c)'
    <3>1. \A u \in Sides : now.saw[u] = "COMPLETED" => IsCompleted(u, now.run[u]) BY <1>4, <2>1
    <3>2. (\A u \in Sides : Now(c).saw[u] = "COMPLETED" => IsCompleted(u, Now(c).run[u]))'
      BY <2>3, <2>4, <3>1, ReadStands
    <3> QED BY <1>4, <2>1, <2>3, <3>2 DEF CallInv
  <2>6. Key(c) \notin met => OnTheWay(c)' BY <1>2, <1>10, <2>1, <2>3, NotDone
  <2>7. now \in Doing' /\ analyses' \in [Plans -> Seq(AnalysisType)]
    BY <1>1, <1>3, <1>5, <1>10, <2>1, <2>4, TypesGrow
  <2> QED BY <1>2, <2>2, <2>4, <2>5, <2>6, <2>7, StartStepKeeps
<1> QED BY <1>7, <1>8, <1>9, <1>10 DEF StartSide
\* What both sides were read as, of a call that is ready.
LEMMA BothRead ==
  ASSUME CompareInv, NEW c \in Threads, Ready(c)
  PROVE  \A s \in Sides : IsCompleted(s, Now(c).run[s]) /\ Now(c).run[s] # NoAnalysis
<1> SUFFICES ASSUME NEW s \in Sides PROVE IsCompleted(s, Now(c).run[s]) /\ Now(c).run[s] # NoAnalysis
  OBVIOUS
<1>1. IsCompleted(s, Now(c).run[s]) BY DEF Ready, CompareInv, CallInv
<1>2. DOMAIN analyses[PlanOf(s)] = 1 .. Len(analyses[PlanOf(s)]) BY CallTyped DEF CompareInv
<1> QED BY <1>1, <1>2 DEF IsCompleted, NoAnalysis

\* A call that saves its own comparison: its key was never answered before, or
\* two calls of it were under way together.
LEMMA AppendKeeps ==
  ASSUME CompareInv, NEW c \in Threads, CallAt(c, "save"), Ready(c), KeySaved(c) = {}, SameContent(c) = {},
         saved' = Append(saved, [key |-> Key(c), run |-> Now(c).run]), Got(c, Len(saved) + 1),
         answers' = answers, analyses' = analyses, sagas' = sagas, count' = count, met' = met
  PROVE  CompareInv'
<1> DEFINE k == Key(c)
           N == Len(saved) + 1
           new == [key |-> Key(c), run |-> Now(c).run]
           now == [Now(c) EXCEPT !.at = "saved", !.got = N]
<1>1. CompareTypeOK /\ SavedInv /\ SagaInv /\ MetInv /\ OneInv /\ \A d \in Threads : CallInv(d)
  BY DEF CompareInv
<1>2. /\ k \in Keys /\ Now(c) \in Doing /\ Now(c).run \in RunsOfSides /\ answers[k] \in SUBSET DOMAIN saved
      /\ saved \in Seq([key : Keys, run : RunsOfSides])
  BY <1>1, CallTyped DEF CompareTypeOK
<1>3. /\ N \in Nat /\ Len(saved') = N /\ DOMAIN saved = 1 .. Len(saved) /\ DOMAIN saved' = DOMAIN saved \cup {N}
      /\ saved'[N] = new /\ \A n \in DOMAIN saved : saved'[n] = saved[n] /\ n # N
      /\ N \in DOMAIN saved' /\ Len(saved) <= Len(saved') /\ Len(saved) \in Nat
      /\ saved' \in Seq([key : Keys, run : RunsOfSides])
  <2>1. new \in [key : Keys, run : RunsOfSides] BY <1>2
  <2> HIDE DEF new
  <2>2. saved' = Append(saved, new) BY DEF new
  <2> QED BY <1>2, <2>1, <2>2
<1>4. Grown(analyses, analyses') /\ Untouched(c, analyses, analyses') BY <1>1, SameRuns
<1>5. RunsOfSides' = RunsOfSides /\ Doing \subseteq Doing' /\ SagaRow \subseteq SagaRow'
  <2>1. RunsOfSides' = RunsOfSides BY DEF RunsOfSides, PlanOf
  <2>2. Doing \subseteq Doing' BY <1>1, <1>3, <1>4, TypesGrow
  <2>3. 0 .. Len(saved) \subseteq 0 .. Len(saved') BY <1>3
  <2> QED BY <2>1, <2>2, <2>3 DEF SagaRow
<1>6. /\ now \in Doing' /\ now.at = "saved" /\ now.got = N /\ now.run = Now(c).run
      /\ now.saw = Now(c).saw /\ now.side = Now(c).side
  <2>1. now.got \in 0 .. Len(saved') BY <1>2, <1>3 DEF Doing
  <2>2. now.at \in CallPlace BY <1>2 DEF Doing, CallPlace
  <2> QED BY <1>2, <1>5, <2>1, <2>2 DEF Doing
<1>7. Becomes(c, now) BY DEF Got
<1> HIDE DEF now, N, new
<1>8. /\ Now(c)' = now /\ Key(c)' = k
      /\ \A d \in Threads \ {c} : call'[d] = call[d] /\ Now(d)' = Now(d) /\ Key(d)' = Key(d)
      /\ call' \in [Threads -> [key : Keys, now : Doing']]
  BY <1>1, <1>5, <1>6, <1>7, OneCallMoves
<1>9. \A s \in Sides : IsCompleted(s, Now(c).run[s]) BY BothRead
<1>10. CompareTypeOK'
  <2>1. saved' \in Seq([key : Keys, run : RunsOfSides']) BY <1>3, <1>5
  <2>2. sagas' \in [Keys -> SagaRow'] BY <1>1, <1>5 DEF CompareTypeOK
  <2>3. answers' \in [Keys -> SUBSET DOMAIN saved'] BY <1>1, <1>3 DEF CompareTypeOK
  <2> QED BY <1>1, <1>8, <2>1, <2>2, <2>3 DEF CompareTypeOK
<1>11. \A d \in Threads : CallInv(d)'
  <2>1. ASSUME NEW d \in Threads, d # c PROVE CallInv(d)'
    <3>1. \A n \in DOMAIN saved : n \in DOMAIN saved' /\ saved'[n] = saved[n] BY <1>3
    <3> QED BY <1>1, <1>4, <1>8, <2>1, <3>1, OtherCalls
  <2>2. CallInv(c)'
    <3>1. (\A s \in Sides : Now(c).saw[s] = "COMPLETED" => IsCompleted(s, Now(c).run[s]))'
      <4>1. \A s \in Sides : now.saw[s] = "COMPLETED" => IsCompleted(s, now.run[s]) BY <1>6, <1>9
      <4> QED BY <1>4, <1>8, <4>1, ReadStands
    <3>2. now.side = "before" => now.saw["after"] = "NONE" BY <1>1, <1>6 DEF CallInv
    <3>3. Ready(c)' BY <1>6, <1>8 DEF Ready
    <3>4. saved'[now.got].key = k /\ now.got \in DOMAIN saved' BY <1>3, <1>6 DEF new
    <3> QED BY <1>6, <1>8, <3>1, <3>2, <3>3, <3>4 DEF CallInv
  <2> QED BY <2>1, <2>2
<1>12. SavedInv'
  <2>1. ASSUME NEW n \in DOMAIN saved', NEW s \in Sides PROVE IsCompleted(s, saved'[n].run[s])
    <3>1. CASE n \in DOMAIN saved BY <3>1, <1>1, <1>3 DEF SavedInv
    <3>2. CASE n = N BY <3>2, <1>3, <1>9 DEF new
    <3> QED BY <3>1, <3>2, <1>3
  <2>2. \A n \in DOMAIN saved : saved'[n].key # k /\ saved'[n].run # Now(c).run
    BY <1>3 DEF KeySaved, SavedFor, SameContent
  <2>3. \A n, m \in DOMAIN saved' :
          saved'[n].key = saved'[m].key \/ saved'[n].run = saved'[m].run => n = m
    BY <1>1, <1>3, <2>2 DEF SavedInv, new
  <2> QED BY <2>1, <2>3 DEF SavedInv, IsCompleted, PlanOf
<1>13. SagaInv' BY <1>1 DEF SagaInv
<1>14. \A d \in Threads : ~CallAt(d, "idle")' => ~CallAt(d, "idle") /\ Key(d)' = Key(d)
  BY <1>8 DEF CallAt
<1>15. MetInv' BY <1>1, <1>14 DEF MetInv
<1>16. k \notin met => answers[k] = {}
  <2> SUFFICES ASSUME k \notin met, answers[k] # {} PROVE FALSE
    OBVIOUS
  <2>1. SavedFor(k) = {} BY DEF KeySaved
  <2>2. OnTheWay(c) BY <1>1 DEF OneInv, CallAt
  <2>3. Now(c).run = sagas[k].run BY <2>1, <2>2 DEF OnTheWay, CallAt
  <2>4. sagas[k].comparison \in DOMAIN saved /\ saved[sagas[k].comparison].run = sagas[k].run
    BY <1>2, <2>1, Settled
  <2> QED BY <2>3, <2>4 DEF SameContent
<1>17. \A l \in Keys \ {k} : SavedFor(l)' = SavedFor(l) BY <1>3 DEF SavedFor, new
<1>18. ASSUME NEW l \in Keys \ met, NEW n \in answers'[l] PROVE Answered(l, n)'
  <2>1. l # k BY <1>16, <1>18
  <2>2. Answered(l, n) /\ n \in DOMAIN saved BY <1>1, <1>18 DEF OneInv, CompareTypeOK
  <2> QED BY <1>3, <1>17, <2>1, <2>2 DEF Answered
<1>19. ASSUME NEW d \in Threads, ~CallAt(d, "idle")', Key(d)' \notin met PROVE OnTheWay(d)'
  <2>1. CASE d = c
    <3>1. saved'[Now(c)'.got].key = Key(c)' BY <1>3, <1>6, <1>8 DEF new
    <3>2. N \in SavedFor(Key(c))' BY <1>3, <1>8 DEF SavedFor, new
    <3> QED BY <2>1, <3>1, <3>2 DEF OnTheWay
  <2>2. CASE d # c
    <3>1. ~CallAt(d, "idle") /\ Key(d)' = Key(d) /\ Now(d)' = Now(d) BY <2>2, <1>8, <1>14, <1>19
    <3>2. Key(d) # k BY <2>2, <3>1, <1>1, <1>19 DEF MetInv, CallAt
    <3>3. OnTheWay(d) /\ CallInv(d) BY <3>1, <1>1, <1>19 DEF OneInv
    <3>4. Key(d) \in Keys BY <1>1 DEF CompareTypeOK, Key
    <3>5. SavedFor(Key(d))' = SavedFor(Key(d)) BY <3>1, <3>2, <3>4, <1>17 DEF SavedFor
    <3>6. Now(d).at = "saved" => saved'[Now(d).got] = saved[Now(d).got] BY <3>3, <1>3 DEF CallInv
    <3> QED BY <3>1, <3>3, <3>5, <3>6 DEF OnTheWay
  <2> QED BY <2>1, <2>2
<1>20. OneInv' BY <1>18, <1>19 DEF OneInv
<1> QED BY <1>10, <1>11, <1>12, <1>13, <1>15, <1>20 DEF CompareInv

LEMMA SaveKeeps == ASSUME CompareInv, NEW c \in Threads, Save(c) PROVE CompareInv'
<1>1. CompareTypeOK /\ CallInv(c) /\ SavedInv BY DEF CompareInv
<1>2. /\ analyses' = analyses /\ sagas' = sagas /\ count' = count /\ met' = met
      /\ CallAt(c, "save") /\ ~CallAt(c, "idle")
  BY DEF Save, CallAt
<1>3. sagas' = [sagas EXCEPT ![Key(c)] = sagas[Key(c)]] /\ sagas[Key(c)] \in SagaRow
      /\ Now(c) \in Doing
  BY <1>1, <1>2, CallTyped
<1>4. Key(c) \notin met => OnTheWay(c) BY <1>2 DEF CompareInv, OneInv
<1>5. CASE ~Ready(c) /\ Refuse(c) /\ saved' = saved BY <1>2, <1>5, RefusalKeeps
<1>6. ASSUME NEW n, n \in DOMAIN saved, Ready(c), Got(c, n), saved' = saved, answers' = answers,
             \/ n \in KeySaved(c)
             \/ KeySaved(c) = {} /\ n \in SameContent(c)
      PROVE  CompareInv'
  <2> DEFINE now == [Now(c) EXCEPT !.at = "saved", !.got = n]
  <2>1. /\ now \in Doing /\ now.at = "saved" /\ now.got = n /\ now.run = Now(c).run
        /\ now.saw = Now(c).saw /\ now.side = Now(c).side
    <3>1. n \in 0 .. Len(saved) BY <1>1, <1>6 DEF CompareTypeOK
    <3> QED BY <1>3, <3>1 DEF Doing, CallPlace
  <2>2. Becomes(c, now) BY <1>6 DEF Got
  <2> HIDE DEF now
  <2>3. Now(c)' = now /\ Key(c)' = Key(c) BY <1>1, <2>2, OneCallMoves
  <2>4. CallInv(c)'
    <3>1. \A s \in Sides : now.saw[s] = "COMPLETED" => IsCompleted(s, now.run[s])
      BY <1>1, <2>1 DEF CallInv
    <3>2. (\A s \in Sides : Now(c).saw[s] = "COMPLETED" => IsCompleted(s, Now(c).run[s]))'
      BY <1>1, <1>2, <2>3, <3>1, SameRuns, ReadStands
    <3>3. now.side = "before" => now.saw["after"] = "NONE" BY <1>1, <2>1 DEF CallInv
    <3>4. Ready(c)' BY <1>6, <2>1, <2>3 DEF Ready
    <3>5. saved[n].key = Key(c) \/ saved[n].run = Now(c).run
      BY <1>6 DEF KeySaved, SavedFor, SameContent
    <3> QED BY <1>6, <2>1, <2>3, <3>2, <3>3, <3>4, <3>5 DEF CallInv
  <2>5. Key(c) \notin met => OnTheWay(c)'
    <3> SUFFICES ASSUME Key(c) \notin met PROVE OnTheWay(c)'
      OBVIOUS
    <3>1. SavedFor(Key(c))' = SavedFor(Key(c)) BY <1>6, <2>3 DEF SavedFor
    <3>2. CASE n \in KeySaved(c) BY <3>1, <3>2, <1>6, <2>1, <2>3 DEF KeySaved, SavedFor, OnTheWay
    <3>3. CASE KeySaved(c) = {} /\ n \in SameContent(c)
      <4>1. SavedFor(Key(c)) = {} BY <3>3 DEF KeySaved
      <4>2. CASE answers[Key(c)] = {} BY <3>1, <4>1, <4>2, <1>6, <2>3 DEF OnTheWay
      <4>3. CASE answers[Key(c)] # {}
        <5>1. Now(c).run = sagas[Key(c)].run BY <4>1, <4>3, <1>2, <1>4 DEF OnTheWay, CallAt
        <5>2. /\ sagas[Key(c)].comparison \in DOMAIN saved
              /\ saved[sagas[Key(c)].comparison].run = sagas[Key(c)].run
          BY <1>1, <4>1, <4>3, CallTyped, Settled
        <5>3. n = sagas[Key(c)].comparison
          BY <1>1, <1>6, <3>3, <5>1, <5>2 DEF SavedInv, SameContent
        <5> QED BY <3>1, <4>1, <5>1, <5>3, <1>2, <2>1, <2>3 DEF OnTheWay
      <4> QED BY <4>2, <4>3
    <3> QED BY <3>2, <3>3, <1>6
  <2> QED BY <1>2, <1>3, <1>6, <2>1, <2>2, <2>4, <2>5, QuietStepOnSameRuns
<1>7. CASE CallGoes(c, "broken") /\ saved' = saved /\ answers' = answers
  <2> DEFINE now == [Now(c) EXCEPT !.at = "broken"]
  <2>1. /\ now \in Doing /\ now.at = "broken" /\ now.run = Now(c).run
        /\ now.saw = Now(c).saw /\ now.side = Now(c).side
    BY <1>3 DEF Doing, CallPlace
  <2>2. Becomes(c, now) BY <1>7 DEF CallGoes
  <2> HIDE DEF now
  <2>3. Now(c)' = now /\ Key(c)' = Key(c) BY <1>1, <2>2, OneCallMoves
  <2>4. CallInv(c)'
    <3>1. \A s \in Sides : now.saw[s] = "COMPLETED" => IsCompleted(s, now.run[s])
      BY <1>1, <2>1 DEF CallInv
    <3>2. (\A s \in Sides : Now(c).saw[s] = "COMPLETED" => IsCompleted(s, Now(c).run[s]))'
      BY <1>1, <1>2, <2>3, <3>1, SameRuns, ReadStands
    <3>3. now.side = "before" => now.saw["after"] = "NONE" BY <1>1, <2>1 DEF CallInv
    <3> QED BY <2>1, <2>3, <3>2, <3>3 DEF CallInv
  <2>5. Key(c) \notin met => OnTheWay(c)'
    <3>1. SavedFor(Key(c))' = SavedFor(Key(c)) BY <1>7, <2>3 DEF SavedFor
    <3> QED BY <1>2, <1>4, <1>7, <2>1, <2>3, <3>1 DEF OnTheWay, CallAt
  <2> QED BY <1>2, <1>3, <1>7, <2>1, <2>2, <2>4, <2>5, QuietStepOnSameRuns
<1>8. CASE /\ Ready(c) /\ KeySaved(c) # {} /\ \E n \in KeySaved(c) : Got(c, n)
           /\ saved' = saved /\ answers' = answers
  <2>1. \A n \in KeySaved(c) : n \in DOMAIN saved BY DEF KeySaved, SavedFor
  <2> QED BY <1>6, <1>8, <2>1
<1>9. CASE /\ Ready(c) /\ KeySaved(c) = {} /\ \E n \in SameContent(c) : Got(c, n)
           /\ saved' = saved /\ answers' = answers
  <2>1. \A n \in SameContent(c) : n \in DOMAIN saved BY DEF SameContent
  <2> QED BY <1>6, <1>9, <2>1
<1>10. CASE /\ Ready(c) /\ KeySaved(c) = {} /\ SameContent(c) = {} /\ answers' = answers
            /\ saved' = Append(saved, [key |-> Key(c), run |-> Now(c).run]) /\ Got(c, NextNumber)
  BY <1>2, <1>10, AppendKeeps DEF NextNumber
<1> QED BY <1>5, <1>7, <1>8, <1>9, <1>10 DEF Save

LEMMA CompleteKeeps == ASSUME CompareInv, NEW c \in Threads, Complete(c) PROVE CompareInv'
<1> DEFINE k == Key(c)
           old == sagas[k]
           got == Now(c).got
           saga == Updated(old, "COMPARISON_COMPLETED", Now(c).run, got)
           told == answers[k] \cup {got}
<1>1. CompareTypeOK /\ CallInv(c) /\ SavedInv /\ SagaInv BY DEF CompareInv
<1>2. /\ analyses' = analyses /\ saved' = saved /\ count' = count /\ met' = met
      /\ CallAt(c, "saved") /\ ~CallAt(c, "idle") /\ Becomes(c, Idle)
      /\ sagas' = [sagas EXCEPT ![k] = saga] /\ answers' = [answers EXCEPT ![k] = told]
  BY DEF Complete, CallAt, UpdateSaga, Answer
<1>3. /\ Ready(c) /\ got \in DOMAIN saved /\ got # 0
      /\ saved[got].run = Now(c).run \/ saved[got].key = k
  <2>1. Ready(c) /\ got \in DOMAIN saved /\ (saved[got].run = Now(c).run \/ saved[got].key = k)
    BY <1>1, <1>2 DEF CallInv, CallAt
  <2>2. DOMAIN saved = 1 .. Len(saved) BY <1>1 DEF CompareTypeOK
  <2> QED BY <2>1, <2>2
<1>4. /\ k \in Keys /\ old \in SagaRow /\ Now(c).run \in RunsOfSides /\ got \in 0 .. Len(saved)
      /\ answers[k] \in SUBSET DOMAIN saved /\ analyses' \in [Plans -> Seq(AnalysisType)]
  BY <1>1, <1>2, CallTyped
<1>5. /\ saga \in SagaRow /\ saga.status = "COMPARISON_COMPLETED"
      /\ old.status = "COMPARISON_COMPLETED" => saga = old
      /\ old.status # "COMPARISON_COMPLETED" => saga.run = Now(c).run /\ saga.comparison = got
  <2>1. CASE old.status = "COMPARISON_COMPLETED" BY <2>1, <1>4 DEF Updated
  <2>2. CASE old.status # "COMPARISON_COMPLETED"
    <3> DEFINE both == [s \in Sides |-> IF Now(c).run[s] # NoAnalysis THEN Now(c).run[s] ELSE old.run[s]]
    <3>1. both = Now(c).run
      <4>1. \A s \in Sides : Now(c).run[s] # NoAnalysis BY <1>3, BothRead
      <4>2. Now(c).run \in [Sides -> Nat] BY <1>4 DEF RunsOfSides
      <4> QED BY <4>1, <4>2
    <3>2. saga = [status |-> "COMPARISON_COMPLETED", run |-> both, comparison |-> got]
      BY <2>2, <1>3 DEF Updated
    <3> HIDE DEF both, saga
    <3> QED BY <2>2, <3>1, <3>2, <1>4 DEF SagaRow, SagaStatus
  <2> QED BY <2>1, <2>2
<1>6. sagas'[k] = saga /\ answers'[k] = told BY <1>1, <1>2, <1>4 DEF CompareTypeOK
<1>7. saga.comparison \in told BY <1>1, <1>4, <1>5 DEF SagaInv
<1> HIDE DEF saga
<1>8. Key(c)' = k /\ CallInv(c)' BY <1>1, <1>2, OneCallMoves, IdleCall
<1>9. Grown(analyses, analyses') /\ Untouched(c, analyses, analyses') BY <1>1, <1>2, SameRuns
<1>10. Idle \in Doing' /\ SagaRow \subseteq SagaRow'
  <2>1. Len(saved) <= Len(saved') BY <1>1, <1>2 DEF CompareTypeOK
  <2>2. RunsOfSides \subseteq RunsOfSides' /\ Doing \subseteq Doing' BY <1>1, <1>9, <2>1, TypesGrow
  <2> QED BY <1>1, <1>2, <2>2, NoAnalysesTyped DEF SagaRow
<1>11. ASSUME k \notin met, NEW n \in told PROVE Answered(k, n)'
  <2>1. OnTheWay(c) /\ \A m \in answers[k] : Answered(k, m) BY <1>2, <1>4, <1>11 DEF CompareInv, OneInv
  <2>2. SavedFor(k)' = SavedFor(k) BY <1>2, <1>8 DEF SavedFor
  <2>3. CASE SavedFor(k) # {}
    <3>1. saved[got].key = k BY <1>2, <2>1, <2>3 DEF OnTheWay, CallAt
    <3>2. got \in SavedFor(k) BY <1>3, <3>1 DEF SavedFor
    <3>3. n \in SavedFor(k) BY <1>11, <2>1, <2>3, <3>2 DEF Answered
    <3> QED BY <2>2, <3>3, <1>8 DEF Answered
  <2>4. CASE SavedFor(k) = {}
    <3>1. saved[got].run = Now(c).run BY <2>4, <1>3 DEF SavedFor
    <3>2. CASE old.status # "COMPARISON_COMPLETED"
      <4>1. answers[k] = {} BY <2>1, <2>4, <3>2 DEF Answered
      <4>2. n = got BY <4>1, <1>11
      <4> QED BY <1>2, <1>5, <1>6, <1>8, <2>2, <2>4, <3>1, <3>2, <4>2 DEF Answered
    <3>3. CASE old.status = "COMPARISON_COMPLETED"
      <4>1. answers[k] # {} BY <1>1, <1>4, <3>3 DEF SagaInv
      <4>2. got = old.comparison BY <1>2, <2>1, <2>4, <4>1 DEF OnTheWay, CallAt
      <4>3. saved[old.comparison].run = old.run BY <1>4, <1>11, <2>4, <4>1, Settled
      <4>4. n = old.comparison BY <1>11, <2>1, <2>4, <4>2 DEF Answered
      <4> QED BY <1>2, <1>5, <1>6, <1>8, <2>2, <2>4, <3>3, <4>3, <4>4 DEF Answered
    <3> QED BY <3>2, <3>3
  <2> QED BY <2>3, <2>4
<1>12. /\ \E row \in SagaRow' : sagas' = [sagas EXCEPT ![k] = row]
       /\ \E t \in SUBSET DOMAIN saved : answers' = [answers EXCEPT ![k] = t]
  <2>1. saga \in SagaRow' /\ told \in SUBSET DOMAIN saved BY <1>3, <1>4, <1>5, <1>10
  <2> QED BY <1>2, <2>1
<1>13. sagas'[k].status = "COMPARISON_COMPLETED" => sagas'[k].comparison \in answers'[k]
  BY <1>6, <1>7
<1>14. k \notin met => /\ \A n \in answers'[k] : Answered(k, n)'
                       /\ Idle.at # "idle" => OnTheWay(c)'
  BY <1>6, <1>11 DEF Idle
<1> HIDE DEF Idle
<1> QED BY <1>2, <1>4, <1>8, <1>9, <1>10, <1>12, <1>13, <1>14, StepKeeps
\* A call that is made meets those of its key that are under way.
LEMMA AskKeeps == ASSUME CompareInv, NEW c \in Threads, NEW k \in Keys, Ask(c, k) PROVE CompareInv'
<1> DEFINE now == [Idle EXCEPT !.at = "lookup"]
<1>1. CompareTypeOK /\ SavedInv /\ SagaInv /\ MetInv /\ OneInv /\ \A d \in Threads : CallInv(d)
  BY DEF CompareInv
<1>2. /\ analyses' = analyses /\ sagas' = sagas /\ saved' = saved /\ answers' = answers
      /\ CallAt(c, "idle") /\ call' = [call EXCEPT ![c] = [key |-> k, now |-> now]]
      /\ met' = met \cup {k : d \in {d \in Threads : ~CallAt(d, "idle") /\ Key(d) = k}}
      /\ count.calls < MaxAsked /\ count' = [count EXCEPT !.calls = @ + 1]
  BY DEF Ask
<1>3. /\ now \in Doing /\ now.at = "lookup" /\ now.side = "before"
      /\ now.saw = [s \in Sides |-> "NONE"]
  BY <1>1, NoAnalysesTyped DEF Idle, Doing, CallPlace
<1> HIDE DEF now
<1>4. /\ Now(c)' = now /\ Key(c)' = k
      /\ \A d \in Threads \ {c} : call'[d] = call[d] /\ Now(d)' = Now(d) /\ Key(d)' = Key(d)
  BY <1>1, <1>2 DEF CompareTypeOK, Now, Key
<1>5. Grown(analyses, analyses') /\ \A d : Untouched(d, analyses, analyses') BY <1>1, <1>2, SameRuns
<1>6. RunsOfSides' = RunsOfSides /\ Doing' = Doing /\ SagaRow' = SagaRow
  BY <1>2 DEF RunsOfSides, Doing, SagaRow, PlanOf
<1>7. CompareTypeOK'
  <2>1. count' \in [calls : 0 .. MaxAsked, restarts : 0 .. MaxServiceRestarts]
    BY <1>1, <1>2, ComparisonBounds DEF CompareTypeOK
  <2>2. met' \subseteq Keys BY <1>1, <1>2 DEF CompareTypeOK
  <2>3. call' \in [Threads -> [key : Keys, now : Doing]] BY <1>1, <1>2, <1>3 DEF CompareTypeOK
  <2> QED BY <1>1, <1>2, <1>6, <2>1, <2>2, <2>3 DEF CompareTypeOK
<1>8. \A d \in Threads : CallInv(d)'
  <2>1. ASSUME NEW d \in Threads, d # c PROVE CallInv(d)'
    BY <1>1, <1>2, <1>4, <1>5, <2>1, OtherCalls
  <2>2. CallInv(c)' BY <1>3, <1>4 DEF CallInv, Sides
  <2> QED BY <2>1, <2>2
<1>9. SavedInv' /\ SagaInv' BY <1>1, <1>2, <1>5, SavedStands DEF SagaInv
<1>10. met \subseteq met' BY <1>2
<1>11. MetInv'
  <2> SUFFICES ASSUME NEW d \in Threads, NEW e \in Threads, ~CallAt(d, "idle")', ~CallAt(e, "idle")',
                      Key(d)' = Key(e)', d # e
               PROVE  Key(d)' \in met'
    BY DEF MetInv
  <2>1. CASE d # c /\ e # c
    <3>1. ~CallAt(d, "idle") /\ ~CallAt(e, "idle") /\ Key(d) = Key(e) /\ Key(d)' = Key(d)
      BY <2>1, <1>4 DEF CallAt
    <3> QED BY <3>1, <1>1, <1>10 DEF MetInv
  <2>2. CASE d = c
    <3>1. ~CallAt(e, "idle") /\ Key(e) = k BY <2>2, <1>4 DEF CallAt
    <3> QED BY <2>2, <3>1, <1>2, <1>4
  <2>3. CASE e = c
    <3>1. ~CallAt(d, "idle") /\ Key(d) = k BY <2>3, <1>4 DEF CallAt
    <3> QED BY <2>3, <3>1, <1>2, <1>4
  <2> QED BY <2>1, <2>2, <2>3
<1>12. OneInv'
  <2>1. ASSUME NEW l \in Keys \ met', NEW n \in answers'[l] PROVE Answered(l, n)'
    BY <1>1, <1>2, <1>10, <2>1 DEF OneInv, Answered, SavedFor
  <2>2. ASSUME NEW d \in Threads, ~CallAt(d, "idle")', Key(d)' \notin met' PROVE OnTheWay(d)'
    <3>1. CASE d = c BY <3>1, <1>3, <1>4 DEF OnTheWay
    <3>2. CASE d # c
      <4>1. ~CallAt(d, "idle") /\ Key(d)' = Key(d) /\ Now(d)' = Now(d) BY <3>2, <1>4, <2>2 DEF CallAt
      <4>2. OnTheWay(d) BY <4>1, <1>1, <1>10, <2>2 DEF OneInv
      <4>3. SavedFor(Key(d))' = SavedFor(Key(d)) BY <1>2, <4>1 DEF SavedFor
      <4> QED BY <1>2, <4>1, <4>2, <4>3 DEF OnTheWay
    <3> QED BY <3>1, <3>2
  <2> QED BY <2>1, <2>2 DEF OneInv
<1> QED BY <1>7, <1>8, <1>9, <1>11, <1>12 DEF CompareInv

\* Steps that move analyses only, whoever's.
LEMMA RunsMove ==
  ASSUME CompareInv, analyses' \in [Plans -> Seq(AnalysisType)], Grown(analyses, analyses'),
         sagas' = sagas, saved' = saved, answers' = answers, met' = met,
         count' \in [calls : 0 .. MaxAsked, restarts : 0 .. MaxServiceRestarts],
         \/ call' = call /\ Untouched(Others, analyses, analyses')
         \/ call' = [c \in Threads |-> [call[c] EXCEPT !.now = Idle]]
  PROVE  CompareInv'
<1>1. CompareTypeOK /\ SavedInv /\ SagaInv /\ MetInv /\ OneInv /\ \A d \in Threads : CallInv(d)
  BY DEF CompareInv
<1>2. RunsOfSides \subseteq RunsOfSides' /\ Doing \subseteq Doing' /\ SagaRow \subseteq SagaRow'
  <2>1. Len(saved) <= Len(saved') BY <1>1 DEF CompareTypeOK
  <2>2. RunsOfSides \subseteq RunsOfSides' /\ Doing \subseteq Doing' BY <1>1, <2>1, TypesGrow
  <2> QED BY <2>2 DEF SagaRow
<1>3. ASSUME NEW d \in Threads
      PROVE  /\ Key(d)' = Key(d) /\ call'[d] \in [key : Keys, now : Doing]
             /\ Now(d)' = Now(d) \/ Now(d)' = Idle
  BY <1>1, NoAnalysesTyped DEF Key, Now, CompareTypeOK
<1>4. CompareTypeOK'
  <2>1. saved' \in Seq([key : Keys, run : RunsOfSides'])
    <3>1. [key : Keys, run : RunsOfSides] \subseteq [key : Keys, run : RunsOfSides'] BY <1>2
    <3> QED BY <1>1, <3>1, SeqOfMore DEF CompareTypeOK
  <2>2. call' \in [Threads -> [key : Keys, now : Doing']]
    <3>1. DOMAIN call' = Threads /\ call' = [c \in Threads |-> call'[c]] BY <1>1 DEF CompareTypeOK
    <3> QED BY <1>2, <1>3, <3>1
  <2>3. sagas' \in [Keys -> SagaRow'] BY <1>1, <1>2 DEF CompareTypeOK
  <2> QED BY <1>1, <2>1, <2>2, <2>3 DEF CompareTypeOK, AnalysisType
<1>5. \A d \in Threads : CallInv(d)'
  <2>1. CASE call' = call /\ Untouched(Others, analyses, analyses')
    <3>1. ASSUME NEW d \in Threads PROVE CallInv(d)'
      <4>1. d # Others BY OthersAssumption
      <4>2. \A n \in DOMAIN saved : n \in DOMAIN saved' /\ saved'[n] = saved[n] OBVIOUS
      <4>3. call'[d] = call[d] BY <2>1
      <4> QED BY <1>1, <2>1, <4>1, <4>2, <4>3, OtherCalls
    <3> QED BY <3>1
  <2>2. CASE call' = [c \in Threads |-> [call[c] EXCEPT !.now = Idle]]
    <3>1. ASSUME NEW d \in Threads PROVE CallInv(d)'
      <4>1. Now(d)' = Idle BY <1>1, <2>2 DEF Now, CompareTypeOK
      <4> QED BY <4>1, IdleCall
    <3> QED BY <3>1
  <2> QED BY <2>1, <2>2
<1>6. SavedInv' /\ SagaInv' BY <1>1, SavedStands DEF SagaInv
<1>7. \A d \in Threads : ~CallAt(d, "idle")' => ~CallAt(d, "idle") /\ Now(d)' = Now(d) /\ Key(d)' = Key(d)
  BY <1>3 DEF CallAt, Idle
<1>8. MetInv' BY <1>1, <1>7 DEF MetInv
<1>9. OneInv'
  <2>1. ASSUME NEW l \in Keys \ met', NEW n \in answers'[l] PROVE Answered(l, n)'
    BY <1>1, <2>1 DEF OneInv, Answered, SavedFor
  <2>2. ASSUME NEW d \in Threads, ~CallAt(d, "idle")', Key(d)' \notin met' PROVE OnTheWay(d)'
    <3>1. ~CallAt(d, "idle") /\ Key(d)' = Key(d) /\ Now(d)' = Now(d) BY <1>7, <2>2
    <3>2. OnTheWay(d) BY <3>1, <1>1, <2>2 DEF OneInv
    <3>3. SavedFor(Key(d))' = SavedFor(Key(d)) BY <3>1 DEF SavedFor
    <3> QED BY <3>1, <3>2, <3>3 DEF OnTheWay
  <2> QED BY <2>1, <2>2 DEF OneInv
<1> QED BY <1>4, <1>5, <1>6, <1>8, <1>9 DEF CompareInv

LEMMA RetryRunKeeps == ASSUME CompareInv, NEW p \in Plans, RetryRun(p) PROVE CompareInv'
<1> DEFINE new == [status |-> "RUNNING", by |-> Others]
<1>1. analyses \in [Plans -> Seq(AnalysisType)] /\ count \in [calls : 0 .. MaxAsked, restarts : 0 .. MaxServiceRestarts]
  BY DEF CompareInv, CompareTypeOK, AnalysisType
<1>2. new \in AnalysisType BY DEF AnalysisType, AnalysisStatus
<1> HIDE DEF new
<1>3. analyses' = [analyses EXCEPT ![p] = Append(analyses[p], new)] BY DEF RetryRun, new
<1>4. analyses' \in [Plans -> Seq(AnalysisType)] BY <1>1, <1>2, <1>3
<1>5. Grown(analyses, analyses') /\ Untouched(Others, analyses, analyses')
  <2> SUFFICES ASSUME NEW q \in Plans
               PROVE  /\ Len(analyses[q]) <= Len(analyses'[q])
                      /\ \A m \in DOMAIN analyses[q] : m \in DOMAIN analyses'[q] /\ analyses'[q][m] = analyses[q][m]
    BY DEF Grown, Untouched
  <2>1. analyses[q] \in Seq(AnalysisType) /\ Len(analyses[q]) \in Nat BY <1>1
  <2>2. analyses'[q] = analyses[q] \/ analyses'[q] = Append(analyses[q], new) BY <1>1, <1>3
  <2> QED BY <1>2, <2>1, <2>2
<1> QED BY <1>1, <1>4, <1>5, RunsMove DEF RetryRun

\* An analysis of somebody else ends: no call computes it.
LEMMA EndRunKeeps == ASSUME CompareInv, NEW p \in Plans, EndRun(p) PROVE CompareInv'
<1>1. analyses \in [Plans -> Seq(AnalysisType)] /\ count \in [calls : 0 .. MaxAsked, restarts : 0 .. MaxServiceRestarts]
  BY DEF CompareInv, CompareTypeOK, AnalysisType
<1>2. PICK n \in DOMAIN analyses[p], r \in {"COMPLETED", "FAILED"} :
        /\ analyses[p][n] = [status |-> "RUNNING", by |-> Others]
        /\ analyses' = [analyses EXCEPT ![p][n].status = r]
  BY DEF EndRun
<1> DEFINE v == [status |-> r, by |-> Others]
<1>3. v \in AnalysisType BY DEF AnalysisType, AnalysisStatus
<1>4. analyses' = [analyses EXCEPT ![p] = [analyses[p] EXCEPT ![n] = v]]
  <2>1. [analyses[p][n] EXCEPT !.status = r] = v BY <1>2
  <2>2. analyses' = [analyses EXCEPT ![p] = [analyses[p] EXCEPT ![n] = [analyses[p][n] EXCEPT !.status = r]]]
    BY <1>2
  <2> QED BY <2>1, <2>2
<1> HIDE DEF v
<1>5. /\ analyses'[p] = [analyses[p] EXCEPT ![n] = v] /\ \A q \in Plans \ {p} : analyses'[q] = analyses[q]
      /\ analyses[p] \in Seq(AnalysisType)
  BY <1>1, <1>4
<1>6. /\ analyses'[p] \in Seq(AnalysisType) /\ Len(analyses'[p]) = Len(analyses[p]) /\ DOMAIN analyses'[p] = DOMAIN analyses[p]
      /\ \A m \in DOMAIN analyses[p] \ {n} : analyses'[p][m] = analyses[p][m]
  BY <1>2, <1>3, <1>5
<1>7. analyses' \in [Plans -> Seq(AnalysisType)] BY <1>1, <1>4, <1>5, <1>6
<1>8. Grown(analyses, analyses') /\ Untouched(Others, analyses, analyses')
  <2> SUFFICES ASSUME NEW q \in Plans
               PROVE  /\ Len(analyses[q]) <= Len(analyses'[q])
                      /\ \A m \in DOMAIN analyses[q] :
                           /\ m \in DOMAIN analyses'[q]
                           /\ analyses[q][m].status = "COMPLETED" => analyses'[q][m].status = "COMPLETED"
                           /\ analyses[q][m].by \in Threads \ {Others} => analyses'[q][m] = analyses[q][m]
    BY DEF Grown, Untouched
  <2>1. Len(analyses[q]) \in Nat BY <1>1
  <2>2. CASE q # p BY <2>1, <2>2, <1>5
  <2>3. CASE q = p
    <3>1. Len(analyses[q]) <= Len(analyses'[q]) /\ DOMAIN analyses'[q] = DOMAIN analyses[q] BY <2>1, <2>3, <1>6
    <3>2. analyses[q][n].status = "RUNNING" /\ analyses[q][n].by = Others BY <2>3, <1>2
    <3> QED BY <3>1, <3>2, <2>3, <1>6
  <2> QED BY <2>2, <2>3
<1> QED BY <1>1, <1>7, <1>8, RunsMove DEF EndRun

LEMMA ServiceRestartKeeps == ASSUME CompareInv, ServiceRestart PROVE CompareInv'
<1>1. analyses \in [Plans -> Seq(AnalysisType)] /\ count \in [calls : 0 .. MaxAsked, restarts : 0 .. MaxServiceRestarts]
  BY DEF CompareInv, CompareTypeOK, AnalysisType
<1>2. /\ analyses' = [p \in Plans |-> [n \in DOMAIN analyses[p] |->
                    [analyses[p][n] EXCEPT !.status = IF @ = "RUNNING" THEN "INTERRUPTED" ELSE @]]]
      /\ call' = [c \in Threads |-> [call[c] EXCEPT !.now = Idle]]
      /\ count' \in [calls : 0 .. MaxAsked, restarts : 0 .. MaxServiceRestarts]
      /\ sagas' = sagas /\ saved' = saved /\ answers' = answers /\ met' = met
  BY <1>1, ComparisonBounds DEF ServiceRestart
<1>3. ASSUME NEW p \in Plans
      PROVE  /\ analyses'[p] \in Seq(AnalysisType) /\ Len(analyses[p]) <= Len(analyses'[p])
             /\ \A n \in DOMAIN analyses[p] :
                  /\ n \in DOMAIN analyses'[p]
                  /\ analyses[p][n].status = "COMPLETED" => analyses'[p][n].status = "COMPLETED"
  <2> DEFINE q == analyses[p]
             f(x) == [x EXCEPT !.status = IF @ = "RUNNING" THEN "INTERRUPTED" ELSE @]
  <2>1. q \in Seq(AnalysisType) /\ Len(q) \in Nat /\ DOMAIN q = 1 .. Len(q) BY <1>1
  <2>2. \A x \in AnalysisType : f(x) \in AnalysisType /\ (x.status = "COMPLETED" => f(x).status = "COMPLETED")
    BY DEF AnalysisType, AnalysisStatus
  <2>3. analyses'[p] = [n \in 1 .. Len(q) |-> f(q[n])] BY <1>2, <2>1
  <2> HIDE DEF q, f
  <2>4. \A n \in 1 .. Len(q) : q[n] \in AnalysisType BY <2>1
  <2>5. analyses'[p] \in Seq(AnalysisType) /\ Len(analyses'[p]) = Len(q) /\ DOMAIN analyses'[p] = 1 .. Len(q)
    <3>1. analyses'[p] \in [1 .. Len(q) -> AnalysisType] BY <2>2, <2>3, <2>4
    <3>2. analyses'[p] \in Seq(AnalysisType) BY <2>1, <3>1, SeqDef
    <3> QED BY <2>1, <3>1, <3>2, LenProperties
  <2> QED BY <2>1, <2>2, <2>3, <2>4, <2>5 DEF q
<1>4. analyses' \in [Plans -> Seq(AnalysisType)] BY <1>2, <1>3
<1>5. Grown(analyses, analyses') BY <1>3 DEF Grown
<1> QED BY <1>2, <1>4, <1>5, RunsMove

------------------------------------------------------------------------------
(* The invariant and what follows from it.                                  *)

LEMMA CompareInvKept == CompareInv /\ [CompareNext]_compareVars => CompareInv'
<1> SUFFICES ASSUME CompareInv, [CompareNext]_compareVars PROVE CompareInv'
  OBVIOUS
<1>1. ASSUME NEW c \in Threads, CallStep(c) PROVE CompareInv'
  BY <1>1, LookUpSavedKeeps, ReserveSagaKeeps, StartSideKeeps, ComputeSideKeeps, RecordSideKeeps, FailSideKeeps,
     SaveKeeps, FailSavedKeeps, CompleteKeeps DEF CallStep
<1>2. ASSUME NEW c \in Threads, NEW k \in Keys, Ask(c, k) PROVE CompareInv' BY <1>2, AskKeeps
<1>3. ASSUME NEW p \in Plans, RetryRun(p) \/ EndRun(p) PROVE CompareInv'
  BY <1>3, RetryRunKeeps, EndRunKeeps
<1>4. ASSUME ServiceRestart PROVE CompareInv' BY <1>4, ServiceRestartKeeps
<1>5. CASE UNCHANGED compareVars
  <2>1. /\ analyses' = analyses /\ sagas' = sagas /\ saved' = saved /\ call' = call /\ answers' = answers
        /\ count' = count /\ met' = met
    BY <1>5 DEF compareVars
  <2>2. analyses' \in [Plans -> Seq(AnalysisType)] /\ count' \in [calls : 0 .. MaxAsked, restarts : 0 .. MaxServiceRestarts]
    BY <2>1 DEF CompareInv, CompareTypeOK, AnalysisType
  <2>3. Grown(analyses, analyses') /\ Untouched(Others, analyses, analyses') BY <2>1, SameRuns DEF CompareInv
  <2> QED BY <2>1, <2>2, <2>3, RunsMove
<1> QED BY <1>1, <1>2, <1>3, <1>4, <1>5 DEF CompareNext

THEOREM CompareInvHolds == CompareSpec => []CompareInv
BY CompareInvStarts, CompareInvKept, PTL DEF CompareSpec

\* Whatever the two sides went through, a comparison that was saved is one of
\* completed analyses (save_risk_comparison).
THEOREM SavedIsConsistent == CompareSpec => []ComparisonsConsistent
<1>1. CompareInv => ComparisonsConsistent
  <2> SUFFICES ASSUME CompareInv PROVE ComparisonsConsistent
    OBVIOUS
  <2>1. CompareTypeOK BY DEF CompareInv
  <2>2. ASSUME NEW n \in DOMAIN saved, NEW s \in Sides
        PROVE  StatusOf(s, saved[n].run[s]) = "COMPLETED"
    <3>1. IsCompleted(s, saved[n].run[s]) BY DEF CompareInv, SavedInv
    <3>2. saved[n].run \in RunsOfSides
      <4> DEFINE S == [key : Keys, run : RunsOfSides]
      <4>1. saved \in Seq(S) BY <2>1 DEF CompareTypeOK
      <4> HIDE DEF S
      <4>2. saved[n] \in S BY <4>1
      <4> QED BY <4>2 DEF S
    <3>3. saved[n].run[s] \in 0 .. Len(analyses[PlanOf(s)])
      BY <2>1, <3>2, PlanOfSide DEF RunsOfSides, CompareTypeOK
    <3> QED BY <2>1, <3>1, <3>3, StatusCompleted
  <2> QED BY <2>1, <2>2 DEF ComparisonsConsistent, ComparesCompleted
<1> QED BY <1>1, CompareInvHolds, PTL

\* Repeated calls of a key get the comparison the first was answered with; two
\* that overlap may not, when another key saved one of the same analyses.
THEOREM RepeatedIsAnsweredAlike == CompareSpec => []OneAnswerPerKey
<1>1. CompareInv => OneAnswerPerKey
  <2> SUFFICES ASSUME CompareInv, NEW k \in Keys, Cardinality(answers[k]) > 1
               PROVE  k \in met /\ \E n \in answers[k] : saved[n].key # k
    BY DEF OneAnswerPerKey
  <2>1. \A n \in answers[k] : n \in DOMAIN saved BY DEF CompareInv, CompareTypeOK
  <2>2. \A n, m \in SavedFor(k) : n = m BY DEF CompareInv, SavedInv, SavedFor
  <2>3. ~ \A n, m \in answers[k] : n = m
    <3> SUFFICES ASSUME \A n, m \in answers[k] : n = m PROVE FALSE
      OBVIOUS
    <3>1. CASE answers[k] = {} BY <3>1, FS_EmptySet
    <3>2. CASE answers[k] # {}
      <4>1. PICK n \in answers[k] : TRUE BY <3>2
      <4>2. answers[k] = {n} BY <4>1
      <4>3. Cardinality({n}) = 1 BY FS_Singleton
      <4> QED BY <4>2, <4>3
    <3> QED BY <3>1, <3>2
  <2>4. \E n \in answers[k] : saved[n].key # k BY <2>1, <2>2, <2>3 DEF SavedFor
  <2>5. k \in met
    <3> SUFFICES ASSUME k \notin met PROVE FALSE
      OBVIOUS
    <3>1. \A n \in answers[k] : Answered(k, n) BY DEF CompareInv, OneInv
    <3> QED BY <2>2, <2>3, <3>1 DEF Answered
  <2> QED BY <2>4, <2>5
<1> QED BY <1>1, CompareInvHolds, PTL

\* No late call takes a completed saga back (update_risk_comparison_saga).
THEOREM CompletedSagaStays == CompareSpec => CompletedStays
<1> DEFINE Stays == \A k \in Keys : sagas[k].status = "COMPARISON_COMPLETED"
                                      => sagas'[k] = sagas[k] /\ sagas[k].comparison \in answers[k]
<1>1. CompareInv /\ [CompareNext]_compareVars => [Stays]_compareVars
  <2> SUFFICES ASSUME CompareInv, CompareNext, NEW k \in Keys, sagas[k].status = "COMPARISON_COMPLETED"
               PROVE  sagas'[k] = sagas[k] /\ sagas[k].comparison \in answers[k]
    OBVIOUS
  <2>1. sagas[k].comparison \in answers[k] /\ sagas \in [Keys -> SagaRow] BY DEF CompareInv, SagaInv, CompareTypeOK
  <2>2. ASSUME NEW c \in Threads, CallStep(c) PROVE sagas'[k] = sagas[k]
    <3>1. sagas' = sagas \/ \E row : /\ sagas' = [sagas EXCEPT ![Key(c)] = row]
                                     /\ sagas[Key(c)].status = "COMPARISON_COMPLETED"
                                          => row = sagas[Key(c)]
      <4>1. \A old, status, run, n : old.status = "COMPARISON_COMPLETED"
                                       => Updated(old, status, run, n) = old
        BY DEF Updated
      <4>2. \A status, run, n : UpdateSaga(c, status, run, n) =>
              sagas' = [sagas EXCEPT ![Key(c)] = Updated(sagas[Key(c)], status, run, n)]
        BY DEF UpdateSaga
      <4>3. CASE LookUpSaved(c) \/ StartSide(c) \/ ComputeSide(c) \/ Save(c)
        BY <4>3 DEF LookUpSaved, StartSide, ComputeSide, Save
      <4>4. CASE RecordSide(c)
        <5> DEFINE status == IF Now(c).side = "before" THEN "BEFORE_COMPLETED" ELSE "AFTER_COMPLETED"
        <5>1. sagas' = [sagas EXCEPT ![Key(c)] = Updated(sagas[Key(c)], status, InHand(c), 0)]
          BY <4>4 DEF RecordSide
        <5> DEFINE row == Updated(sagas[Key(c)], status, InHand(c), 0)
        <5> HIDE DEF status
        <5>2. sagas[Key(c)].status = "COMPARISON_COMPLETED" => row = sagas[Key(c)] BY <4>1
        <5> HIDE DEF row
        <5> QED BY <5>1, <5>2 DEF row
      <4>5. CASE FailSide(c) \/ FailSaved(c) \/ Complete(c)
        BY <4>1, <4>2, <4>5 DEF FailSide, FailSaved, Complete
      <4>6. CASE ReserveSaga(c)
        <5> DEFINE old == sagas[Key(c)]
                   row == [old EXCEPT !.status = IF @ = "NONE" THEN "RESERVED" ELSE @]
        <5>1. Key(c) \in Keys /\ old \in SagaRow BY CallTyped DEF CompareInv
        <5>2. sagas' = [sagas EXCEPT ![Key(c)] = row] BY <4>6 DEF ReserveSaga
        <5>3. old.status = "COMPARISON_COMPLETED" => row = old BY <5>1 DEF SagaRow
        <5> QED BY <5>2, <5>3
      <4> QED BY <2>2, <4>3, <4>4, <4>5, <4>6 DEF CallStep
    <3> QED BY <2>1, <3>1
  <2>3. ASSUME NEW c \in Threads, NEW l \in Keys, Ask(c, l) PROVE sagas'[k] = sagas[k]
    BY <2>3 DEF Ask
  <2>4. ASSUME NEW p \in Plans, RetryRun(p) \/ EndRun(p) PROVE sagas'[k] = sagas[k]
    BY <2>4 DEF RetryRun, EndRun
  <2>5. ASSUME ServiceRestart PROVE sagas'[k] = sagas[k] BY <2>5 DEF ServiceRestart
  <2>6. sagas'[k] = sagas[k] BY <2>2, <2>3, <2>4, <2>5 DEF CompareNext
  <2> QED BY <2>1, <2>6
<1> QED BY <1>1, CompareInvHolds, PTL DEF CompareSpec, CompletedStays
==============================================================================

--------------------------- MODULE RiskComparison ---------------------------
(***************************************************************************)
(* The paired risk comparison of two plans: a saga row per idempotency     *)
(* key, the two risk analyses it waits for and the comparison it saves.    *)
(* Every request runs the whole handler in its own thread and goes on with *)
(* what an earlier one left undone; others retry failed analyses           *)
(* meanwhile.                                                              *)
(*                                                                         *)
(* Analyses of a plan are numbered; of each only the status is kept, and   *)
(* which thread computes it.  What the trials say, and the proofs over     *)
(* them, are left out, except that saving may find them broken.            *)
(***************************************************************************)
EXTENDS Naturals, Sequences, FiniteSets

CONSTANTS
  Before, After, \* the two plans; they may be one
  Keys,          \* idempotency keys, all of the same request
  Threads,       \* request threads
  Others,        \* whoever else retries analyses
  Made,          \* bound: the analyses of a plan that may be there before
  MaxAsked,      \* bound: how many requests are made
  MaxAnalyses,   \* bound: analyses of a plan
  MaxServiceRestarts \* bound: how often the process dies

ASSUME OthersAssumption == Others \notin Threads
ASSUME KeysAssumption == Keys # {}
ASSUME ComparisonBounds == {MaxAsked, MaxAnalyses, MaxServiceRestarts} \subseteq Nat

Sides == {"before", "after"}
Plans == {Before, After}
PlanOf(s) == IF s = "before" THEN Before ELSE After

AnalysisStatus == {"RUNNING", "COMPLETED", "FAILED", "INTERRUPTED"}
ASSUME MadeAssumption == Made \subseteq Seq([status : AnalysisStatus, by : {Others}])

SagaStatus == {"NONE", "RESERVED", "BEFORE_COMPLETED", "AFTER_COMPLETED", "COMPARISON_COMPLETED", "FAILED"}
CallPlace == {"idle", "lookup", "reserve", "start", "compute", "told", "failed", "save", "broken", "saved"}

VARIABLES
  analyses, \* decision_analysis_runs of each plan
  sagas,    \* risk_comparison_sagas by key
  saved,    \* risk_comparison_runs: key and the two analyses
  call,     \* what each thread does, for which side, with which analyses in
            \* hand (run) and in which status it read them (saw)
  answers,  \* the comparisons each key was answered with
  count,    \* requests and restarts so far
  met       \* history: the keys of which two calls were under way together

compareVars == <<analyses, sagas, saved, call, answers, count, met>>

NoAnalysis == 0
NoAnalyses == [s \in Sides |-> NoAnalysis]
NoSaga == [status |-> "NONE", run |-> NoAnalyses, comparison |-> 0]
Idle == [at |-> "idle", side |-> "before", run |-> NoAnalyses, saw |-> [s \in Sides |-> "NONE"], got |-> 0]

RunsOfSides == {r \in [Sides -> Nat] : \A s \in Sides : r[s] <= Len(analyses[PlanOf(s)])}

Doing == [at : CallPlace, side : Sides, run : RunsOfSides, saw : [Sides -> AnalysisStatus \cup {"NONE"}],
          got : 0 .. Len(saved)]

SagaRow == [status : SagaStatus, run : RunsOfSides, comparison : 0 .. Len(saved)]

CompareTypeOK ==
  /\ analyses \in [Plans -> Seq([status : AnalysisStatus, by : Threads \cup {Others}])]
  /\ sagas \in [Keys -> SagaRow]
  /\ saved \in Seq([key : Keys, run : RunsOfSides])
  /\ call \in [Threads -> [key : Keys, now : Doing]]
  /\ answers \in [Keys -> SUBSET DOMAIN saved]
  /\ count \in [calls : 0 .. MaxAsked, restarts : 0 .. MaxServiceRestarts]
  /\ met \subseteq Keys

CompareInit ==
  /\ analyses \in [Plans -> Made]
  /\ sagas = [k \in Keys |-> NoSaga]
  /\ saved = <<>>
  /\ call = [c \in Threads |-> [key |-> CHOOSE k \in Keys : TRUE, now |-> Idle]]
  /\ answers = [k \in Keys |-> {}]
  /\ count = [calls |-> 0, restarts |-> 0]
  /\ met = {}

-----------------------------------------------------------------------------
(* compare_plan_risk_paired.                                               *)

Key(c) == call[c].key
Now(c) == call[c].now
CallAt(c, place) == Now(c).at = place
Becomes(c, now) == call' = [call EXCEPT ![c].now = now]
CallGoes(c, place) == Becomes(c, [Now(c) EXCEPT !.at = place])

Answer(c, n) == Becomes(c, Idle) /\ answers' = [answers EXCEPT ![Key(c)] = @ \cup {n}]
Refuse(c) == Becomes(c, Idle) /\ UNCHANGED answers

Ask(c, k) ==
  /\ CallAt(c, "idle") /\ count.calls < MaxAsked
  /\ call' = [call EXCEPT ![c] = [key |-> k, now |-> [Idle EXCEPT !.at = "lookup"]]]
  /\ count' = [count EXCEPT !.calls = @ + 1]
  /\ met' = met \cup {k : d \in {d \in Threads : ~CallAt(d, "idle") /\ Key(d) = k}}
  /\ UNCHANGED <<analyses, sagas, saved, answers>>

SavedFor(k) == {n \in DOMAIN saved : saved[n].key = k}

\* risk_comparison_for_idempotency, before anything is computed.
LookUpSaved(c) ==
  /\ CallAt(c, "lookup")
  /\ IF SavedFor(Key(c)) # {} THEN \E n \in SavedFor(Key(c)) : Answer(c, n)
     ELSE CallGoes(c, "reserve") /\ UNCHANGED answers
  /\ UNCHANGED <<analyses, sagas, saved, count, met>>

\* Snapshots, contexts and scenario sets of the two plans must agree; then
\* reserve_risk_comparison_saga: a saga that is there is gone on with.
ReserveSaga(c) ==
  /\ CallAt(c, "reserve")
  /\ sagas' = [sagas EXCEPT ![Key(c)].status = IF @ = "NONE" THEN "RESERVED" ELSE @]
  /\ Becomes(c, [Now(c) EXCEPT !.at = "start", !.run = sagas[Key(c)].run])
  /\ UNCHANGED <<analyses, saved, answers, count, met>>

\* A side is done with when the analysis in hand is read as completed.
\* Otherwise execute_decision_analysis_run makes the first analysis of the
\* plan, or returns the newest one, running or completed, or raises.
StatusOf(s, n) == IF n = NoAnalysis THEN "NONE" ELSE analyses[PlanOf(s)][n].status
Reads(c, s, n) == [Now(c) EXCEPT !.run[s] = n, !.saw[s] = StatusOf(s, n)]
NextSide(now) == IF now.side = "before" THEN [now EXCEPT !.side = "after", !.at = "start"] ELSE [now EXCEPT !.at = "save"]

StartSide(c) ==
  LET s == Now(c).side
      p == PlanOf(s)
      n == Now(c).run[s]
      newest == Len(analyses[p]) IN
  /\ CallAt(c, "start")
  /\ \/ /\ StatusOf(s, n) = "COMPLETED"
        /\ Becomes(c, NextSide(Reads(c, s, n))) /\ UNCHANGED analyses
     \/ /\ StatusOf(s, n) # "COMPLETED" /\ newest = 0
        /\ analyses' = [analyses EXCEPT ![p] = <<[status |-> "RUNNING", by |-> c]>>]
        /\ Becomes(c, [Now(c) EXCEPT !.run[s] = 1, !.at = "compute"])
     \/ /\ StatusOf(s, n) # "COMPLETED" /\ StatusOf(s, newest) \in {"RUNNING", "COMPLETED"}
        /\ Becomes(c, [Reads(c, s, newest) EXCEPT !.at = "told"]) /\ UNCHANGED analyses
     \/ /\ StatusOf(s, n) # "COMPLETED" /\ StatusOf(s, newest) \in {"FAILED", "INTERRUPTED"}
        /\ CallGoes(c, "failed") /\ UNCHANGED analyses
  /\ UNCHANGED <<sagas, saved, answers, count, met>>

\* The analysis of a side ends: finish_decision_analysis_run.
ComputeSide(c) ==
  LET s == Now(c).side IN
  /\ CallAt(c, "compute")
  /\ \E r \in {"COMPLETED", "FAILED"} :
       /\ analyses' = [analyses EXCEPT ![PlanOf(s)][Now(c).run[s]].status = r]
       /\ Becomes(c, [Now(c) EXCEPT !.saw[s] = r, !.at = "told"])
  /\ UNCHANGED <<sagas, saved, answers, count, met>>

\* update_risk_comparison_saga: a completed saga stays as it is; analyses given
\* replace those it names.
\* Wrong variant: a late call takes a completed saga back.
UpdatedLate(saga, status, run, n) ==
  [status |-> status, run |-> [s \in Sides |-> IF run[s] # NoAnalysis THEN run[s] ELSE saga.run[s]],
   comparison |-> IF n # 0 THEN n ELSE saga.comparison]

Updated(saga, status, run, n) ==
  IF saga.status = "COMPARISON_COMPLETED" THEN saga
  ELSE [status |-> status, run |-> [s \in Sides |-> IF run[s] # NoAnalysis THEN run[s] ELSE saga.run[s]],
        comparison |-> IF n # 0 THEN n ELSE saga.comparison]

UpdateSaga(c, status, run, n) == sagas' = [sagas EXCEPT ![Key(c)] = Updated(@, status, run, n)]

\* The analyses a step passes on: those of the sides that are done.
InHand(c) == [s \in Sides |-> IF s = "before" \/ Now(c).side = "after" THEN Now(c).run[s] ELSE NoAnalysis]

RecordSide(c) ==
  LET new == Updated(sagas[Key(c)], IF Now(c).side = "before" THEN "BEFORE_COMPLETED" ELSE "AFTER_COMPLETED",
                     InHand(c), 0) IN
  /\ CallAt(c, "told")
  /\ sagas' = [sagas EXCEPT ![Key(c)] = new]
  /\ Becomes(c, NextSide([Now(c) EXCEPT !.run["after"] = IF Now(c).side = "before" THEN new.run["after"] ELSE @]))
  /\ UNCHANGED <<analyses, saved, answers, count, met>>

FailSide(c) ==
  /\ CallAt(c, "failed")
  /\ UpdateSaga(c, "FAILED", [NoAnalyses EXCEPT !["before"] = IF Now(c).side = "after" THEN Now(c).run["before"] ELSE NoAnalysis], 0)
  /\ Refuse(c)
  /\ UNCHANGED <<analyses, saved, count, met>>

\* Both analyses were read as completed; then save_risk_comparison answers a
\* key that has a comparison, or content that has one, with that one.
\* Wrong variants: any analysis will do; the key is not looked up again.
AnyReady(c) == TRUE
NothingSaved(c) == {}

Ready(c) == \A s \in Sides : Now(c).saw[s] = "COMPLETED"

KeySaved(c) == SavedFor(Key(c))

SameContent(c) == {n \in DOMAIN saved : saved[n].run = Now(c).run}

\* Wrong variant: the number is taken after the insert.
NumberAfter == Len(saved) + 2

NextNumber == Len(saved) + 1

Got(c, n) == Becomes(c, [Now(c) EXCEPT !.at = "saved", !.got = n])

Save(c) ==
  /\ CallAt(c, "save")
  /\ \/ ~Ready(c) /\ Refuse(c) /\ UNCHANGED saved
     \/ /\ Ready(c) /\ KeySaved(c) # {}
        /\ \E n \in KeySaved(c) : Got(c, n)
        /\ UNCHANGED <<saved, answers>>
     \/ /\ Ready(c) /\ KeySaved(c) = {} /\ SameContent(c) # {}
        /\ \E n \in SameContent(c) : Got(c, n)
        /\ UNCHANGED <<saved, answers>>
     \/ /\ Ready(c) /\ KeySaved(c) = {} /\ SameContent(c) = {}
        /\ saved' = Append(saved, [key |-> Key(c), run |-> Now(c).run])
        /\ Got(c, NextNumber)
        /\ UNCHANGED answers
     \/ /\ Ready(c) /\ KeySaved(c) = {}  \* a proof of the evidence is broken
        /\ CallGoes(c, "broken")
        /\ UNCHANGED <<saved, answers>>
  /\ UNCHANGED <<analyses, sagas, count, met>>

FailSaved(c) ==
  /\ CallAt(c, "broken")
  /\ UpdateSaga(c, "FAILED", Now(c).run, 0)
  /\ Refuse(c)
  /\ UNCHANGED <<analyses, saved, count, met>>

Complete(c) ==
  /\ CallAt(c, "saved")
  /\ UpdateSaga(c, "COMPARISON_COMPLETED", Now(c).run, Now(c).got)
  /\ Answer(c, Now(c).got)
  /\ UNCHANGED <<analyses, saved, count, met>>

CallStep(c) ==
  \/ LookUpSaved(c) \/ ReserveSaga(c) \/ StartSide(c) \/ ComputeSide(c) \/ RecordSide(c) \/ FailSide(c)
  \/ Save(c) \/ FailSaved(c) \/ Complete(c)

-----------------------------------------------------------------------------
(* Everybody else.                                                         *)

\* retry_decision_analysis_run makes a new analysis of any that failed, also
\* of one that was retried before.
RetryRun(p) ==
  /\ Len(analyses[p]) < MaxAnalyses
  /\ \E n \in DOMAIN analyses[p] : analyses[p][n].status \in {"FAILED", "INTERRUPTED"}
  /\ analyses' = [analyses EXCEPT ![p] = Append(@, [status |-> "RUNNING", by |-> Others])]
  /\ UNCHANGED <<sagas, saved, call, answers, count, met>>

EndRun(p) ==
  /\ \E n \in DOMAIN analyses[p], r \in {"COMPLETED", "FAILED"} :
       /\ analyses[p][n] = [status |-> "RUNNING", by |-> Others]
       /\ analyses' = [analyses EXCEPT ![p][n].status = r]
  /\ UNCHANGED <<sagas, saved, call, answers, count, met>>

\* Requests die with the process; _recover_runtime_owned interrupts analyses
\* and leaves the sagas alone.
ServiceRestart ==
  /\ count.restarts < MaxServiceRestarts
  /\ analyses' = [p \in Plans |-> [n \in DOMAIN analyses[p] |->
       [analyses[p][n] EXCEPT !.status = IF @ = "RUNNING" THEN "INTERRUPTED" ELSE @]]]
  /\ call' = [c \in Threads |-> [call[c] EXCEPT !.now = Idle]]
  /\ count' = [count EXCEPT !.restarts = @ + 1]
  /\ UNCHANGED <<sagas, saved, answers, met>>

CompareNext ==
  \/ \E c \in Threads : CallStep(c) \/ \E k \in Keys : Ask(c, k)
  \/ \E p \in Plans : RetryRun(p) \/ EndRun(p)
  \/ ServiceRestart

CompareSpec == CompareInit /\ [][CompareNext]_compareVars

-----------------------------------------------------------------------------
(* What a repeated comparison may rely on.                                 *)

\* Only completed analyses are compared, whatever the two sides went through.
ComparesCompleted ==
  \A n \in DOMAIN saved : \A s \in Sides : StatusOf(s, saved[n].run[s]) = "COMPLETED"

\* At every step, and after a death at any: what was saved compares completed
\* analyses, and every number names what it counts.
ComparisonsConsistent == CompareTypeOK /\ ComparesCompleted

\* A key is answered with one comparison, however often it is repeated, after a
\* death too, and whatever analyses are newest by then.  Two calls of the key
\* under way together may be answered differently, but only when one of them was
\* given the comparison another key saved of the same analyses.
OneAnswerPerKey ==
  \A k \in Keys :
    Cardinality(answers[k]) > 1 => k \in met /\ \E n \in answers[k] : saved[n].key # k

\* A completed saga never loses its comparison, and it is one the key was
\* answered with.
CompletedStays ==
  [][\A k \in Keys : sagas[k].status = "COMPARISON_COMPLETED" => sagas'[k] = sagas[k] /\ sagas[k].comparison \in answers[k]]_compareVars
=============================================================================

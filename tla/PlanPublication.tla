-------------------------- MODULE PlanPublication --------------------------
(***************************************************************************)
(* One scenario of backend/storage.py: its data revisions (D), its plan    *)
(* versions (V), the execution events of its work orders, and the requests *)
(* that edit, reset, execute, solve, activate, restore or publish a        *)
(* strategy candidate at the same time.  A request reads in one            *)
(* transaction and writes in a later one; every write compares first.      *)
(*                                                                         *)
(* A snapshot is the business data, one value, and the status of each      *)
(* order.  It carries its revision, so two hashes are equal when the       *)
(* revisions are.  Whether a schedule can be found and passes verification *)
(* is a choice, and so is whether a plan assigns an order.                 *)
(***************************************************************************)
EXTENDS Integers, Sequences, FiniteSets

CONSTANTS
  Requests,      \* requests, each handled once
  Orders,        \* work orders
  Data,          \* values of the editable business data
  InitialData,   \* that of D000
  ActivateKeys,  \* idempotency keys of activations
  RestoreKeys,   \* those of restores
  Exps,          \* strategy experiments, each with its own publication key
  NoKey,         \* a request without a key
  Unchecked,     \* a v1 request that names no active plan
  MaxRevision    \* bound: data revisions

PublicationKeys == ActivateKeys \cup RestoreKeys \cup Exps

ASSUME DataAssumption == InitialData \in Data
ASSUME KeysAssumption ==
  /\ ActivateKeys \cap RestoreKeys = {} /\ ActivateKeys \cap Exps = {} /\ RestoreKeys \cap Exps = {}
  /\ NoKey \notin PublicationKeys
ASSUME UncheckedAssumption == Unchecked \notin Nat
ASSUME RevisionsAssumption == MaxRevision \in Nat

VARIABLES
  head,    \* scenarios: revision, payload, active_plan_version_id
  chain,   \* scenario_revisions: chain[d + 1] is the snapshot of revision d
  events,  \* work_order_execution_events
  plans,   \* plan_versions: plans[v] is version v
  appl,    \* plan_applicability, by plan
  keys,    \* publication_keys: the plan each key published, or NoPlan
  run,     \* planning_reservations, schedule_runs, schedule_candidates
  req      \* what each handler has read and where it is

tables == <<head, chain, events, plans, appl, keys, run>>
vars == <<tables, req>>

NoPlan == 0
Steps == {"start", "complete"}
Snapshot == [data : Data, status : [Orders -> {"PENDING", "STARTED", "COMPLETED"}]]
Planning == {"solve", "activate", "restore", "experiment"}
Kind == Planning \cup {"edit", "reset"}
RunStatus == {"NONE", "RUNNING", "PUBLISHABLE", "UNPUBLISHABLE", "FAILED"}

Request ==
  [at : {"new", "read", "known", "ready", "reserved", "candidate", "completed", "done"},
   kind : Kind, rev : Nat, expect : Nat \cup {Unchecked}, source : Nat, data : Data,
   key : PublicationKeys \cup {NoKey}]
Run == [status : RunStatus, rev : Nat, active : Nat, seen : Nat]
Plan == [rev : Nat, snapshot : Snapshot, over : Nat, key : PublicationKeys \cup {NoKey}]

TypeOK ==
  /\ head \in [rev : Nat, snapshot : Snapshot, active : 0 .. Len(plans)]
  /\ chain \in Seq(Snapshot)
  /\ events \subseteq Orders \X Steps
  /\ plans \in Seq(Plan)
  /\ appl \in Seq([active : BOOLEAN, rev : Nat])
  /\ keys \in [PublicationKeys -> 0 .. Len(plans)]
  /\ run \in [Requests -> Run]
  /\ req \in [Requests -> Request]

D000 == [data |-> InitialData, status |-> [o \in Orders |-> "PENDING"]]
Idle == [at |-> "new", kind |-> "edit", rev |-> 0, expect |-> Unchecked,
         source |-> NoPlan, data |-> InitialData, key |-> NoKey]

Init ==
  /\ head = [rev |-> 0, snapshot |-> D000, active |-> NoPlan]
  /\ chain = <<D000>>
  /\ events = {}
  /\ plans = <<>>
  /\ appl = <<>>
  /\ keys = [k \in PublicationKeys |-> NoPlan]
  /\ run = [r \in Requests |-> [status |-> "NONE", rev |-> 0, active |-> NoPlan, seen |-> 0]]
  /\ req = [r \in Requests |-> Idle]

-----------------------------------------------------------------------------
(* Revisions.                                                              *)

Watermark == Cardinality(events)
Is(r, place, kinds) == req[r].at = place /\ req[r].kind \in kinds
MoveTo(r, place) == req' = [req EXCEPT ![r].at = place]
None(status) == \A o \in Orders : head.snapshot.status[o] # status
AllPending == \A o \in Orders : head.snapshot.status[o] = "PENDING"

\* What handler r read in the beginning: revisions never change.
Current(r) == chain[req[r].rev + 1]

\* The scenario row and its revision in one transaction.
Revise(snapshot, active) ==
  /\ head.rev < MaxRevision
  /\ head' = [rev |-> head.rev + 1, snapshot |-> snapshot, active |-> active]
  /\ chain' = Append(chain, snapshot)

\* _set_plan_applicability of the active plan, against the new revision.
Rebind(active) ==
  appl' = IF head.active = NoPlan THEN appl
          ELSE [appl EXCEPT ![head.active] = [active |-> active, rev |-> head.rev + 1]]

-----------------------------------------------------------------------------
(* Editing: save_scenario_change, and reset_scenario.                      *)

BeginEdit(r, d) ==
  /\ req[r].at = "new"
  /\ d # head.snapshot.data
  /\ req' = [req EXCEPT ![r] = [Idle EXCEPT !.at = "read", !.rev = head.rev, !.data = d]]
  /\ UNCHANGED tables

SaveEdit(r) ==
  /\ Is(r, "ready", {"edit"})
  /\ head.rev = req[r].rev
  /\ head.active = req[r].expect
  /\ Revise([Current(r) EXCEPT !.data = req[r].data], head.active)
  /\ Rebind(TRUE)
  /\ MoveTo(r, "done")
  /\ UNCHANGED <<events, plans, keys, run>>

BeginReset(r) ==
  /\ req[r].at = "new"
  /\ req' = [req EXCEPT ![r] = [Idle EXCEPT !.at = "read", !.kind = "reset", !.rev = head.rev]]
  /\ UNCHANGED tables

CheckReset(r) ==
  /\ Is(r, "read", {"reset"})
  /\ events = {}
  /\ MoveTo(r, "ready")
  /\ UNCHANGED tables

\* Wrong variant: the revision is not compared.
SaveResetBlindly(r) ==
  /\ Is(r, "ready", {"reset"})
  /\ Revise(chain[1], NoPlan)
  /\ Rebind(FALSE)
  /\ MoveTo(r, "done")
  /\ UNCHANGED <<events, plans, keys, run>>

SaveReset(r) ==
  /\ Is(r, "ready", {"reset"})
  /\ head.rev = req[r].rev
  /\ Revise(chain[1], NoPlan)
  /\ Rebind(FALSE)
  /\ MoveTo(r, "done")
  /\ UNCHANGED <<events, plans, keys, run>>

-----------------------------------------------------------------------------
(* Execution: transition_work_order reads and writes in one transaction.   *)

\* Wrong variant: the applicability of the active plan is left as it was.
RecordOnly(o, step, status) ==
  /\ Revise([head.snapshot EXCEPT !.status[o] = status], head.active)
  /\ events' = events \cup {<<o, step>>}
  /\ UNCHANGED <<plans, appl, keys, run, req>>

Record(o, step, status) ==
  /\ Revise([head.snapshot EXCEPT !.status[o] = status], head.active)
  /\ Rebind(TRUE)
  /\ events' = events \cup {<<o, step>>}
  /\ UNCHANGED <<plans, keys, run, req>>

Start(o) ==
  /\ head.snapshot.status[o] = "PENDING"
  /\ head.active # NoPlan
  /\ Record(o, "start", "STARTED")

CompleteOrder(o) ==
  /\ head.snapshot.status[o] = "STARTED"
  /\ <<o, "start">> \in events
  /\ Record(o, "complete", "COMPLETED")

-----------------------------------------------------------------------------
(* Planning.  A request is read, its key looked up, its inputs frozen in a *)
(* reservation, its candidate stored, and published.                       *)

\* A plan of a job; replanning is possible while orders are under way.
BeginSolve(r, expect) ==
  /\ req[r].at = "new"
  /\ expect \in {head.active, Unchecked}
  /\ req' = [req EXCEPT ![r] =
       [Idle EXCEPT !.at = "ready", !.kind = "solve", !.rev = head.rev, !.expect = expect]]
  /\ UNCHANGED tables

\* activate_plan_version: only a plan of the same business content.
BeginActivate(r, n, k, expect) ==
  /\ req[r].at = "new"
  /\ None("STARTED")
  /\ plans[n].snapshot = head.snapshot
  /\ expect \in {head.active, Unchecked}
  /\ req' = [req EXCEPT ![r] =
       [Idle EXCEPT !.at = "read", !.kind = "activate", !.rev = head.rev, !.expect = expect,
                    !.source = n, !.key = k]]
  /\ UNCHANGED tables

\* restore_plan_version.  A retry that names an older revision is answered from
\* its key or refused: no step.
BeginRestore(r, n, k) ==
  /\ req[r].at = "new"
  /\ None("STARTED")
  /\ req' = [req EXCEPT ![r] =
       [Idle EXCEPT !.at = "read", !.kind = "restore", !.rev = head.rev, !.source = n, !.key = k]]
  /\ UNCHANGED tables

Siblings(e) == {q \in Requests : Is(q, req[q].at, {"experiment"}) /\ req[q].key = e}

\* create_strategy_experiment, or one more candidate of an experiment.
BeginExperiment(r, e) ==
  /\ req[r].at = "new"
  /\ Siblings(e) = {}
  /\ AllPending
  /\ req' = [req EXCEPT ![r] =
       [Idle EXCEPT !.at = "read", !.kind = "experiment", !.rev = head.rev, !.key = e]]
  /\ UNCHANGED tables

NextCandidate(r, e) ==
  /\ req[r].at = "new"
  /\ \E q \in Siblings(e) :
       /\ req[q].expect # Unchecked
       /\ req' = [req EXCEPT ![r] = [req[q] EXCEPT !.at = "ready"]]
  /\ UNCHANGED tables

\* publication_retry and published_for_key: a key that published is answered, or
\* refused for another request, and nothing else is done.
LookUp(r) ==
  /\ Is(r, "read", {"activate", "restore"})
  /\ MoveTo(r, CASE req[r].key # NoKey /\ keys[req[r].key] # NoPlan -> "done"
                 [] req[r].kind = "restore" -> "known"
                 [] OTHER -> "ready")
  /\ UNCHANGED tables

\* build_rollback_preview: a restore must not reopen what was completed.
Reopens(r) ==
  \E o \in Orders : Current(r).status[o] = "COMPLETED"
                    /\ plans[req[r].source].snapshot.status[o] # "COMPLETED"

\* The active plan, read in a transaction after the one that read the scenario.
ReadActive(r) ==
  /\ Is(r, "read", {"edit", "experiment"}) \/ (Is(r, "known", {"restore"}) /\ ~Reopens(r))
  /\ req' = [req EXCEPT ![r].at = "ready", ![r].expect = head.active]
  /\ UNCHANGED tables

\* reserve_plan_command.
Reserve(r) ==
  /\ Is(r, "ready", Planning)
  /\ head.rev = req[r].rev
  /\ req[r].expect \in {head.active, Unchecked}
  /\ run' = [run EXCEPT ![r] =
       [status |-> "RUNNING", rev |-> head.rev, active |-> head.active, seen |-> Watermark]]
  /\ MoveTo(r, "reserved")
  /\ UNCHANGED <<head, chain, events, plans, appl, keys>>

\* complete_schedule_run, with a candidate that passed verification or did not.
CompleteRun(r, status) ==
  /\ req[r].at = "reserved"
  /\ run[r].status = "RUNNING"
  /\ run' = [run EXCEPT ![r].status = status]
  /\ MoveTo(r, CASE status = "UNPUBLISHABLE" -> "done"
                 [] req[r].kind = "experiment" -> "candidate"
                 [] OTHER -> "completed")
  /\ UNCHANGED <<head, chain, events, plans, appl, keys>>

FailRun(r) ==
  /\ Is(r, "reserved", {"solve", "experiment"})
  /\ run' = [run EXCEPT ![r].status = "FAILED"]
  /\ MoveTo(r, "done")
  /\ UNCHANGED <<head, chain, events, plans, appl, keys>>

\* publish_strategy_candidate, any time later and also after a restart.
AskPublication(r) ==
  /\ req[r].at = "candidate"
  /\ AllPending
  /\ keys[req[r].key] = NoPlan
  /\ head.rev = req[r].rev
  /\ head.active = run[r].active
  /\ MoveTo(r, "completed")
  /\ UNCHANGED tables

-----------------------------------------------------------------------------
(* publish_plan.                                                           *)

Target(r) == IF req[r].kind = "restore" THEN plans[req[r].source].snapshot ELSE Current(r)
TargetRevision(r) == IF req[r].kind = "restore" THEN req[r].rev + 1 ELSE req[r].rev

\* Wrong variants: the key is not looked up again; the active plan is not compared.
KeyLookedUp(r) == TRUE
FreshButActive(r) == head.rev = req[r].rev /\ run[r].rev = head.rev /\ Watermark = run[r].seen

KeyFree(r) == req[r].key # NoKey => keys[req[r].key] = NoPlan

\* The reservation still describes the scenario.
Fresh(r) ==
  /\ head.rev = req[r].rev /\ run[r].rev = head.rev
  /\ head.active = run[r].active
  /\ Watermark = run[r].seen

Version(r) ==
  [rev |-> TargetRevision(r), snapshot |-> Target(r), over |-> run[r].active, key |-> req[r].key]

Deactivated == [n \in DOMAIN appl |-> [appl[n] EXCEPT !.active = FALSE]]

\* Wrong variant: the former active plan stays active.
AddVersionBeside(r) ==
  /\ plans' = Append(plans, Version(r))
  /\ appl' = Append(appl, [active |-> TRUE, rev |-> TargetRevision(r)])

AddVersion(r) ==
  /\ plans' = Append(plans, Version(r))
  /\ appl' = Append(Deactivated, [active |-> TRUE, rev |-> TargetRevision(r)])

\* Wrong variant: a restore replaces the scenario and inserts no revision.
ReplaceUnrecorded(r, n) ==
  IF req[r].kind = "restore"
  THEN head' = [rev |-> TargetRevision(r), snapshot |-> Target(r), active |-> n] /\ UNCHANGED chain
  ELSE head' = [head EXCEPT !.active = n] /\ UNCHANGED chain

\* replace_scenario: only a restore makes a new revision.
Replace(r, n) ==
  IF req[r].kind = "restore" THEN Revise(Target(r), n)
  ELSE head' = [head EXCEPT !.active = n] /\ UNCHANGED chain

Publish(r) ==
  /\ req[r].at = "completed"
  /\ run[r].status = "PUBLISHABLE"
  /\ KeyFree(r)
  /\ Fresh(r)
  /\ AddVersion(r)
  /\ Replace(r, Len(plans) + 1)
  /\ keys' = IF req[r].key = NoKey THEN keys ELSE [keys EXCEPT ![req[r].key] = Len(plans) + 1]
  /\ MoveTo(r, "done")
  /\ UNCHANGED <<events, run>>

\* Every comparison above that fails, and every check left out, ends the request
\* with an error; a key that has published ends it with that plan.
Refuse(r) ==
  /\ req[r].at \notin {"new", "candidate", "done"}
  /\ MoveTo(r, IF Is(r, "completed", {"experiment"}) THEN "candidate" ELSE "done")
  /\ UNCHANGED tables

-----------------------------------------------------------------------------
(* A crash ends every handler; the next start fails what was running.      *)

\* Wrong variant: a status the run table does not know.
RecoveredAsInterrupted(status) == IF status = "RUNNING" THEN "INTERRUPTED" ELSE status

RecoveredRun(status) == IF status = "RUNNING" THEN "FAILED" ELSE status

IsCandidate(r) == req[r].kind = "experiment" /\ run[r].status = "PUBLISHABLE"

CrashAndRestart ==
  /\ run' = [r \in Requests |-> [run[r] EXCEPT !.status = RecoveredRun(@)]]
  /\ req' = [r \in Requests |-> [req[r] EXCEPT !.at =
               CASE @ = "new" -> "new" [] IsCandidate(r) -> "candidate" [] OTHER -> "done"]]
  /\ UNCHANGED <<head, chain, events, plans, appl, keys>>

-----------------------------------------------------------------------------

EditStep(r) ==
  \/ \E d \in Data : BeginEdit(r, d)
  \/ SaveEdit(r) \/ BeginReset(r) \/ CheckReset(r) \/ SaveReset(r)

BeginPlanning(r) ==
  \/ \E expect \in {head.active, Unchecked} :
       \/ BeginSolve(r, expect)
       \/ \E n \in DOMAIN plans, k \in ActivateKeys \cup {NoKey} : BeginActivate(r, n, k, expect)
  \/ \E n \in DOMAIN plans, k \in RestoreKeys : BeginRestore(r, n, k)
  \/ \E e \in Exps : BeginExperiment(r, e) \/ NextCandidate(r, e)

PlanningStep(r) ==
  \/ LookUp(r) \/ ReadActive(r) \/ Reserve(r)
  \/ \E status \in {"PUBLISHABLE", "UNPUBLISHABLE"} : CompleteRun(r, status)
  \/ FailRun(r) \/ AskPublication(r) \/ Publish(r)

Next ==
  \/ \E r \in Requests : EditStep(r) \/ BeginPlanning(r) \/ PlanningStep(r) \/ Refuse(r)
  \/ \E o \in Orders : Start(o) \/ CompleteOrder(o)
  \/ CrashAndRestart

Spec == Init /\ [][Next]_vars

-----------------------------------------------------------------------------
(* Properties.                                                             *)

\* The head is the last revision of the history, and every plan version holds the
\* snapshot the history has under the plan's revision, also when the version
\* was published together with a new revision by a restore.
HistoryKept ==
  /\ Len(chain) = head.rev + 1
  /\ head.snapshot = chain[head.rev + 1]
  /\ \A n \in DOMAIN plans : plans[n].rev <= head.rev /\ plans[n].snapshot = chain[plans[n].rev + 1]

\* scenarios.active_plan_version_id and the flags of plan_applicability name the
\* same plan, and at most one, after any mixture of publications and resets.
ActiveIsOne == {n \in DOMAIN appl : appl[n].active} = {head.active} \ {NoPlan}

\* The active plan's applicability was judged against the current data: whoever
\* changes the data re-evaluates the plan that is active when it commits.
ProjectionCurrent == head.active # NoPlan => appl[head.active].rev = head.rev

\* The one plan the applicability calls active is the head's, and it was
\* reconciled with the head's revision.
ActiveIsCurrent == ActiveIsOne /\ ProjectionCurrent

\* Order statuses say what the execution events say, and an order that was begun
\* always has a plan it runs under: no reset, restore or edit that read the
\* scenario before an event erases it.
FactsKept ==
  /\ \A o \in Orders : head.snapshot.status[o] =
       CASE <<o, "complete">> \in events -> "COMPLETED"
         [] <<o, "start">> \in events /\ <<o, "complete">> \notin events -> "STARTED"
         [] OTHER -> "PENDING"
  /\ events # {} => head.active # NoPlan

\* An idempotency key, and an experiment, publishes one plan version, however
\* often and however concurrently it is asked to.
OncePerKey ==
  \A m, n \in DOMAIN plans : plans[m].key = plans[n].key /\ plans[m].key # NoKey => m = n

Ledger == INSTANCE ScenarioLedger

\* Every request acts as if it read, planned and published in one step, at the
\* moment it committed: no plan over data, an active plan or execution facts
\* that moved while it was being made.
ActsAtOnce == Ledger!Spec
=============================================================================

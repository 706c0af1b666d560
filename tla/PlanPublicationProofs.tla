----------------------- MODULE PlanPublicationProofs -----------------------
(***************************************************************************)
(* PlanPublication for any number of requests, orders, keys and revisions: *)
(* its invariants, and that it implements ScenarioLedger.                  *)
(***************************************************************************)
EXTENDS PlanPublication, FiniteSetTheorems, TLAPS

-----------------------------------------------------------------------------
(* The inductive invariant.                                                *)

\* Each version has its applicability, and its key names it.
VersionsInv ==
  /\ Len(appl) = Len(plans)
  /\ \A n \in DOMAIN plans : plans[n].key # NoKey => keys[plans[n].key] = n

\* No earlier revision is ahead of the head in executing an order.
PastInv ==
  /\ chain[1] = D000
  /\ \A d \in DOMAIN chain, o \in Orders :
       /\ chain[d].status[o] = "COMPLETED" => head.snapshot.status[o] = "COMPLETED"
       /\ chain[d].status[o] = "STARTED" => head.snapshot.status[o] # "PENDING"

\* What a handler has read is still true of the revision it read.
Sound(q) ==
  /\ q.rev <= head.rev
  /\ q.at = "candidate" => q.kind = "experiment"
  /\ q.at \in {"known", "reserved", "completed"} => q.kind \in Planning
  /\ q.kind \in {"activate", "restore"} => q.source \in DOMAIN plans
  /\ q.kind = "reset" /\ q.at = "ready" /\ q.rev = head.rev => events = {}
  /\ q.kind = "restore" => \A o \in Orders : chain[q.rev + 1].status[o] # "STARTED"
  /\ q.kind = "restore" /\ q.at \in {"ready", "reserved", "completed"} =>
       \A o \in Orders : chain[q.rev + 1].status[o] = "COMPLETED" =>
                           plans[q.source].snapshot.status[o] = "COMPLETED"

RequestsInv == \A r \in Requests : Sound(req[r])

IInv ==
  /\ TypeOK /\ IsFiniteSet(events) /\ VersionsInv /\ PastInv /\ RequestsInv
  /\ HistoryKept /\ ActiveIsOne /\ ProjectionCurrent /\ FactsKept

-----------------------------------------------------------------------------
(* Appending to a table.                                                   *)

LEMMA Appended ==
  ASSUME NEW S, NEW s \in Seq(S), NEW e \in S
  PROVE  /\ Append(s, e) \in Seq(S)
         /\ Len(Append(s, e)) = Len(s) + 1
         /\ DOMAIN Append(s, e) = 1 .. Len(s) + 1
         /\ \A i \in 1 .. Len(s) : Append(s, e)[i] = s[i]
         /\ Append(s, e)[Len(s) + 1] = e
  OBVIOUS

LEMMA InitIInv == Init => IInv
<1> SUFFICES ASSUME Init PROVE IInv
  OBVIOUS
<1> USE DataAssumption, KeysAssumption DEF Init
<1>1. D000 \in Snapshot
  BY DEF D000, Snapshot
<1>2. TypeOK
  BY <1>1 DEF TypeOK, Run, RunStatus, Request, Kind, Planning, Idle, NoPlan
<1>3. IsFiniteSet(events)
  BY FS_EmptySet
<1>4. VersionsInv /\ PastInv
  BY DEF VersionsInv, PastInv, D000
<1>5. RequestsInv
  BY DEF RequestsInv, Sound, Idle
<1>6. HistoryKept /\ ProjectionCurrent
  BY DEF HistoryKept, ProjectionCurrent, NoPlan
<1>7. ActiveIsOne /\ FactsKept
  BY DEF ActiveIsOne, FactsKept, D000, NoPlan
<1> QED BY <1>2, <1>3, <1>4, <1>5, <1>6, <1>7 DEF IInv

-----------------------------------------------------------------------------
(* Steps that only read: the versions and the scenario stay as they are.   *)

Scenario == <<head, chain, events, plans, appl, keys>>

LEMMA ReadStep ==
  ASSUME IInv, UNCHANGED Scenario,
         run' \in [Requests -> Run], req' \in [Requests -> Request],
         \A r \in Requests : Sound(req'[r])
  PROVE  IInv'
<1> USE DEF IInv, Scenario
<1>1. TypeOK'
  BY DEF TypeOK
<1>2. VersionsInv' /\ PastInv' /\ HistoryKept' /\ ActiveIsOne' /\ ProjectionCurrent'
  BY DEF VersionsInv, PastInv, HistoryKept, ActiveIsOne, ProjectionCurrent
<1>3. FactsKept' /\ IsFiniteSet(events)'
  BY DEF FactsKept
<1>4. RequestsInv'
  BY DEF RequestsInv, Sound
<1> QED BY <1>1, <1>2, <1>3, <1>4

\* One handler moves on with a record that is sound.
LEMMA HandlerStep ==
  ASSUME IInv, UNCHANGED Scenario, run' \in [Requests -> Run],
         NEW r \in Requests, NEW q \in Request, Sound(q),
         req' = [req EXCEPT ![r] = q]
  PROVE  IInv'
<1>1. req' \in [Requests -> Request]
  BY DEF IInv, TypeOK
<1>2. \A p \in Requests : Sound(req'[p])
  BY DEF IInv, TypeOK, RequestsInv
<1> QED BY <1>1, <1>2, ReadStep

\* It only changes its place.
LEMMA PlaceStep ==
  ASSUME IInv, UNCHANGED Scenario, run' \in [Requests -> Run],
         NEW r \in Requests, NEW place,
         place \in {"known", "ready", "reserved", "candidate", "completed", "done"},
         place = "candidate" => req[r].kind = "experiment",
         place \in {"known", "reserved", "completed"} => req[r].kind \in Planning,
         req[r].kind = "reset" => place = "done" \/ events = {},
         req[r].kind = "restore" => place \in {"known", "done"} \/ req[r].at \in {"ready", "reserved", "completed"},
         MoveTo(r, place)
  PROVE  IInv'
<1> DEFINE q == [req[r] EXCEPT !.at = place]
<1>1. q \in Request
  BY DEF IInv, TypeOK, Request
<1>2. Sound(q)
  BY DEF IInv, TypeOK, RequestsInv, Sound, Request
<1>3. req' = [req EXCEPT ![r] = q]
  BY DEF MoveTo
<1> QED BY <1>1, <1>2, <1>3, HandlerStep

-----------------------------------------------------------------------------
(* The handlers' steps that leave the scenario alone.                      *)

LEMMA BeginSteps ==
  ASSUME IInv, NEW r \in Requests, NEW q \in Request,
         q.rev = head.rev \/ \E p \in Requests : q = [req[p] EXCEPT !.at = "ready"] /\ req[p].kind = "experiment",
         q.at = "read" \/ (q.at = "ready" /\ q.kind \in {"solve", "experiment"}),
         q.kind \in {"activate", "restore"} => q.source \in DOMAIN plans,
         q.kind = "restore" => None("STARTED"),
         req' = [req EXCEPT ![r] = q], UNCHANGED tables
  PROVE  IInv'
<1>1. run' \in [Requests -> Run] /\ UNCHANGED Scenario
  BY DEF tables, Scenario, IInv, TypeOK
<1>2. q.rev <= head.rev
  <2>1. CASE q.rev = head.rev
    BY <2>1 DEF IInv, TypeOK
  <2>2. ASSUME NEW p \in Requests, q = [req[p] EXCEPT !.at = "ready"] PROVE q.rev <= head.rev
    <3>1. req[p] \in Request /\ Sound(req[p])
      BY DEF IInv, TypeOK, RequestsInv
    <3>2. q.rev = req[p].rev
      BY <2>2, <3>1 DEF Request
    <3> QED BY <3>1, <3>2 DEF Sound
  <2> QED BY <2>1, <2>2
<1>3. q.kind = "restore" => q.rev = head.rev
  BY DEF IInv, TypeOK, Request
<1>4. Sound(q)
  BY <1>2, <1>3 DEF Sound, None, IInv, HistoryKept
<1> QED BY <1>1, <1>4, HandlerStep

LEMMA EditBegins ==
  ASSUME IInv, NEW r \in Requests, BeginReset(r) \/ \E d \in Data : BeginEdit(r, d)
  PROVE  IInv'
<1>1. PICK q \in Request :
        /\ q.rev = head.rev /\ q.at = "read" /\ q.kind \in {"edit", "reset"}
        /\ req' = [req EXCEPT ![r] = q]
  BY DataAssumption DEF BeginReset, BeginEdit, IInv, TypeOK, Idle, Request, Kind, NoPlan
<1>2. UNCHANGED tables
  BY DEF BeginReset, BeginEdit
<1> QED BY <1>1, <1>2, BeginSteps

LEMMA PlanningBegins ==
  ASSUME IInv, NEW r \in Requests, BeginPlanning(r)
  PROVE  IInv'
<1>0. /\ Idle \in Request /\ req \in [Requests -> Request]
      /\ head.rev \in Nat /\ head.active \in Nat /\ DOMAIN plans \subseteq Nat
  BY DataAssumption DEF IInv, TypeOK, Idle, Request, Kind, NoPlan
<1> USE <1>0 DEF Request, Kind, Planning
<1>1. ASSUME NEW x \in {head.active, Unchecked}, BeginSolve(r, x) PROVE IInv'
  <2> DEFINE q == [Idle EXCEPT !.at = "ready", !.kind = "solve", !.rev = head.rev, !.expect = x]
  <2>1. q \in Request /\ req' = [req EXCEPT ![r] = q] /\ UNCHANGED tables
    BY <1>1 DEF BeginSolve
  <2> QED BY <2>1, BeginSteps
<1>2. ASSUME NEW x \in {head.active, Unchecked}, NEW n \in DOMAIN plans,
             NEW k \in ActivateKeys \cup {NoKey}, BeginActivate(r, n, k, x)
      PROVE  IInv'
  <2> DEFINE q == [Idle EXCEPT !.at = "read", !.kind = "activate", !.rev = head.rev, !.expect = x,
                               !.source = n, !.key = k]
  <2>1. q \in Request /\ req' = [req EXCEPT ![r] = q] /\ UNCHANGED tables
    BY <1>2 DEF BeginActivate, PublicationKeys
  <2> QED BY <2>1, BeginSteps
<1>3. ASSUME NEW n \in DOMAIN plans, NEW k \in RestoreKeys, BeginRestore(r, n, k) PROVE IInv'
  <2> DEFINE q == [Idle EXCEPT !.at = "read", !.kind = "restore", !.rev = head.rev, !.source = n, !.key = k]
  <2>1. q \in Request /\ req' = [req EXCEPT ![r] = q] /\ UNCHANGED tables /\ None("STARTED")
    BY <1>3 DEF BeginRestore, PublicationKeys
  <2> QED BY <2>1, BeginSteps
<1>4. ASSUME NEW e \in Exps, BeginExperiment(r, e) PROVE IInv'
  <2> DEFINE q == [Idle EXCEPT !.at = "read", !.kind = "experiment", !.rev = head.rev, !.key = e]
  <2>1. q \in Request /\ req' = [req EXCEPT ![r] = q] /\ UNCHANGED tables
    BY <1>4 DEF BeginExperiment, PublicationKeys
  <2> QED BY <2>1, BeginSteps
<1>5. ASSUME NEW e \in Exps, NextCandidate(r, e) PROVE IInv'
  <2>1. PICK p \in Siblings(e) : req' = [req EXCEPT ![r] = [req[p] EXCEPT !.at = "ready"]]
    BY <1>5 DEF NextCandidate
  <2> DEFINE q == [req[p] EXCEPT !.at = "ready"]
  <2>2. p \in Requests /\ req[p].kind = "experiment"
    BY DEF Siblings, Is
  <2>3. q \in Request /\ req' = [req EXCEPT ![r] = q] /\ UNCHANGED tables
    BY <1>5, <2>1, <2>2 DEF NextCandidate
  <2> QED BY <2>2, <2>3, BeginSteps
<1> QED BY <1>1, <1>2, <1>3, <1>4, <1>5 DEF BeginPlanning

LEMMA MovesOn ==
  ASSUME IInv, NEW r \in Requests,
         CheckReset(r) \/ LookUp(r) \/ Reserve(r) \/ FailRun(r) \/ AskPublication(r) \/ Refuse(r)
         \/ \E status \in {"PUBLISHABLE", "UNPUBLISHABLE"} : CompleteRun(r, status)
  PROVE  IInv'
<1>1. CASE CheckReset(r)
  BY <1>1, PlaceStep DEF CheckReset, Is, tables, Scenario, IInv, TypeOK
<1>2. CASE LookUp(r)
  <2>1. PICK place \in {"done", "known", "ready"} :
          MoveTo(r, place) /\ (req[r].kind = "restore" => place # "ready")
    BY <1>2 DEF LookUp
  <2>2. /\ req[r].kind \in Planning \ {"reset", "experiment"}
        /\ UNCHANGED Scenario /\ run' \in [Requests -> Run]
    BY <1>2 DEF LookUp, Is, Planning, tables, Scenario, IInv, TypeOK
  <2> QED BY <2>1, <2>2, PlaceStep
<1>3. CASE Reserve(r)
  <2>1. Watermark \in Nat
    BY FS_CardinalityType DEF Watermark, IInv
  <2>2. run' \in [Requests -> Run]
    BY <1>3, <2>1 DEF Reserve, IInv, TypeOK, Run, RunStatus
  <2> QED BY <1>3, <2>2, PlaceStep DEF Reserve, Is, Planning, Scenario
<1>4. CASE FailRun(r)
  <2>1. run' \in [Requests -> Run]
    BY <1>4 DEF FailRun, IInv, TypeOK, Run, RunStatus
  <2> QED BY <1>4, <2>1, PlaceStep DEF FailRun, Is, Scenario
<1>5. CASE AskPublication(r)
  <2>1. req[r].kind = "experiment"
    BY <1>5 DEF AskPublication, IInv, RequestsInv, Sound
  <2> QED BY <1>5, <2>1, PlaceStep DEF AskPublication, tables, Scenario, IInv, TypeOK, Planning
<1>6. CASE Refuse(r)
  BY <1>6, PlaceStep DEF Refuse, Is, tables, Scenario, IInv, TypeOK
<1>7. ASSUME NEW status \in {"PUBLISHABLE", "UNPUBLISHABLE"}, CompleteRun(r, status) PROVE IInv'
  <2>1. run' \in [Requests -> Run]
    <3>1. run \in [Requests -> Run] /\ run' = [run EXCEPT ![r].status = status]
      BY <1>7 DEF CompleteRun, IInv, TypeOK
    <3>2. [run[r] EXCEPT !.status = status] \in Run
      BY <3>1 DEF Run, RunStatus
    <3> QED BY <3>1, <3>2
  <2>2. req[r].kind \in Planning /\ req[r].kind # "reset"
    BY <1>7 DEF CompleteRun, IInv, RequestsInv, Sound, Planning
  <2> DEFINE place == CASE status = "UNPUBLISHABLE" -> "done"
                        [] req[r].kind = "experiment" -> "candidate"
                        [] OTHER -> "completed"
  <2>3. MoveTo(r, place) /\ req[r].at = "reserved" /\ UNCHANGED Scenario
    BY <1>7 DEF CompleteRun, Scenario
  <2>4. /\ place \in {"done", "candidate", "completed"}
        /\ place = "candidate" => req[r].kind = "experiment"
    OBVIOUS
  <2> HIDE DEF place
  <2> QED BY <2>1, <2>2, <2>3, <2>4, PlaceStep
<1> QED BY <1>1, <1>2, <1>3, <1>4, <1>5, <1>6, <1>7

LEMMA ReadActiveStep ==
  ASSUME IInv, NEW r \in Requests, ReadActive(r)
  PROVE  IInv'
<1> DEFINE q == [req[r] EXCEPT !.at = "ready", !.expect = head.active]
<1>1. q \in Request
  <2>1. head.active \in Nat /\ req[r] \in Request
    BY DEF IInv, TypeOK
  <2> QED BY <2>1 DEF Request
<1>2. Sound(q)
  <2>1. req[r] \in Request /\ Sound(req[r])
    BY DEF IInv, TypeOK, RequestsInv
  <2>2. /\ q.at = "ready" /\ q.kind = req[r].kind /\ q.rev = req[r].rev /\ q.source = req[r].source
        /\ q.kind # "reset"
    BY <2>1 DEF Request, ReadActive, Is
  <2>3. q.kind = "restore" =>
          \A o \in Orders : chain[q.rev + 1].status[o] = "COMPLETED" =>
                             plans[q.source].snapshot.status[o] = "COMPLETED"
    BY <2>2 DEF ReadActive, Is, Reopens, Current
  <2> HIDE DEF q
  <2> QED BY <2>1, <2>2, <2>3 DEF Sound
<1>3. UNCHANGED Scenario /\ run' \in [Requests -> Run] /\ req' = [req EXCEPT ![r] = q]
  BY DEF ReadActive, tables, Scenario, IInv, TypeOK
<1> QED BY <1>1, <1>2, <1>3, HandlerStep

LEMMA CrashStep ==
  ASSUME IInv, CrashAndRestart
  PROVE  IInv'
<1>1. run' \in [Requests -> Run]
  BY DEF CrashAndRestart, RecoveredRun, IInv, TypeOK, Run, RunStatus
<1>2. req' \in [Requests -> Request]
  <2>1. ASSUME NEW r \in Requests PROVE req'[r] \in Request
    <3>1. req[r] \in Request
      BY DEF IInv, TypeOK
    <3>2. PICK place \in {"new", "candidate", "done"} : req'[r] = [req[r] EXCEPT !.at = place]
      BY DEF CrashAndRestart
    <3> QED BY <3>1, <3>2 DEF Request
  <2>2. req' = [r \in Requests |-> req'[r]]
    BY DEF CrashAndRestart
  <2> QED BY <2>1, <2>2
<1>3. ASSUME NEW r \in Requests PROVE Sound(req'[r])
  <2>1. req[r] \in Request /\ Sound(req[r])
    BY DEF IInv, TypeOK, RequestsInv
  <2>2. PICK place \in {"new", "candidate", "done"} :
          /\ req'[r] = [req[r] EXCEPT !.at = place]
          /\ place = "candidate" => req[r].kind = "experiment"
    BY DEF CrashAndRestart, IsCandidate
  <2> QED BY <2>1, <2>2 DEF Sound, Request
<1>4. UNCHANGED Scenario
  BY DEF CrashAndRestart, Scenario
<1> QED BY <1>1, <1>2, <1>3, <1>4, ReadStep
-----------------------------------------------------------------------------
(* Steps that write: the history and the versions only grow, and new events *)
(* come with a new revision.                                                *)

Grows ==
  /\ \A d \in DOMAIN chain : d \in DOMAIN chain' /\ chain'[d] = chain[d]
  /\ \A n \in DOMAIN plans : n \in DOMAIN plans' /\ plans'[n] = plans[n]
  /\ head.rev <= head'.rev
  /\ head'.rev = head.rev => UNCHANGED events

\* Who was served is done, everybody else is where they were.
Served ==
  /\ req' \in [Requests -> Request]
  /\ \A r \in Requests : req'[r] = req[r] \/ req'[r] = [req[r] EXCEPT !.at = "done"]

LEMMA SoundKept ==
  ASSUME IInv, TypeOK', Grows, Served
  PROVE  RequestsInv'
<1> SUFFICES ASSUME NEW r \in Requests PROVE Sound(req[r])'
  BY DEF RequestsInv
<1>1. /\ req[r] \in Request /\ Sound(req[r])
      /\ head.rev \in Nat /\ head'.rev \in Nat
      /\ req[r].rev + 1 \in DOMAIN chain
  <2>1. /\ req[r] \in Request /\ Sound(req[r])
        /\ head.rev \in Nat /\ head'.rev \in Nat
        /\ DOMAIN chain = 1 .. head.rev + 1
    BY DEF IInv, TypeOK, RequestsInv, HistoryKept
  <2>2. req[r].rev \in Nat /\ req[r].rev <= head.rev
    BY <2>1 DEF Sound, Request
  <2> QED BY <2>1, <2>2
<1>2. CASE req'[r] = req[r]
  BY <1>1, <1>2 DEF Grows, Sound, Request
<1>3. CASE req'[r] = [req[r] EXCEPT !.at = "done"]
  BY <1>1, <1>3 DEF Grows, Sound, Request
<1> QED BY <1>2, <1>3 DEF Served

LEMMA ServedOne ==
  ASSUME IInv, NEW r \in Requests, MoveTo(r, "done")
  PROVE  Served
<1>1. req \in [Requests -> Request] /\ req' = [req EXCEPT ![r].at = "done"]
  BY DEF MoveTo, IInv, TypeOK
<1>2. [req[r] EXCEPT !.at = "done"] \in Request
  BY <1>1 DEF Request
<1> QED BY <1>1, <1>2 DEF Served

LEMMA Revised ==
  ASSUME IInv, NEW s \in Snapshot, NEW a, Revise(s, a)
  PROVE  /\ head' = [rev |-> head.rev + 1, snapshot |-> s, active |-> a]
         /\ head.rev \in Nat /\ Len(chain) = head.rev + 1
         /\ chain' \in Seq(Snapshot)
         /\ Len(chain') = Len(chain) + 1
         /\ \A d \in DOMAIN chain : d \in DOMAIN chain' /\ chain'[d] = chain[d]
         /\ chain'[head.rev + 2] = s
<1>1. chain \in Seq(Snapshot) /\ head.rev \in Nat /\ Len(chain) = head.rev + 1
  BY DEF IInv, TypeOK, HistoryKept
<1>2. chain' = Append(chain, s) /\ head' = [rev |-> head.rev + 1, snapshot |-> s, active |-> a]
  BY DEF Revise
<1> QED BY <1>1, <1>2, Appended

-----------------------------------------------------------------------------
(* A new revision under the active plan, or under none.                    *)

\* The orders of s are at least as far as those of the head.
NotBehind(s) ==
  \A o \in Orders :
    /\ head.snapshot.status[o] = "COMPLETED" => s.status[o] = "COMPLETED"
    /\ head.snapshot.status[o] = "STARTED" => s.status[o] # "PENDING"

LEMMA PastKept ==
  ASSUME IInv, NEW s \in Snapshot, NEW a, Revise(s, a), NotBehind(s)
  PROVE  PastInv'
<1>1. head'.snapshot = s /\ chain'[1] = D000
  BY Revised DEF IInv, PastInv, HistoryKept
<1>2. ASSUME NEW d \in DOMAIN chain', NEW o \in Orders
      PROVE  /\ chain'[d].status[o] = "COMPLETED" => s.status[o] = "COMPLETED"
             /\ chain'[d].status[o] = "STARTED" => s.status[o] # "PENDING"
  <2>1. CASE d \in DOMAIN chain
    <3>1. chain'[d] = chain[d] /\ head.snapshot.status[o] \in {"PENDING", "STARTED", "COMPLETED"}
      BY <2>1, Revised DEF IInv, TypeOK, Snapshot
    <3> QED BY <3>1, <2>1 DEF IInv, PastInv, NotBehind
  <2>2. CASE d = head.rev + 2
    BY <2>2, Revised
  <2> QED BY <2>1, <2>2, Revised
<1> QED BY <1>1, <1>2 DEF PastInv

LEMMA DataStep ==
  ASSUME IInv, NEW s \in Snapshot, NEW kept \in BOOLEAN,
         Revise(s, IF kept THEN head.active ELSE NoPlan), Rebind(kept), NotBehind(s),
         UNCHANGED <<plans, keys, run>>, Served,
         events' \subseteq Orders \X Steps, IsFiniteSet(events'), FactsKept'
  PROVE  IInv'
<1> DEFINE a == IF kept THEN head.active ELSE NoPlan
<1>1. /\ head.active \in 0 .. Len(plans) /\ Len(plans) \in Nat /\ DOMAIN plans = 1 .. Len(plans)
      /\ Len(appl) = Len(plans) /\ DOMAIN appl = 1 .. Len(plans)
      /\ appl \in Seq([active : BOOLEAN, rev : Nat])
      /\ UNCHANGED plans /\ head'.active = a /\ head'.rev = head.rev + 1
  BY Revised DEF IInv, TypeOK, VersionsInv
<1>2. /\ appl' \in Seq([active : BOOLEAN, rev : Nat]) /\ Len(appl') = Len(appl)
      /\ DOMAIN appl' = DOMAIN appl
      /\ \A n \in DOMAIN appl : n # head.active => appl'[n] = appl[n]
      /\ head.active # NoPlan => appl'[head.active] = [active |-> kept, rev |-> head.rev + 1]
  <2>1. head.rev + 1 \in Nat
    BY Revised
  <2>2. CASE head.active = NoPlan
    BY <1>1, <2>2 DEF Rebind
  <2>3. CASE head.active # NoPlan
    <3>1. appl' = [appl EXCEPT ![head.active] = [active |-> kept, rev |-> head.rev + 1]]
      BY <2>3 DEF Rebind
    <3>2. head.active \in DOMAIN appl
      BY <1>1, <2>3 DEF NoPlan
    <3> QED BY <1>1, <2>1, <3>1, <3>2
  <2> QED BY <2>2, <2>3
<1>3. TypeOK'
  <2>1. head' \in [rev : Nat, snapshot : Snapshot, active : 0 .. Len(plans')]
    BY <1>1, Revised DEF NoPlan
  <2>2. chain' \in Seq(Snapshot)
    BY Revised
  <2> QED BY <1>1, <1>2, <2>1, <2>2 DEF IInv, TypeOK, Served
<1>4. VersionsInv'
  BY <1>1, <1>2 DEF IInv, VersionsInv
<1>5. PastInv'
  BY PastKept
<1>6. Grows
  BY <1>1, Revised DEF Grows
<1>7. RequestsInv'
  BY <1>3, <1>6, SoundKept
<1>8. HistoryKept'
  <2>1. ASSUME NEW n \in DOMAIN plans'
        PROVE  plans'[n].rev <= head'.rev /\ plans'[n].snapshot = chain'[plans'[n].rev + 1]
    <3>1. plans'[n] = plans[n] /\ n \in DOMAIN plans /\ plans[n] \in Plan
      BY <1>1 DEF IInv, TypeOK
    <3>2. /\ plans[n].rev \in Nat /\ plans[n].rev <= head.rev
          /\ plans[n].snapshot = chain[plans[n].rev + 1]
      BY <3>1 DEF IInv, HistoryKept, Plan
    <3>3. plans[n].rev + 1 \in DOMAIN chain
      BY <3>2, Revised DEF IInv, TypeOK
    <3> QED BY <3>1, <3>2, <3>3, Revised
  <2> QED BY <2>1, Revised DEF HistoryKept
<1>9. ActiveIsOne'
  BY <1>1, <1>2 DEF IInv, ActiveIsOne, NoPlan
<1>10. ProjectionCurrent'
  BY <1>1, <1>2 DEF ProjectionCurrent, NoPlan
<1> QED BY <1>3, <1>4, <1>5, <1>7, <1>8, <1>9, <1>10 DEF IInv

LEMMA EditSaved ==
  ASSUME IInv, NEW r \in Requests, SaveEdit(r)
  PROVE  /\ IInv'
         /\ Current(r) = head.snapshot
<1> DEFINE s == [Current(r) EXCEPT !.data = req[r].data]
<1>1. Current(r) = head.snapshot
  BY DEF SaveEdit, Current, IInv, HistoryKept
<1>2. s \in Snapshot /\ s.status = head.snapshot.status
  BY <1>1 DEF IInv, TypeOK, Snapshot, Request
<1>3. NotBehind(s)
  BY <1>2 DEF NotBehind, IInv, TypeOK, Snapshot
<1>4. Revise(s, head.active) /\ head'.snapshot = s /\ UNCHANGED events
  BY DEF SaveEdit, Revise
<1>5. FactsKept'
  BY <1>2, <1>4 DEF IInv, FactsKept, Revise
<1>6. Served
  BY ServedOne DEF SaveEdit
<1>7. IInv'
  <2>1. events' \subseteq Orders \X Steps /\ IsFiniteSet(events')
    BY <1>4 DEF IInv, TypeOK
  <2>2. Rebind(TRUE) /\ UNCHANGED <<plans, keys, run>>
    BY DEF SaveEdit
  <2>3. Revise(s, IF TRUE THEN head.active ELSE NoPlan)
    BY <1>4
  <2> HIDE DEF s
  <2> QED BY <1>2, <1>3, <1>5, <1>6, <2>1, <2>2, <2>3, DataStep
<1> QED BY <1>1, <1>7

LEMMA ResetSaved ==
  ASSUME IInv, NEW r \in Requests, SaveReset(r)
  PROVE  /\ IInv'
         /\ chain[1] = D000
         /\ head.snapshot.status = D000.status
<1>1. chain[1] = D000 /\ events = {} /\ UNCHANGED events
  BY DEF SaveReset, Is, IInv, PastInv, RequestsInv, Sound
<1>2. \A o \in Orders : head.snapshot.status[o] = "PENDING"
  BY <1>1 DEF IInv, FactsKept
<1>3. head.snapshot.status = D000.status
  BY <1>2 DEF IInv, TypeOK, Snapshot, D000
<1>4. D000 \in Snapshot
  BY DataAssumption DEF D000, Snapshot
<1>5. NotBehind(D000)
  BY <1>2 DEF NotBehind
<1>6. Revise(D000, IF FALSE THEN head.active ELSE NoPlan) /\ Rebind(FALSE) /\ UNCHANGED <<plans, keys, run>>
  BY <1>1 DEF SaveReset
<1>7. FactsKept'
  BY <1>1, <1>6 DEF FactsKept, Revise, D000
<1>8. Served
  BY ServedOne DEF SaveReset
<1>9. events' \subseteq Orders \X Steps /\ IsFiniteSet(events')
  BY <1>1 DEF IInv, TypeOK
<1> QED BY <1>1, <1>3, <1>4, <1>5, <1>6, <1>7, <1>8, <1>9, DataStep

LEMMA Recorded ==
  ASSUME IInv, NEW o \in Orders, Start(o) \/ CompleteOrder(o)
  PROVE  IInv'
<1>1. PICK step \in Steps, status \in {"STARTED", "COMPLETED"} :
        /\ Record(o, step, status)
        /\ \/ step = "start" /\ status = "STARTED" /\ head.snapshot.status[o] = "PENDING"
              /\ head.active # NoPlan
           \/ step = "complete" /\ status = "COMPLETED" /\ head.snapshot.status[o] = "STARTED"
  BY DEF Start, CompleteOrder, Steps
<1> DEFINE s == [head.snapshot EXCEPT !.status[o] = status]
<1>2. head.snapshot \in Snapshot
  BY DEF IInv, TypeOK
<1>3. /\ s \in Snapshot /\ s.status[o] = status
      /\ \A x \in Orders : x # o => s.status[x] = head.snapshot.status[x]
  BY <1>2 DEF Snapshot
<1>4. /\ Revise(s, IF TRUE THEN head.active ELSE NoPlan) /\ Rebind(TRUE)
      /\ UNCHANGED <<plans, keys, run>> /\ UNCHANGED req
      /\ events' = events \cup {<<o, step>>}
      /\ head'.snapshot = s /\ head'.active = head.active
  BY <1>1 DEF Record, Revise
<1> HIDE DEF s
<1>5. NotBehind(s)
  BY <1>1, <1>3 DEF NotBehind
<1>6. events' \subseteq Orders \X Steps /\ IsFiniteSet(events')
  <2>1. events \subseteq Orders \X Steps /\ IsFiniteSet(events) /\ <<o, step>> \in Orders \X Steps
    BY DEF IInv, TypeOK
  <2>2. IsFiniteSet(events \cup {<<o, step>>})
    BY <2>1, FS_AddElement
  <2> QED BY <1>4, <2>1, <2>2
<1>7. FactsKept'
  <2>1. ASSUME NEW x \in Orders
        PROVE  head'.snapshot.status[x] =
                 CASE <<x, "complete">> \in events' -> "COMPLETED"
                   [] <<x, "start">> \in events' /\ <<x, "complete">> \notin events' -> "STARTED"
                   [] OTHER -> "PENDING"
    BY <1>1, <1>3, <1>4 DEF IInv, FactsKept
  <2>2. head'.active # NoPlan
    BY <1>1, <1>4 DEF IInv, FactsKept
  <2> QED BY <2>1, <2>2 DEF FactsKept
<1>8. Served
  BY <1>4 DEF Served, IInv, TypeOK
<1> QED BY <1>3, <1>4, <1>5, <1>6, <1>7, <1>8, DataStep
-----------------------------------------------------------------------------
(* Publication.                                                            *)

LEMMA PlanType ==
  ASSUME IInv, NEW n \in DOMAIN plans
  PROVE  plans[n] \in Plan /\ plans[n].rev \in Nat /\ plans[n].snapshot \in Snapshot
<1>1. plans[n] \in Plan
  BY DEF IInv, TypeOK
<1> QED BY <1>1 DEF Plan

\* The facts a publication rests on: what the handler read is the present.
LEMMA PublishesThePresent ==
  ASSUME IInv, NEW r \in Requests, Publish(r)
  PROVE  /\ req[r] \in Request /\ Sound(req[r]) /\ req[r].rev = head.rev
         /\ run[r].active = head.active
         /\ Current(r) = head.snapshot
         /\ req[r].kind = "restore" => req[r].source \in DOMAIN plans
         /\ Target(r) \in Snapshot /\ TargetRevision(r) \in Nat
         /\ TargetRevision(r) = IF req[r].kind = "restore" THEN head.rev + 1 ELSE head.rev
         /\ Target(r) = IF req[r].kind = "restore" THEN plans[req[r].source].snapshot ELSE head.snapshot
<1>1. req[r] \in Request /\ Sound(req[r]) /\ req[r].rev = head.rev /\ run[r].active = head.active
  BY DEF Publish, Fresh, IInv, TypeOK, RequestsInv
<1>2. Current(r) = head.snapshot
  BY <1>1 DEF Current, IInv, HistoryKept
<1>3. req[r].kind = "restore" => req[r].source \in DOMAIN plans
  BY <1>1 DEF Sound
<1>4. Target(r) \in Snapshot
  <2>1. head.snapshot \in Snapshot
    BY DEF IInv, TypeOK
  <2> QED BY <1>2, <1>3, <2>1, PlanType DEF Target
<1> QED BY <1>1, <1>2, <1>3, <1>4 DEF Target, TargetRevision, IInv, TypeOK

\* A restore brings back data, and undoes or invents no execution: the version it
\* restores has every order exactly where it is now.
LEMMA RestoreKeepsStatus ==
  ASSUME IInv, NEW r \in Requests, Publish(r)
  PROVE  Target(r).status = head.snapshot.status
<1>1. CASE req[r].kind # "restore"
  BY <1>1, PublishesThePresent
<1>2. CASE req[r].kind = "restore"
  <2> DEFINE n == req[r].source
             s == plans[n].snapshot
  <2>1. n \in DOMAIN plans /\ Target(r) = s /\ s \in Snapshot /\ head.snapshot \in Snapshot
    BY <1>2, PublishesThePresent DEF IInv, TypeOK
  <2>2. plans[n].rev + 1 \in DOMAIN chain /\ s = chain[plans[n].rev + 1]
    <3>1. plans[n].rev \in Nat /\ head.rev \in Nat /\ DOMAIN chain = 1 .. head.rev + 1
      BY <2>1, PlanType DEF IInv, TypeOK, HistoryKept
    <3> QED BY <2>1, <3>1 DEF IInv, HistoryKept
  <2>3. req[r].at = "completed" /\ Sound(req[r]) /\ chain[req[r].rev + 1] = head.snapshot
    BY PublishesThePresent DEF Publish, Current
  <2>4. ASSUME NEW o \in Orders PROVE s.status[o] = head.snapshot.status[o]
    <3>1. s.status[o] \in {"PENDING", "STARTED", "COMPLETED"}
          /\ head.snapshot.status[o] \in {"PENDING", "STARTED", "COMPLETED"}
      BY <2>1 DEF Snapshot
    <3>2. /\ head.snapshot.status[o] # "STARTED"
          /\ head.snapshot.status[o] = "COMPLETED" => s.status[o] = "COMPLETED"
      BY <1>2, <2>3 DEF Sound
    <3>3. /\ s.status[o] = "COMPLETED" => head.snapshot.status[o] = "COMPLETED"
          /\ s.status[o] = "STARTED" => head.snapshot.status[o] # "PENDING"
      BY <2>2 DEF IInv, PastInv
    <3> QED BY <3>1, <3>2, <3>3
  <2> QED BY <2>1, <2>4 DEF Snapshot
<1> QED BY <1>1, <1>2

LEMMA Published ==
  ASSUME IInv, NEW r \in Requests, Publish(r)
  PROVE  IInv'
<1> DEFINE v == Len(plans) + 1
           rev == TargetRevision(r)
           s == Target(r)
           k == req[r].key
           restore == req[r].kind = "restore"
<1>0. /\ Len(plans) \in Nat /\ DOMAIN plans = 1 .. Len(plans) /\ plans \in Seq(Plan)
      /\ Len(appl) = Len(plans) /\ DOMAIN appl = 1 .. Len(plans)
      /\ appl \in Seq([active : BOOLEAN, rev : Nat])
      /\ head.rev \in Nat /\ head.snapshot \in Snapshot /\ head.active \in 0 .. Len(plans)
      /\ keys \in [PublicationKeys -> 0 .. Len(plans)]
      /\ chain \in Seq(Snapshot) /\ Len(chain) = head.rev + 1
  BY DEF IInv, TypeOK, VersionsInv, HistoryKept
<1>1. /\ s \in Snapshot /\ rev \in Nat /\ k \in PublicationKeys \cup {NoKey}
      /\ rev = IF restore THEN head.rev + 1 ELSE head.rev
      /\ ~restore => s = head.snapshot
      /\ s.status = head.snapshot.status
  BY PublishesThePresent, RestoreKeepsStatus DEF Request
<1>2. /\ plans' = Append(plans, Version(r)) /\ Version(r) \in Plan
      /\ Version(r).rev = rev /\ Version(r).snapshot = s /\ Version(r).key = k
  <2>1. run[r].active \in Nat
    BY <1>0, PublishesThePresent
  <2>2. plans' = Append(plans, Version(r))
    BY DEF Publish, AddVersion
  <2> QED BY <1>1, <2>1, <2>2 DEF Version, Plan
<1>3. /\ plans' \in Seq(Plan) /\ Len(plans') = v /\ DOMAIN plans' = 1 .. v
      /\ \A n \in DOMAIN plans : plans'[n] = plans[n]
      /\ plans'[v] = Version(r)
  BY <1>0, <1>2, Appended
<1>4. /\ appl' \in Seq([active : BOOLEAN, rev : Nat]) /\ Len(appl') = v /\ DOMAIN appl' = 1 .. v
      /\ \A n \in 1 .. Len(plans) : appl'[n].active = FALSE
      /\ appl'[v] = [active |-> TRUE, rev |-> rev]
  <2> DEFINE Row == [active : BOOLEAN, rev : Nat]
             row == [active |-> TRUE, rev |-> rev]
  <2>0. \A n \in 1 .. Len(plans) : appl[n] \in Row
    <3>1. appl \in Seq(Row)
      BY <1>0
    <3> HIDE DEF Row
    <3> QED BY <1>0, <3>1
  <2>1. ASSUME NEW n \in 1 .. Len(plans) PROVE [appl[n] EXCEPT !.active = FALSE] \in Row
    BY <2>0
  <2>2. Deactivated = [n \in 1 .. Len(plans) |-> [appl[n] EXCEPT !.active = FALSE]]
    BY <1>0 DEF Deactivated
  <2>3. \A n \in 1 .. Len(plans) : Deactivated[n].active = FALSE
    BY <2>0, <2>2
  <2>4. appl' = Append(Deactivated, row) /\ row \in Row
    BY <1>1 DEF Publish, AddVersion
  <2> HIDE DEF Row, row
  <2>5. Deactivated \in Seq(Row) /\ Len(Deactivated) = Len(plans)
    BY <1>0, <2>1, <2>2
  <2>6. /\ appl' \in Seq(Row) /\ Len(appl') = v /\ DOMAIN appl' = 1 .. v
        /\ \A n \in 1 .. Len(plans) : appl'[n].active = FALSE
        /\ appl'[v] = row
    BY <2>3, <2>4, <2>5, Appended
  <2> QED BY <2>6 DEF Row, row
<1>5. /\ head' = [rev |-> rev, snapshot |-> s, active |-> v]
      /\ chain' \in Seq(Snapshot) /\ Len(chain') = rev + 1
      /\ chain'[rev + 1] = s
      /\ \A d \in DOMAIN chain : d \in DOMAIN chain' /\ chain'[d] = chain[d]
  <2>1. CASE restore
    <3>1. Revise(s, v)
      BY <2>1 DEF Publish, Replace
    <3> QED BY <1>0, <1>1, <2>1, <3>1, Revised
  <2>2. CASE ~restore
    <3>1. head' = [head EXCEPT !.active = v] /\ chain' = chain
      BY <2>2 DEF Publish, Replace
    <3>2. head \in [rev : Nat, snapshot : Snapshot, active : 0 .. Len(plans)] /\ head.snapshot = chain[head.rev + 1]
      BY DEF IInv, TypeOK, HistoryKept
    <3> QED BY <1>0, <1>1, <2>2, <3>1, <3>2
  <2> QED BY <2>1, <2>2
<1>6. /\ keys' \in [PublicationKeys -> 0 .. v]
      /\ k # NoKey => keys'[k] = v /\ keys[k] = NoPlan
      /\ \A x \in PublicationKeys : x # k => keys'[x] = keys[x]
  BY <1>0, <1>1 DEF Publish, KeyFree
<1>7. Served /\ UNCHANGED <<events, run>>
  BY ServedOne DEF Publish
<1> HIDE DEF v, rev, s, k, restore
<1>8. v = Len(plans) + 1
  BY DEF v
<1>9. TypeOK'
  <2>1. head' \in [rev : Nat, snapshot : Snapshot, active : 0 .. Len(plans')]
    BY <1>0, <1>1, <1>3, <1>5, <1>8
  <2> QED BY <1>3, <1>4, <1>5, <1>6, <1>7, <2>1 DEF IInv, TypeOK, Served
<1>10. VersionsInv'
  <2>1. ASSUME NEW n \in DOMAIN plans', plans'[n].key # NoKey PROVE keys'[plans'[n].key] = n
    <3>1. CASE n = v
      BY <1>2, <1>3, <1>6, <2>1, <3>1
    <3>2. CASE n # v
      <4>1. n \in DOMAIN plans /\ plans'[n] = plans[n] /\ n # NoPlan /\ plans[n] \in Plan
        BY <1>0, <1>3, <1>8, <3>2 DEF NoPlan
      <4>2. keys[plans[n].key] = n /\ plans[n].key \in PublicationKeys
        BY <2>1, <4>1 DEF IInv, VersionsInv, Plan
      <4> QED BY <1>6, <2>1, <4>1, <4>2
    <3> QED BY <3>1, <3>2
  <2> QED BY <1>3, <1>4, <2>1 DEF VersionsInv
<1>11. PastInv'
  <2>1. ASSUME NEW d \in DOMAIN chain', d \notin DOMAIN chain PROVE chain'[d] = s
    BY <1>0, <1>1, <1>5, <2>1
  <2>2. chain'[1] = D000
    BY <1>0, <1>5 DEF IInv, PastInv
  <2>3. head'.snapshot.status = head.snapshot.status /\ s.status = head.snapshot.status
    BY <1>1, <1>5
  <2>4. ASSUME NEW d \in DOMAIN chain', NEW o \in Orders
        PROVE /\ chain'[d].status[o] = "COMPLETED" => head'.snapshot.status[o] = "COMPLETED"
              /\ chain'[d].status[o] = "STARTED" => head'.snapshot.status[o] # "PENDING"
    BY <1>5, <2>1, <2>3 DEF IInv, PastInv
  <2> QED BY <2>2, <2>4 DEF PastInv
<1>12. Grows
  BY <1>0, <1>1, <1>3, <1>5, <1>7, <1>8 DEF Grows
<1>13. RequestsInv'
  BY <1>7, <1>9, <1>12, SoundKept
<1>14. HistoryKept'
  <2>1. ASSUME NEW n \in DOMAIN plans'
        PROVE  plans'[n].rev <= head'.rev /\ plans'[n].snapshot = chain'[plans'[n].rev + 1]
    <3>1. CASE n = v
      BY <1>1, <1>2, <1>3, <1>5, <3>1
    <3>2. CASE n # v
      <4>1. n \in DOMAIN plans /\ plans'[n] = plans[n] /\ plans[n] \in Plan
        BY <1>0, <1>3, <1>8, <3>2
      <4>2. /\ plans[n].rev \in Nat /\ plans[n].rev <= head.rev
            /\ plans[n].snapshot = chain[plans[n].rev + 1]
        BY <4>1 DEF IInv, HistoryKept, Plan
      <4>3. plans[n].rev + 1 \in DOMAIN chain /\ head.rev <= head'.rev
        BY <1>0, <1>1, <1>5, <4>2
      <4>4. chain'[plans[n].rev + 1] = chain[plans[n].rev + 1]
        BY <1>5, <4>3
      <4>5. plans[n].rev <= head'.rev
        BY <1>0, <1>1, <1>5, <4>2, <4>3
      <4> QED BY <4>1, <4>2, <4>4, <4>5
    <3> QED BY <3>1, <3>2
  <2> QED BY <1>5, <2>1 DEF HistoryKept
<1>15. ActiveIsOne' /\ ProjectionCurrent'
  <2>1. v \in DOMAIN appl' /\ v # NoPlan /\ head'.active = v /\ head'.rev = rev
    BY <1>0, <1>4, <1>5, <1>8 DEF NoPlan
  <2>2. appl'[v].active = TRUE /\ appl'[v].rev = rev
    BY <1>4
  <2>3. \A n \in DOMAIN appl' : n # v => appl'[n].active = FALSE
    BY <1>0, <1>4, <1>8
  <2> QED BY <2>1, <2>2, <2>3 DEF ActiveIsOne, ProjectionCurrent
<1>16. FactsKept' /\ IsFiniteSet(events')
  <2>1. head'.snapshot.status = head.snapshot.status /\ UNCHANGED events /\ head'.active # NoPlan
    BY <1>0, <1>1, <1>5, <1>7, <1>8 DEF NoPlan
  <2> QED BY <2>1 DEF IInv, FactsKept
<1> QED BY <1>9, <1>10, <1>11, <1>13, <1>14, <1>15, <1>16 DEF IInv

LEMMA NextStep ==
  ASSUME IInv, Next
  PROVE  IInv'
<1>1. ASSUME NEW r \in Requests, EditStep(r) PROVE IInv'
  BY <1>1, EditBegins, EditSaved, ResetSaved, MovesOn DEF EditStep
<1>2. ASSUME NEW r \in Requests, BeginPlanning(r) PROVE IInv'
  BY <1>2, PlanningBegins
<1>3. ASSUME NEW r \in Requests, PlanningStep(r) PROVE IInv'
  BY <1>3, MovesOn, ReadActiveStep, Published DEF PlanningStep
<1>4. ASSUME NEW r \in Requests, Refuse(r) PROVE IInv'
  BY <1>4, MovesOn
<1>5. ASSUME NEW o \in Orders, Start(o) \/ CompleteOrder(o) PROVE IInv'
  BY <1>5, Recorded
<1>6. CASE CrashAndRestart
  BY <1>6, CrashStep
<1> QED BY <1>1, <1>2, <1>3, <1>4, <1>5, <1>6 DEF Next

LEMMA IdleStep ==
  ASSUME IInv, UNCHANGED vars
  PROVE  IInv'
<1>1. UNCHANGED Scenario /\ UNCHANGED <<run, req>>
  BY DEF vars, tables, Scenario
<1>2. \A r \in Requests : Sound(req'[r])
  BY <1>1 DEF IInv, RequestsInv
<1> QED BY <1>1, <1>2, ReadStep DEF IInv, TypeOK

\* The invariant holds in every state, whatever requests run side by side and
\* wherever the process crashes.
THEOREM IInvHolds == Spec => []IInv
<1>1. IInv /\ [Next]_vars => IInv'
  BY NextStep, IdleStep
<1> QED BY InitIInv, <1>1, PTL DEF Spec

-----------------------------------------------------------------------------
(* What the runs check, for every value of the constants.                  *)

\* Every table row has the shape its reader expects.
THEOREM TypeCorrect == Spec => []TypeOK
<1>1. IInv => TypeOK
  BY DEF IInv
<1> QED BY IInvHolds, <1>1, PTL

\* Every version holds the data of its revision, and the head ends the history.
THEOREM HistoryIsKept == Spec => []HistoryKept
<1>1. IInv => HistoryKept
  BY DEF IInv
<1> QED BY IInvHolds, <1>1, PTL

\* The scenario row and the applicability rows name the same active plan.
THEOREM OnePlanIsActive == Spec => []ActiveIsOne
<1>1. IInv => ActiveIsOne
  BY DEF IInv
<1> QED BY IInvHolds, <1>1, PTL

\* The active plan is always judged against the present revision.
THEOREM ProjectionIsCurrent == Spec => []ProjectionCurrent
<1>1. IInv => ProjectionCurrent
  BY DEF IInv
<1> QED BY IInvHolds, <1>1, PTL

\* Head, versions and applicability agree about the active plan.
THEOREM ActivePlanIsCurrent == Spec => []ActiveIsCurrent
BY OnePlanIsActive, ProjectionIsCurrent, PTL DEF ActiveIsCurrent

\* No reset, restore or edit erases what execution events say.
THEOREM FactsAreKept == Spec => []FactsKept
<1>1. IInv => FactsKept
  BY DEF IInv
<1> QED BY IInvHolds, <1>1, PTL

\* No key and no experiment publishes two versions.
THEOREM KeysPublishOnce == Spec => []OncePerKey
<1>1. IInv => OncePerKey
  BY DEF IInv, VersionsInv, OncePerKey
<1> QED BY IInvHolds, <1>1, PTL

-----------------------------------------------------------------------------
(* The tables implement ScenarioLedger: a writing step is one of its        *)
(* actions, every other step changes neither the head nor the versions.     *)

LEMMA EditIsAtOnce ==
  ASSUME IInv, NEW r \in Requests, SaveEdit(r)
  PROVE  Ledger!Next
<1>1. Current(r) = head.snapshot /\ req[r].data \in Data
  BY EditSaved DEF IInv, TypeOK, Request
<1>2. Ledger!Edit(req[r].data)
  BY <1>1 DEF SaveEdit, Revise, Ledger!Edit, Ledger!Revise
<1> QED BY <1>1, <1>2 DEF Ledger!Next

LEMMA ResetIsAtOnce ==
  ASSUME IInv, NEW r \in Requests, SaveReset(r)
  PROVE  Ledger!Next
<1>1. chain[1] = D000 /\ head.snapshot.status = D000.status
  BY ResetSaved
<1>2. Ledger!Reset
  BY <1>1 DEF SaveReset, Revise, D000, NoPlan, Ledger!Reset, Ledger!Revise, Ledger!D000, Ledger!NoPlan
<1> QED BY <1>2 DEF Ledger!Next

LEMMA ExecutionIsAtOnce ==
  ASSUME NEW o \in Orders, Start(o) \/ CompleteOrder(o)
  PROVE  Ledger!Next
<1>1. Ledger!Start(o) \/ Ledger!CompleteOrder(o)
  BY DEF Start, CompleteOrder, Record, Revise, NoPlan, Ledger!Start, Ledger!CompleteOrder,
         Ledger!Progress, Ledger!Revise, Ledger!NoPlan
<1> QED BY <1>1 DEF Ledger!Next

LEMMA PublicationIsAtOnce ==
  ASSUME IInv, NEW r \in Requests, Publish(r)
  PROVE  Ledger!Next
<1> DEFINE k == req[r].key
           v == Len(plans) + 1
<1>1. k \in PublicationKeys \cup {NoKey}
  BY PublishesThePresent DEF Request
<1>2. k # NoKey => \A n \in DOMAIN plans : plans[n].key # k
  BY <1>1 DEF Publish, KeyFree, IInv, TypeOK, VersionsInv, NoPlan
<1>3. plans' = Append(plans, [rev |-> TargetRevision(r), snapshot |-> Target(r),
                              over |-> head.active, key |-> k])
  BY PublishesThePresent DEF Publish, AddVersion, Version
<1>4. CASE req[r].kind # "restore"
  <2>1. TargetRevision(r) = head.rev /\ Target(r) = head.snapshot
    BY <1>4, PublishesThePresent
  <2>2. head' = [head EXCEPT !.active = v]
    BY <1>4 DEF Publish, Replace
  <2>3. Ledger!Publish(k)
    BY <1>2, <1>3, <2>1, <2>2 DEF Ledger!Publish, Ledger!Add
  <2> QED BY <1>1, <2>3 DEF Ledger!Next
<1>5. CASE req[r].kind = "restore"
  <2> DEFINE n == req[r].source
  <2>1. TargetRevision(r) = head.rev + 1 /\ Target(r) = plans[n].snapshot /\ n \in DOMAIN plans
    BY <1>5, PublishesThePresent
  <2>2. plans[n].snapshot.status = head.snapshot.status
    BY <2>1, RestoreKeepsStatus
  <2>3. head' = [rev |-> head.rev + 1, snapshot |-> plans[n].snapshot, active |-> v]
    BY <1>5, <2>1 DEF Publish, Replace, Revise
  <2>4. Ledger!Restore(n, k)
    BY <1>2, <1>3, <2>1, <2>2, <2>3 DEF Ledger!Restore, Ledger!Add, Ledger!Revise
  <2> QED BY <1>1, <2>1, <2>4 DEF Ledger!Next
<1> QED BY <1>4, <1>5

LEMMA StepIsAtOnce ==
  ASSUME IInv, [Next]_vars
  PROVE  [Ledger!Next]_(Ledger!vars)
<1>1. ASSUME UNCHANGED <<head, plans>> PROVE UNCHANGED Ledger!vars
  BY <1>1 DEF Ledger!vars
<1>2. CASE UNCHANGED vars
  BY <1>1, <1>2 DEF vars, tables
<1>3. ASSUME NEW r \in Requests, EditStep(r) PROVE Ledger!Next \/ UNCHANGED Ledger!vars
  BY <1>1, <1>3, EditIsAtOnce, ResetIsAtOnce DEF EditStep, BeginEdit, BeginReset, CheckReset, tables
<1>4. ASSUME NEW r \in Requests, BeginPlanning(r) PROVE UNCHANGED Ledger!vars
  BY <1>1, <1>4 DEF BeginPlanning, BeginSolve, BeginActivate, BeginRestore, BeginExperiment,
                    NextCandidate, tables
<1>5. ASSUME NEW r \in Requests, PlanningStep(r) PROVE Ledger!Next \/ UNCHANGED Ledger!vars
  BY <1>1, <1>5, PublicationIsAtOnce DEF PlanningStep, LookUp, ReadActive, Reserve, CompleteRun,
                                         FailRun, AskPublication, tables
<1>6. ASSUME NEW r \in Requests, Refuse(r) PROVE UNCHANGED Ledger!vars
  BY <1>1, <1>6 DEF Refuse, tables
<1>7. CASE CrashAndRestart
  BY <1>1, <1>7 DEF CrashAndRestart
<1> QED BY <1>2, <1>3, <1>4, <1>5, <1>6, <1>7, ExecutionIsAtOnce DEF Next

\* Every request has the effect of one step over the present data, active plan and
\* execution facts, however long it worked on what it had read.
THEOREM RequestsActAtOnce == Spec => ActsAtOnce
<1>1. Init => Ledger!Init
  BY DEF Init, D000, NoPlan, Ledger!Init, Ledger!D000, Ledger!NoPlan
<1>2. IInv /\ [Next]_vars => [Ledger!Next]_(Ledger!vars)
  BY StepIsAtOnce
<1> QED BY IInvHolds, <1>1, <1>2, PTL DEF Spec, ActsAtOnce, Ledger!Spec
=============================================================================

------------------------------ MODULE FieldDay ------------------------------
(*****************************************************************************)
(* A day in the field: plans are solved, verified and published              *)
(* (scheduler.py, verification.py, main.py) while technicians report that    *)
(* services begin and end (transition_work_order, storage.py).  The solver   *)
(* runs for a while: reports arrive between the reservation, the hand-over   *)
(* and the publication.                                                      *)
(*                                                                           *)
(* entry, waiting, routes, dropped and done (RouteContract) are the solver's *)
(* model of the request in hand; `ask' is that request with the context frozen*)
(* for it, `plan' the active plan, `log' the execution events of the scenario.*)
(* The business data scn do not change; the statuses of the orders, and with *)
(* them the scenario's revision, change with every event.                    *)
(*****************************************************************************)
EXTENDS RouteContract

VARIABLES
  plan,  \* the active plan
  log,   \* execution_events of the scenario
  ask    \* the solve request in hand

CONSTANTS NoPlan, NoAsk,
          Estimates,      \* remaining minutes a start may report, 0 for none
          Overrun,        \* active_service_default_remaining_minutes
          Patience,       \* bound: how long a visit waits beyond the earliest start
          Horizon,        \* bound: the last minute something is reported
          Times           \* bound: the planning times that requests name

ASSUME DayAssumption ==
  /\ Estimates \subseteq Nat /\ Times \subseteq Nat
  /\ Overrun \in Nat /\ Patience \in Nat /\ Horizon \in Nat
  /\ NoPlan \notin [routes : [Techs -> Seq(VisitType)], dropped : SUBSET Orders]

dayVars == <<scn, solving, plan, log, ask>>

----------------------------------------------------------------------------
(* What the events say.  0 stands for "no such event".                       *)

EventOf(o, act) ==
  LET at == {n \in DOMAIN log : log[n].order = o /\ log[n].act = act}
  IN IF at = {} THEN 0 ELSE CHOOSE n \in at : TRUE

Began(o) == EventOf(o, "start") # 0
Completed(o) == EventOf(o, "complete") # 0
Started(o) == Began(o) /\ ~Completed(o)
Open == {o \in scn.active : ~Completed(o)}
StartOf(o) == log[EventOf(o, "start")]

\* Wrong variant: the planned end, whenever the service began.
AvailableAsPlanned(e) == e.finish

\* occurred_at + (estimated_remaining_minutes or service_duration)
AvailableAfter(e) == e.at + (IF e.est = 0 THEN scn.service[e.order] ELSE e.est)

Reports(t) == {n \in DOMAIN log : log[n].tech = t}
Latest(t) == log[CHOOSE n \in Reports(t) : \A m \in Reports(t) : m <= n]

\* TechnicianExecutionProjection: where the latest event leaves a technician.
Projection(t) ==
  LET e == Latest(t) IN
    [order |-> e.order, busy |-> Started(e.order), at |-> scn.place[e.order],
     free |-> IF Started(e.order) THEN AvailableAfter(e) ELSE e.at]

\* execution_context_for_planning: a service that should be over by now lasts a
\* little longer still.
ProjectionAt(t, time) ==
  LET p == Projection(t) IN
    [p EXCEPT !.free = IF p.busy /\ p.free <= time THEN time + Overrun ELSE @]

----------------------------------------------------------------------------
(* Requests.                                                                 *)

DayInit ==
  /\ Init
  /\ plan = NoPlan
  /\ log = <<>>
  /\ ask = NoAsk

NewModel(e, orders) ==
  /\ entry' = e
  /\ waiting' = orders
  /\ routes' = [t \in Techs |-> <<>>]
  /\ dropped' = {}
  /\ done' = FALSE

Nothing == [t \in Techs |-> <<>>]

\* baseline and optimize are for a day on which nothing began.
AskForPlan ==
  /\ ask = NoAsk
  /\ log = <<>>
  /\ ask' = [replan |-> FALSE, time |-> 0, seen |-> 0, fixed |-> Nothing, compared |-> FALSE]
  /\ NewModel(HomeEntry(scn), Open)
  /\ UNCHANGED <<scn, plan, log>>

Ascending(S) == CHOOSE f \in [1 .. Cardinality(S) -> S] : \A i, j \in DOMAIN f : i < j => f[i] < f[j]

\* The visits in service, in the order of the plan, with the times and the
\* identity their start events recorded, numbered anew from one.
Frozen(t) ==
  LET r == plan.routes[t]
      at == Ascending({i \in DOMAIN r : Started(r[i].order)})
  IN [n \in DOMAIN at |->
        LET v == r[at[n]] IN
          [v EXCEPT !.seq = n, !.start = StartOf(v.order).start,
                    !.finish = StartOf(v.order).finish, !.source = StartOf(v.order).source]]

PlanServes(o) == \E t \in Techs : o \in OrdersOf(plan.routes[t])

\* replan_schedule gives the solver technicians moved to where they will be.
EntryAt(t, fixed, time) ==
  IF fixed[t] # <<>>
  THEN [at |-> scn.place[Last(fixed[t]).order],
        free |-> Later(time, ProjectionAt(t, time).free)]
  ELSE IF Reports(t) # {}
  THEN [at |-> Projection(t).at, free |-> Later(time, ProjectionAt(t, time).free)]
  ELSE [at |-> scn.home[t], free |-> Later(time, scn.from[t])]

AskForReplan(time) ==
  /\ ask = NoAsk
  /\ \A o \in Open : Started(o) => plan # NoPlan /\ PlanServes(o)
  /\ LET fixed == IF plan = NoPlan THEN Nothing ELSE [t \in Techs |-> Frozen(t)] IN
       /\ ask' = [replan |-> TRUE, time |-> time, seen |-> Len(log), fixed |-> fixed,
                  compared |-> TRUE]
       /\ NewModel([t \in Techs |-> EntryAt(t, fixed, time)], Open \ Served(fixed))
  /\ UNCHANGED <<scn, plan, log>>

\* Any routes within the constraints may come out.  They are built in one order,
\* first what is left out and then technician by technician: the order in which
\* the library finds them is no part of the result.
Earliest(t, o) == Later(Free(t) + LegTo(t, o), ReadyAt(scn, o))

Solve ==
  /\ ask # NoAsk /\ ~done
  /\ \/ \E t \in Techs, o \in waiting, wait \in 0 .. Patience :
          /\ \A u \in Techs : u > t => routes[u] = <<>>
          /\ Visit(t, o, Earliest(t, o) + wait)
     \/ \E o \in waiting :
          /\ routes = Nothing /\ \A p \in dropped : p < o
          /\ LeaveOut(o)
     \/ HandOver
  /\ UNCHANGED <<plan, log, ask>>

\* No solution, a failure of the process or a cancellation.
GiveUp ==
  /\ ask # NoAsk
  /\ ask' = NoAsk
  /\ NewModel(HomeEntry(scn), {})
  /\ UNCHANGED <<scn, plan, log>>

----------------------------------------------------------------------------
(* The candidate and its verification.                                       *)

Pinned(r) == r # <<>> /\ \E t \in Techs : r[1].order \in OrdersOf(ask.fixed[t])

\* Where the verifier lets a route begin.  Normalisation knows the projections
\* only from the context of a replan.
Origin(t, r) ==
  IF Reports(t) # {} /\ ~Pinned(r)
  THEN [at |-> Projection(t).at,
        free |-> IF ask.replan THEN ProjectionAt(t, ask.time).free ELSE Projection(t).free]
  ELSE HomeEntry(scn)[t]

DerivedFrom(t, r) == IF ask.replan THEN Origin(t, r) ELSE HomeEntry(scn)[t]

\* Wrong variant: the solver's numbers as they are.
MergedAsNumbered(t) == ask.fixed[t] \o routes[t]

Merged(t) ==
  LET fixed == ask.fixed[t]
      after == [i \in DOMAIN routes[t] |->
                 [routes[t][i] EXCEPT !.seq = @ + Len(fixed)]]
  IN fixed \o after

Candidate ==
  [t \in Techs |-> Normalized(scn, Merged(t), DerivedFrom(t, Merged(t)), Pinned(Merged(t)))]

\* Services in hand keep their technician, planned times and identity.
StartedKept(c) ==
  \A o \in Open : Started(o) =>
    \E i \in DOMAIN c[StartOf(o).tech] :
      LET v == c[StartOf(o).tech][i] IN
        /\ v.order = o
        /\ v.start = StartOf(o).start /\ v.finish = StartOf(o).finish
        /\ v.source = StartOf(o).source

PlannedSeq(o) ==
  LET t == StartOf(o).tech
      r == plan.routes[t]
  IN r[CHOOSE i \in DOMAIN r : r[i].order = o].seq

\* The first visit numbered after the place a service in hand has in the active
\* plan begins when the technician can be there.
FollowsStarted(c) ==
  \A o \in Open : Started(o) =>
    LET t == StartOf(o).tech
        after == {i \in DOMAIN c[t] : c[t][i].seq > PlannedSeq(o)}
    IN after # {} =>
         LET v == c[t][CHOOSE i \in after : \A j \in after : i <= j]
         IN ProjectionAt(t, ask.time).free + Travel(scn, scn.place[o], scn.place[v.order])
              <= v.arrive

FollowsProjection(c) ==
  \A t \in Techs : Reports(t) # {} =>
    LET p == ProjectionAt(t, ask.time)
        future == {i \in DOMAIN c[t] : c[t][i].order # p.order}
    IN future # {} =>
         LET v == c[t][CHOOSE i \in future : \A j \in future : i <= j]
         IN p.free + Travel(scn, p.at, scn.place[v.order]) <= v.arrive

AfterCutoff(c) ==
  \A t \in Techs : \A i \in DOMAIN c[t] : Began(c[t][i].order) \/ ask.time <= c[t][i].start

\* The metrics of a replan are relative to a source plan.  The handler compared
\* the candidate with what it gave the solver; the verifier with the source plan.
SameMetrics == ask.replan => ask.compared = (plan # NoPlan)

Verified(c, out) ==
  /\ Covers(Open, c, out)
  /\ LocksKept(scn, Open, out)
  /\ \A t \in Techs : /\ RouteStands(scn, t, c[t], Origin(t, c[t]), Pinned(c[t]))
                       /\ DerivedStands(scn, c[t], DerivedFrom(t, c[t]), Pinned(c[t]))
  /\ (\E o \in Open : Started(o)) => ask.replan
  /\ SameMetrics
  /\ ask.replan => /\ ask.seen = Len(log)
                   /\ StartedKept(c)
                   /\ FollowsStarted(c)
                   /\ FollowsProjection(c)
                   /\ AfterCutoff(c)

\* publish_plan: every event is a revision of the scenario.
Current == ask.seen = Len(log)

Publish ==
  /\ ask # NoAsk /\ done
  /\ Current
  /\ Verified(Candidate, dropped)
  /\ plan' = [routes |-> Candidate, dropped |-> dropped]
  /\ ask' = NoAsk
  /\ NewModel(HomeEntry(scn), {})
  /\ UNCHANGED <<scn, log>>

Reject ==
  /\ ask # NoAsk /\ done
  /\ ~(Current /\ Verified(Candidate, dropped))
  /\ ask' = NoAsk
  /\ NewModel(HomeEntry(scn), {})
  /\ UNCHANGED <<scn, plan, log>>

----------------------------------------------------------------------------
(* Reports from the field.                                                   *)

InService(t) == \E o \in OrdersOf(plan.routes[t]) : Started(o)

\* Wrong variant: always from home, at the beginning of the shift.
StartFromHome(t, i) ==
  scn.from[t] + Travel(scn, scn.home[t], scn.place[plan.routes[t][i].order])

\* From the predecessor's completion if the plan has a predecessor, else from the
\* technician's last completion, else from home.
EarliestStart(t, i) ==
  LET r == plan.routes[t]
      o == r[i].order
  IN IF i > 1
     THEN log[EventOf(r[i - 1].order, "complete")].at
            + Travel(scn, scn.place[r[i - 1].order], scn.place[o])
     ELSE IF Reports(t) # {} /\ ~Projection(t).busy
     THEN Projection(t).free + Travel(scn, Projection(t).at, scn.place[o])
     ELSE scn.from[t] + Travel(scn, scn.home[t], scn.place[o])

\* Wrong variant: any visit of the plan may begin.
StartAnyVisit(t, i, at, est) ==
  /\ plan # NoPlan
  /\ i \in DOMAIN plan.routes[t]
  /\ LET v == plan.routes[t][i] IN
       /\ ~Began(v.order)
       /\ scn.reported[v.order] <= at
       /\ log' = Append(log, [order |-> v.order, tech |-> t, act |-> "start", at |-> at,
                              est |-> est, start |-> v.start, finish |-> v.finish,
                              source |-> v.source])
  /\ UNCHANGED <<scn, solving, plan, ask>>

\* Wrong variant: the actual time is recorded as the planned one.
StartAsActual(t, i, at, est) ==
  /\ plan # NoPlan
  /\ i \in DOMAIN plan.routes[t]
  /\ LET v == plan.routes[t][i] IN
       /\ ~Began(v.order)
       /\ scn.reported[v.order] <= at
       /\ ~InService(t)
       /\ \A j \in 1 .. i - 1 : Completed(plan.routes[t][j].order)
       /\ EarliestStart(t, i) <= at
       /\ log' = Append(log, [order |-> v.order, tech |-> t, act |-> "start", at |-> at,
                              est |-> est, start |-> at, finish |-> v.finish,
                              source |-> v.source])
  /\ UNCHANGED <<scn, solving, plan, ask>>

Start(t, i, at, est) ==
  /\ plan # NoPlan
  /\ i \in DOMAIN plan.routes[t]
  /\ LET v == plan.routes[t][i] IN
       /\ ~Began(v.order)
       /\ scn.reported[v.order] <= at
       /\ ~InService(t)
       /\ \A j \in 1 .. i - 1 : Completed(plan.routes[t][j].order)
       /\ EarliestStart(t, i) <= at
       /\ log' = Append(log, [order |-> v.order, tech |-> t, act |-> "start", at |-> at,
                              est |-> est, start |-> v.start, finish |-> v.finish,
                              source |-> v.source])
  /\ UNCHANGED <<scn, solving, plan, ask>>

\* Wrong variant: what began may be completed, completed or not.
CompleteAgain(o, at) ==
  /\ Began(o)
  /\ StartOf(o).at < at
  /\ log' = Append(log, [StartOf(o) EXCEPT !.act = "complete", !.at = at, !.est = 0])
  /\ UNCHANGED <<scn, solving, plan, ask>>

Complete(o, at) ==
  /\ Started(o)
  /\ StartOf(o).at < at
  /\ log' = Append(log, [StartOf(o) EXCEPT !.act = "complete", !.at = at, !.est = 0])
  /\ UNCHANGED <<scn, solving, plan, ask>>

DayNext ==
  \/ AskForPlan
  \/ \E time \in Times : AskForReplan(time)
  \/ Solve
  \/ GiveUp
  \/ Publish
  \/ Reject
  \/ \E t \in Techs, i \in 1 .. Cardinality(Orders), at \in 0 .. Horizon, est \in Estimates :
       Start(t, i, at, est)
  \/ \E o \in Orders, at \in 0 .. Horizon : Complete(o, at)

DaySpec == DayInit /\ [][DayNext]_dayVars

----------------------------------------------------------------------------
EventType ==
  [order : Orders, tech : Techs, act : {"start", "complete"}, at : Nat, est : Nat,
   start : Nat, finish : Nat, source : Nat]

DayTypeOK ==
  /\ TypeOK
  /\ plan = NoPlan \/ plan \in [routes : [Techs -> Seq(VisitType)], dropped : SUBSET Orders]
  /\ log \in Seq(EventType)
  /\ \A o \in Orders, act \in {"start", "complete"} :
       Cardinality({n \in DOMAIN log : log[n].order = o /\ log[n].act = act}) <= 1
  /\ \A o \in Orders : Completed(o) => Began(o) /\ EventOf(o, "start") < EventOf(o, "complete")
  /\ ask = NoAsk \/ ask.seen <= Len(log)

\* A technician is in at most one service, whatever was replanned while it lasted:
\* the guard of a start looks only at the orders of the active plan.
OneServiceAtATime ==
  \A o, p \in Orders : Started(o) /\ Started(p) /\ StartOf(o).tech = StartOf(p).tech => o = p

\* A service in hand stays in the active plan, with the technician, the planned
\* times and the identity it began with, through any number of replans; so the
\* guard of a start, which looks at the active plan only, sees it, and nobody is
\* in two services.
BookingKept ==
  /\ DayTypeOK /\ OneServiceAtATime
  /\ \A o \in Orders : Started(o) =>
       /\ plan # NoPlan
       /\ \E i \in DOMAIN plan.routes[StartOf(o).tech] :
            LET v == plan.routes[StartOf(o).tech][i] IN
              <<v.order, v.start, v.finish, v.source>>
                = <<o, StartOf(o).start, StartOf(o).finish, StartOf(o).source>>

\* The actual day is one a person can live: a service begins no earlier than the
\* technician's previous one ended plus the way from there.
WorkIsReachable ==
  \A m, n \in DOMAIN log :
    (/\ m < n /\ log[m].tech = log[n].tech
     /\ log[n].act = "start" /\ log[m].act = "complete"
     /\ \A k \in m + 1 .. n - 1 : log[k].tech # log[n].tech)
      => log[m].at + Travel(scn, scn.place[log[m].order], scn.place[log[n].order]) <= log[n].at

\* A newly published plan sends nobody anywhere before the work in hand lets them:
\* the first visit yet to begin is reached from where the last event left the
\* technician, and no completed order is planned again.
PlanFollows ==
  plan' # plan =>
    \A t \in Techs :
      LET r == plan'.routes[t]
          ahead == {i \in DOMAIN r : ~Began(r[i].order)}
      IN /\ \A i \in DOMAIN r : ~Completed(r[i].order)
         /\ ahead # {} /\ Reports(t) # {} =>
              LET v == r[CHOOSE i \in ahead : \A j \in ahead : i <= j]
                  e == Latest(t)
                  left == IF e.act = "complete" THEN e.at
                          ELSE e.at + (IF e.est = 0 THEN scn.service[e.order] ELSE e.est)
              IN left + Travel(scn, scn.place[e.order], scn.place[v.order]) <= v.start

\* No step publishes any other plan.
PlanFollowsWork == [][PlanFollows]_dayVars

\* A replan that the solver found and that no report overtook.
SolvedReplan ==
  /\ ask # NoAsk /\ ask.replan /\ done /\ Current
  /\ LocksKept(scn, Open, dropped)

SolvedReturns ==
  \A t \in Techs : Merged(t) # <<>> => ReturnStands(scn, t, Last(Merged(t)))

SolvedLegs ==
  \A t \in Techs : \A i \in 2 .. Len(Merged(t)) :
    LegStands(scn, Merged(t)[i - 1], Merged(t)[i])

\* No way is shorter by way of a visit.  It holds of the built-in provider, whose
\* rounding costs a minute at most where a service takes one at least; an imported
\* matrix may break it.
NoShortcut(s) ==
  \A p, q \in Points, o \in Orders :
    Travel(s, p, q) <= Travel(s, p, s.place[o]) + s.service[o] + Travel(s, s.place[o], q)

\* A solved replan passes the verifier, whatever was reported before it was asked
\* for: the frozen visits, the moved entries and the shifted numbers of
\* replan_schedule are what the checks expect.  Four cases it does not cover:
\* the solver's routes end where they begin and not at home, the visit after a
\* service in hand is planned from the reports and checked against the plan,
\* the visit that follows the place of a service in hand in the old plan may be
\* a later one of the new plan, checked against the direct way to it, and a
\* replan without a plan compares with one the verifier does not see.
SolvedStands ==
  SolvedReplan /\ plan # NoPlan /\ SolvedReturns /\ SolvedLegs /\ NoShortcut(scn)
    => Verified(Candidate, dropped)
=============================================================================

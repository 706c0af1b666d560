----------------------------- MODULE Schedules -----------------------------
(***************************************************************************)
(* What a schedule is and when the publication verifier lets one stand      *)
(* (backend/verification.py, with the facts backend/normalization.py        *)
(* derives).  Pure operators: the modules that build schedules extend this  *)
(* one.  A route is the sequence of a technician's visits, a schedule one    *)
(* route per technician.                                                    *)
(*                                                                          *)
(* A scenario is a record of functions.  able[o] holds the technicians with *)
(* every skill o requires; travel is any matrix, symmetric or not, and need *)
(* not obey the triangle inequality (travel.py accepts one).                *)
(***************************************************************************)
EXTENDS Integers, Sequences, FiniteSets

CONSTANTS Orders,       \* identifiers of work orders, numbers to break ties
          Techs,        \* identifiers of technicians
          Points,       \* locations
          None,         \* no lock
          Scenarios     \* the business data considered

Later(a, b) == IF a < b THEN b ELSE a

ScenarioType ==
  [active : SUBSET Orders,
   place : [Orders -> Points], service : [Orders -> Nat],
   opens : [Orders -> Nat], closes : [Orders -> Nat],
   reported : [Orders -> Nat], due : [Orders -> Nat],
   urgency : [Orders -> Nat], able : [Orders -> SUBSET Techs],
   lock : [Orders -> Techs \cup {None}],
   home : [Techs -> Points], from : [Techs -> Nat], to : [Techs -> Nat],
   extra : [Techs -> Nat], travel : [Points \X Points -> Nat]]

ASSUME ScenarioAssumption ==
  /\ Scenarios \subseteq ScenarioType
  /\ Orders \subseteq Nat
  /\ Techs \subseteq Nat
  /\ None \notin Techs

VisitType ==
  [order : Orders, seq : Nat, arrive : Nat, start : Nat, finish : Nat,
   leg : Nat, late : Nat, source : Nat]

Travel(s, p, q) == s.travel[<<p, q>>]

ReadyAt(s, o) == Later(s.opens[o], s.reported[o])

LatestReturn(s, t) == s.to[t] + s.extra[t]

\* Wrong variant: early is negative.
Slackness(s, o, finish) == finish - s.due[o]

Lateness(s, o, finish) == Later(0, finish - s.due[o])

VisitOf(s, o, seq, arrive, start, leg) ==
  [order |-> o, seq |-> seq, arrive |-> arrive, start |-> start,
   finish |-> start + s.service[o], leg |-> leg,
   late |-> Lateness(s, o, start + s.service[o]), source |-> seq]

Last(r) == r[Len(r)]

OrdersOf(r) == {r[i].order : i \in DOMAIN r}

Served(routes) == UNION {OrdersOf(routes[t]) : t \in Techs}

\* Where a technician is first free, and when: at home when the shift begins.
HomeEntry(s) == [t \in Techs |-> [at |-> s.home[t], free |-> s.from[t]]]

SpotBefore(s, r, i, e) == IF i = 1 THEN e.at ELSE s.place[r[i - 1].order]

\* normalize_schedule: what follows from the order of a route is computed again.
\* The first leg of a visit that began before the plan is kept.
Normalized(s, r, e, pinned) ==
  [i \in DOMAIN r |->
    [r[i] EXCEPT
      !.leg = IF i = 1 /\ pinned THEN r[i].leg
              ELSE Travel(s, SpotBefore(s, r, i, e), s.place[r[i].order]),
      !.late = Lateness(s, r[i].order, r[i].finish)]]

----------------------------------------------------------------------------
(* The checks of verify_schedule, one operator per group of errors.          *)

\* Every active order is assigned once or left out, never both.
Covers(active, routes, dropped) ==
  /\ \A t, u \in Techs : \A i \in DOMAIN routes[t], j \in DOMAIN routes[u] :
       routes[t][i].order = routes[u][j].order => t = u /\ i = j
  /\ Served(routes) \cap dropped = {}
  /\ Served(routes) \cup dropped = active

\* A manual lock is a commitment: the order is neither left out nor moved.
LocksKept(s, active, dropped) == \A o \in dropped \cap active : s.lock[o] = None

\* What one visit must satisfy whatever the rest of the route is.
VisitStands(s, t, v) ==
  /\ t \in s.able[v.order]
  /\ s.lock[v.order] \in {None, t}
  /\ v.start \in s.opens[v.order] .. s.closes[v.order]
  /\ ReadyAt(s, v.order) <= v.start
  /\ v.arrive <= v.start
  /\ v.finish = v.start + s.service[v.order]
  /\ v.late = Lateness(s, v.order, v.finish)
  /\ s.from[t] <= v.start
  /\ v.finish <= LatestReturn(s, t)

\* From one visit to the next.
LegStands(s, before, after) ==
  LET d == Travel(s, s.place[before.order], s.place[after.order]) IN
    /\ after.leg = d
    /\ before.finish + d <= after.arrive
    /\ before.finish + d <= after.start

\* The first leg, from where and when the technician is free.
EntryStands(s, v, e) ==
  /\ v.leg = Travel(s, e.at, s.place[v.order])
  /\ e.free + v.leg <= v.arrive

\* The way home ends before the overtime limit.
ReturnStands(s, t, v) ==
  v.finish + Travel(s, s.place[v.order], s.home[t]) <= LatestReturn(s, t)

RouteStands(s, t, r, e, pinned) ==
  /\ \A i \in DOMAIN r : r[i].seq = i /\ VisitStands(s, t, r[i])
  /\ \A i \in DOMAIN r : i > 1 => LegStands(s, r[i - 1], r[i])
  /\ r # <<>> => ReturnStands(s, t, Last(r)) /\ (pinned \/ EntryStands(s, r[1], e))

\* What is derived is what normalisation derives.
DerivedStands(s, r, e, pinned) == Normalized(s, r, e, pinned) = r

\* A schedule made before any service began.
Stands(s, routes, dropped) ==
  /\ Covers(s.active, routes, dropped)
  /\ LocksKept(s, s.active, dropped)
  /\ \A t \in Techs : /\ RouteStands(s, t, routes[t], HomeEntry(s)[t], FALSE)
                       /\ DerivedStands(s, routes[t], HomeEntry(s)[t], FALSE)
=============================================================================

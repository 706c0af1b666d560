--------------------------- MODULE RouteContract ---------------------------
(*****************************************************************************)
(* What any engine that builds routes promises: the model that               *)
(* optimized_schedule hands to the routing library (backend/scheduler.py),   *)
(* without the search.  Visits are appended to routes, orders are left out,  *)
(* and the routes are handed over when every order has its place.  The       *)
(* search is the library's: it may return any routes that satisfy these      *)
(* constraints.  `entry' is where and when each technician is free, and the  *)
(* library's routes end where they begin.                                    *)
(*****************************************************************************)
EXTENDS Schedules

VARIABLES
  scn,      \* the problem
  entry,    \* where and when each technician enters the plan
  waiting,  \* orders without a place yet
  routes,   \* the visits of each technician, in order
  dropped,  \* orders left out
  done      \* the routes were handed over

solving == <<entry, waiting, routes, dropped, done>>
vars == <<scn, solving>>

Free(t) == IF routes[t] = <<>> THEN entry[t].free ELSE Last(routes[t]).finish
Spot(t) == IF routes[t] = <<>> THEN entry[t].at ELSE scn.place[Last(routes[t]).order]

LegTo(t, o) == Travel(scn, Spot(t), scn.place[o])

Allowed(o) == {t \in scn.able[o] : scn.lock[o] \in {None, t}}

Init ==
  /\ scn \in Scenarios
  /\ entry = HomeEntry(scn)
  /\ waiting = scn.active
  /\ routes = [t \in Techs |-> <<>>]
  /\ dropped = {}
  /\ done = FALSE

\* Vehicle t goes on to o, waits there if need be, and begins at `start'.
Visit(t, o, start) ==
  /\ o \in waiting
  /\ t \in Allowed(o)
  /\ entry[t].free <= LatestReturn(scn, t)
  /\ Free(t) + LegTo(t, o) <= start
  /\ ReadyAt(scn, o) <= start
  /\ start <= scn.closes[o]
  /\ routes' = [routes EXCEPT ![t] = Append(@,
       VisitOf(scn, o, Len(@) + 1, Free(t) + LegTo(t, o), start, LegTo(t, o)))]
  /\ waiting' = waiting \ {o}
  /\ UNCHANGED <<scn, entry, dropped, done>>

\* A valid manual lock is a hard commitment: a locked order has no disjunction,
\* so the library must serve it.  A locked order that its technician cannot be
\* given at all is no such commitment: the precheck takes it out.
Bound(o) == \E t \in Allowed(o) : scn.lock[o] = t /\ entry[t].free <= LatestReturn(scn, t)

Drop(o) ==
  /\ o \in waiting
  /\ waiting' = waiting \ {o}
  /\ dropped' = dropped \cup {o}
  /\ UNCHANGED <<scn, entry, routes, done>>

LeaveOut(o) == ~Bound(o) /\ Drop(o)

\* The dimension's bound at the end of a vehicle's route.
EndsInTime(t) ==
  routes[t] # <<>> => Free(t) + Travel(scn, Spot(t), entry[t].at) <= LatestReturn(scn, t)

HandOver ==
  /\ ~done
  /\ waiting = {}
  /\ \A t \in Techs : EndsInTime(t)
  /\ done' = TRUE
  /\ UNCHANGED <<scn, entry, waiting, routes, dropped>>

Next ==
  \/ \E t \in Techs, o \in waiting : \E start \in 0 .. scn.closes[o] : Visit(t, o, start)
  \/ \E o \in waiting : LeaveOut(o)
  \/ HandOver

Spec == Init /\ [][Next]_vars

----------------------------------------------------------------------------
TypeOK ==
  /\ scn \in Scenarios
  /\ entry \in [Techs -> [at : Points, free : Nat]]
  /\ waiting \subseteq Orders /\ dropped \subseteq Orders
  /\ routes \in [Techs -> Seq(VisitType)]
  /\ done \in BOOLEAN

\* Every lock names a technician who can be given the order.
LocksServable == \A o \in scn.active : scn.lock[o] # None => Bound(o)

\* Routes that satisfy the solver's constraints pass every check of the
\* publication verifier, the one of the manual locks among them: the two are
\* written apart, in other terms (scheduler.py appends and bounds, verification.py
\* recomputes from the finished routes).  They differ on one thing: a locked order
\* whose technician lacks a skill or comes too late is left out by the solver, and
\* the verifier refuses every plan that leaves a locked order out.
HandedOverStands == done /\ LocksServable => Stands(scn, routes, dropped)
=============================================================================

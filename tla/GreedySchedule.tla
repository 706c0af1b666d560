--------------------------- MODULE GreedySchedule ---------------------------
(*****************************************************************************)
(* baseline_schedule (backend/scheduler.py): the orders in order of their    *)
(* deadline, each appended to the route of the eligible technician who can   *)
(* begin first, or left out with a reason.  Nothing is moved afterwards.     *)
(*****************************************************************************)
EXTENDS Schedules

VARIABLES
  given,       \* the problem
  pending,     \* orders not considered yet
  built,       \* the visits of each technician, in order
  free,        \* when each technician is free (state)
  spot,        \* and where (state)
  unassigned,  \* orders left out, with the reason
  finished     \* every order was considered

greedyVars == <<given, pending, built, free, spot, unassigned, finished>>

\* (sla_deadline, priority, id)
Precedes(a, b) ==
  \/ given.due[a] < given.due[b]
  \/ given.due[a] = given.due[b] /\ given.urgency[a] < given.urgency[b]
  \/ given.due[a] = given.due[b] /\ given.urgency[a] = given.urgency[b] /\ a < b

ArrivalAt(t, o) == free[t] + Travel(given, spot[t], given.place[o])

\* Wrong variant: service begins on arrival.
StartOnArrival(t, o) == ArrivalAt(t, o)

StartAt(t, o) == Later(ArrivalAt(t, o), ReadyAt(given, o))

FinishAt(t, o) == StartAt(t, o) + given.service[o]

Candidates(o) == {t \in given.able[o] : given.lock[o] \in {None, t}}

\* Wrong variant: the last minute of the window is refused.
ChoicesBeforeEnd(o) ==
  {t \in Candidates(o) :
     /\ StartAt(t, o) < given.closes[o]
     /\ FinishAt(t, o) + Travel(given, given.place[o], given.home[t]) <= LatestReturn(given, t)}

Choices(o) ==
  {t \in Candidates(o) :
     /\ StartAt(t, o) <= given.closes[o]
     /\ FinishAt(t, o) + Travel(given, given.place[o], given.home[t]) <= LatestReturn(given, t)}

\* (start, travel, technician)
Better(t, u, o) ==
  LET a == ArrivalAt(t, o) - free[t]
      b == ArrivalAt(u, o) - free[u]
  IN \/ StartAt(t, o) < StartAt(u, o)
     \/ StartAt(t, o) = StartAt(u, o) /\ a < b
     \/ StartAt(t, o) = StartAt(u, o) /\ a = b /\ t < u

GreedyInit ==
  /\ given \in Scenarios
  /\ pending = given.active
  /\ built = [t \in Techs |-> <<>>]
  /\ free = given.from
  /\ spot = given.home
  /\ unassigned = {}
  /\ finished = FALSE

Place(o, t) ==
  /\ o \in pending /\ \A p \in pending \ {o} : Precedes(o, p)
  /\ t \in Choices(o) /\ \A u \in Choices(o) \ {t} : Better(t, u, o)
  /\ built' = [built EXCEPT ![t] = Append(@,
       VisitOf(given, o, Len(@) + 1, ArrivalAt(t, o), StartAt(t, o), ArrivalAt(t, o) - free[t]))]
  /\ free' = [free EXCEPT ![t] = FinishAt(t, o)]
  /\ spot' = [spot EXCEPT ![t] = given.place[o]]
  /\ pending' = pending \ {o}
  /\ UNCHANGED <<given, unassigned, finished>>

\* _diagnose_unassigned: the first reason that applies, from the order alone and
\* a technician fresh from home, never from the routes built so far.
AloneStart(t, o) == Later(given.from[t] + Travel(given, given.home[t], given.place[o]), ReadyAt(given, o))
AloneInWindow(o) == {t \in Candidates(o) : AloneStart(t, o) <= given.closes[o]}
AloneHome(t, o) == AloneStart(t, o) + given.service[o] + Travel(given, given.place[o], given.home[t])

Reason(o) ==
  IF given.able[o] = {} THEN "NO_ELIGIBLE_TECHNICIAN"
  ELSE IF given.lock[o] # None THEN "LOCKED_PLAN_CONFLICT"
  ELSE IF AloneInWindow(o) = {} THEN "TIME_WINDOW_INFEASIBLE"
  ELSE "SHIFT_CAPACITY_EXCEEDED"

Unassign(o) ==
  /\ o \in pending /\ \A p \in pending \ {o} : Precedes(o, p)
  /\ Choices(o) = {}
  /\ unassigned' = unassigned \cup {[order |-> o, reason |-> Reason(o)]}
  /\ pending' = pending \ {o}
  /\ UNCHANGED <<given, built, free, spot, finished>>

Finish ==
  /\ ~finished
  /\ pending = {}
  /\ finished' = TRUE
  /\ UNCHANGED <<given, pending, built, free, spot, unassigned>>

GreedyNext ==
  \/ \E o \in pending : \E t \in Techs : Place(o, t)
  \/ \E o \in pending : Unassign(o)
  \/ Finish

GreedySpec == GreedyInit /\ [][GreedyNext]_greedyVars

----------------------------------------------------------------------------
LeftOut(ds) == {d.order : d \in ds}

Reasons == {"NO_ELIGIBLE_TECHNICIAN", "LOCKED_PLAN_CONFLICT",
            "TIME_WINDOW_INFEASIBLE", "SHIFT_CAPACITY_EXCEEDED"}

GreedyTypeOK ==
  /\ given \in Scenarios
  /\ pending \subseteq Orders
  /\ built \in [Techs -> Seq(VisitType)]
  /\ free \in [Techs -> Nat] /\ spot \in [Techs -> Points]
  /\ unassigned \subseteq [order : Orders, reason : Reasons]
  /\ finished \in BOOLEAN

Contract == INSTANCE RouteContract
              WITH scn <- given, entry <- HomeEntry(given), waiting <- pending,
                   routes <- built, dropped <- LeftOut(unassigned), done <- finished

\* The one thing the baseline does that a route engine may not: a locked order
\* waits for its turn like any other, and is left out when its technician cannot
\* serve it then, be it too far or the day filled by the orders before it.
DropsCommitment ==
  \E o \in pending : Contract!Bound(o) /\ Choices(o) = {} /\ Contract!Drop(o)

\* The greedy baseline keeps the promise of a route engine (RouteContract): each of
\* its steps is a step the contract allows, except that it leaves a commitment out
\* when, at its turn, it does not fit the route of the technician it is locked to.
KeepsContract == Contract!Init /\ [][Contract!Next \/ DropsCommitment]_(Contract!vars)

\* The publication verifier lets the baseline stand unless it left a locked order
\* out, which is refused with LOCKED_WORK_ORDER_UNASSIGNED.
FinishedStands ==
  finished /\ LocksKept(given, given.active, LeftOut(unassigned))
    => Stands(given, built, LeftOut(unassigned))

\* An order is left out only for orders that precede it: whoever could serve it,
\* alone and on an empty route, has one with an earlier deadline, a higher
\* priority or a smaller id.
AloneFits(t, o) == t \in AloneInWindow(o) /\ AloneHome(t, o) <= LatestReturn(given, t)
LeftOutForEarlier ==
  \A o \in LeftOut(unassigned) : \A t \in Candidates(o) :
    AloneFits(t, o) => \E i \in DOMAIN built[t] : Precedes(built[t][i].order, o)
=============================================================================

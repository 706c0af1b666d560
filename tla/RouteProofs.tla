---------------------------- MODULE RouteProofs ----------------------------
(***************************************************************************)
(* The engines that build routes, and the day that executes them, for any  *)
(* set of scenarios.  First RouteContract: its routes pass the publication *)
(* verifier.  Then GreedySchedule: the baseline is such an engine, but for *)
(* the locked orders it leaves out, and the verifier refuses it for those  *)
(* alone.  Then FieldDay: what is in service stays booked, the day worked  *)
(* can be lived, no plan overtakes it, and a solved replan passes the      *)
(* verifier.                                                               *)
(***************************************************************************)
EXTENDS FieldDay, GreedySchedule, SequenceTheorems, FiniteSetTheorems, WellFoundedInduction,
        TLAPS

------------------------------------------------------------------------------
(* Routes: the inductive invariant.                                         *)

\* A visit stands but for the end of the shift, which is bounded at the end of
\* the route only.
VisitInTime(s, t, r, i) ==
  /\ t \in s.able[r[i].order]
  /\ s.lock[r[i].order] \in {None, t}
  /\ r[i].start \in s.opens[r[i].order] .. s.closes[r[i].order]
  /\ ReadyAt(s, r[i].order) <= r[i].start
  /\ r[i].arrive <= r[i].start
  /\ r[i].finish = r[i].start + s.service[r[i].order]
  /\ r[i].late = Lateness(s, r[i].order, r[i].finish)
  /\ s.from[t] <= r[i].start

\* No visit ends after the last one: the bound at the end bounds them all.
RouteInv(s, t, r, e) ==
  /\ r \in Seq(VisitType)
  /\ \A i \in DOMAIN r :
       r[i].seq = i /\ VisitInTime(s, t, r, i) /\ r[i].finish <= Last(r).finish
  /\ \A i \in DOMAIN r : i > 1 => LegStands(s, r[i - 1], r[i])
  /\ r # <<>> => EntryStands(s, r[1], e)

\* Every order of `pool' is waiting (W), left out (D), or in one place of one
\* route (R).
Placed(pool, W, D, R) ==
  /\ W \cap D = {} /\ W \cup D \subseteq pool
  /\ \A t \in Techs : \A i \in DOMAIN R[t] : R[t][i].order \in pool \ (W \cup D)
  /\ \A o \in pool \ (W \cup D) :
       \E t \in Techs : \E i \in DOMAIN R[t] : R[t][i].order = o
  /\ \A t, u \in Techs : \A i \in DOMAIN R[t], j \in DOMAIN R[u] :
       R[t][i].order = R[u][j].order => t = u /\ i = j

PlacesIn(pool) == Placed(pool, waiting, dropped, routes)

IInv ==
  /\ TypeOK
  /\ entry = HomeEntry(scn)
  /\ \A t \in Techs : RouteInv(scn, t, routes[t], entry[t])
  /\ PlacesIn(scn.active)
  /\ \A o \in dropped : ~Bound(o)
  /\ done => waiting = {} /\ \A t \in Techs : EndsInTime(t)

------------------------------------------------------------------------------
(* One more visit.                                                          *)

Entry == [at : Points, free : Nat]

FreeAfter(r, e) == IF r = <<>> THEN e.free ELSE Last(r).finish
SpotAfter(s, r, e) == IF r = <<>> THEN e.at ELSE s.place[Last(r).order]

\* What a scenario's fields are.
LEMMA ScenarioFields ==
  ASSUME NEW s \in ScenarioType
  PROVE  /\ s.active \subseteq Orders
         /\ \A o \in Orders :
              /\ s.place[o] \in Points /\ s.service[o] \in Nat /\ s.opens[o] \in Nat
              /\ s.closes[o] \in Nat /\ s.reported[o] \in Nat /\ s.due[o] \in Nat
              /\ s.able[o] \subseteq Techs /\ ReadyAt(s, o) \in Nat
         /\ \A t \in Techs :
              /\ s.home[t] \in Points /\ s.from[t] \in Nat /\ s.to[t] \in Nat
              /\ s.extra[t] \in Nat /\ LatestReturn(s, t) \in Nat
         /\ \A p, q \in Points : Travel(s, p, q) \in Nat
<1>1. s.active \subseteq Orders BY DEF ScenarioType
<1>2. ASSUME NEW o \in Orders
      PROVE  /\ s.place[o] \in Points /\ s.service[o] \in Nat /\ s.opens[o] \in Nat
             /\ s.closes[o] \in Nat /\ s.reported[o] \in Nat /\ s.due[o] \in Nat
             /\ s.able[o] \subseteq Techs
  BY DEF ScenarioType
<1>3. ASSUME NEW o \in Orders PROVE ReadyAt(s, o) \in Nat
  BY <1>2 DEF ReadyAt, Later
<1>4. ASSUME NEW t \in Techs
      PROVE  s.home[t] \in Points /\ s.from[t] \in Nat /\ s.to[t] \in Nat /\ s.extra[t] \in Nat
  BY DEF ScenarioType
<1>5. ASSUME NEW t \in Techs PROVE LatestReturn(s, t) \in Nat
  BY <1>4 DEF LatestReturn
<1>6. ASSUME NEW p \in Points, NEW q \in Points PROVE Travel(s, p, q) \in Nat
  BY DEF ScenarioType, Travel
<1> QED BY <1>1, <1>2, <1>3, <1>4, <1>5, <1>6

\* The visit a step makes is a visit.
LEMMA VisitTyped ==
  ASSUME NEW s \in ScenarioType, NEW o \in Orders, NEW n \in Nat, NEW arrive \in Nat,
         NEW start \in Nat, NEW leg \in Nat
  PROVE  VisitOf(s, o, n, arrive, start, leg) \in VisitType
<1>1. start + s.service[o] \in Nat /\ s.due[o] \in Nat BY ScenarioFields
<1>2. Lateness(s, o, start + s.service[o]) \in Nat BY <1>1 DEF Lateness, Later
<1> QED BY <1>1, <1>2 DEF VisitOf, VisitType

\* Where and when a technician is free after a route.
LEMMA AfterTyped ==
  ASSUME NEW s \in ScenarioType, NEW r \in Seq(VisitType), NEW e \in Entry
  PROVE  FreeAfter(r, e) \in Nat /\ SpotAfter(s, r, e) \in Points
<1>1. CASE r = <<>> BY <1>1 DEF FreeAfter, SpotAfter, Entry
<1>2. CASE r # <<>>
  <2>1. Last(r) \in VisitType BY <1>2, EmptySeq DEF Last
  <2>2. Last(r).finish \in Nat /\ Last(r).order \in Orders BY <2>1 DEF VisitType
  <2> QED BY <1>2, <2>2, ScenarioFields DEF FreeAfter, SpotAfter
<1> QED BY <1>1, <1>2

\* A route stays in order when a visit is appended that begins after the way
\* from its end.
LEMMA RouteGrows ==
  ASSUME NEW s \in ScenarioType, NEW t \in Techs, NEW r, NEW e \in Entry, s.from[t] <= e.free,
         RouteInv(s, t, r, e), NEW o \in Orders, NEW start \in Nat,
         t \in s.able[o], s.lock[o] \in {None, t}, ReadyAt(s, o) <= start, start <= s.closes[o],
         NEW leg, leg = Travel(s, SpotAfter(s, r, e), s.place[o]),
         FreeAfter(r, e) + leg <= start,
         NEW v, v = VisitOf(s, o, Len(r) + 1, FreeAfter(r, e) + leg, start, leg)
  PROVE  RouteInv(s, t, Append(r, v), e)
<1> DEFINE q == Append(r, v)
<1>1. r \in Seq(VisitType) /\ Len(r) \in Nat BY DEF RouteInv
<1>2. FreeAfter(r, e) \in Nat /\ SpotAfter(s, r, e) \in Points BY <1>1, AfterTyped
<1>3. leg \in Nat /\ s.service[o] \in Nat /\ s.from[t] \in Nat /\ s.opens[o] \in Nat
      /\ s.closes[o] \in Nat /\ s.reported[o] \in Nat /\ s.place[o] \in Points
  BY <1>2, ScenarioFields
<1>4. v \in VisitType BY <1>1, <1>2, <1>3, VisitTyped
<1>5. /\ q \in Seq(VisitType) /\ q # <<>> /\ Len(q) = Len(r) + 1
      /\ \A i \in 1 .. Len(r) : q[i] = r[i]
      /\ q[Len(r) + 1] = v
  BY <1>1, <1>4, AppendProperties
<1>6. DOMAIN r = 1 .. Len(r) /\ DOMAIN q = 1 .. Len(r) + 1 /\ Last(q) = v
  BY <1>1, <1>5 DEF Last
<1>7. /\ v.order = o /\ v.seq = Len(r) + 1 /\ v.arrive = FreeAfter(r, e) + leg /\ v.start = start
      /\ v.finish = start + s.service[o] /\ v.leg = leg
      /\ v.late = Lateness(s, o, start + s.service[o])
  BY DEF VisitOf
<1>8. s.from[t] <= FreeAfter(r, e) /\ \A i \in DOMAIN r : r[i].finish <= FreeAfter(r, e)
  <2>1. CASE r = <<>> BY <2>1, <1>3, <1>6, EmptySeq DEF FreeAfter
  <2>2. CASE r # <<>>
    <3>1. Len(r) \in DOMAIN r BY <2>2, <1>1, <1>6, EmptySeq
    <3>2. Last(r).finish = Last(r).start + s.service[Last(r).order] /\ s.from[t] <= Last(r).start
      BY <3>1 DEF RouteInv, VisitInTime, Last
    <3>3. Last(r) \in VisitType BY <3>1, <1>1 DEF Last
    <3>4. Last(r).start \in Nat /\ s.service[Last(r).order] \in Nat
      BY <3>3, ScenarioFields DEF VisitType
    <3>5. s.from[t] <= Last(r).finish BY <3>2, <3>4, <1>3
    <3>6. \A i \in DOMAIN r : r[i].finish <= Last(r).finish BY DEF RouteInv
    <3> QED BY <2>2, <3>5, <3>6 DEF FreeAfter
  <2> QED BY <2>1, <2>2
<1>9. FreeAfter(r, e) <= v.finish BY <1>2, <1>3, <1>7
<1>10. ASSUME NEW i \in DOMAIN q
       PROVE  q[i].seq = i /\ VisitInTime(s, t, q, i) /\ q[i].finish <= Last(q).finish
  <2>1. CASE i \in DOMAIN r
    <3>1. q[i] = r[i] BY <2>1, <1>5, <1>6
    <3>2. r[i].seq = i /\ VisitInTime(s, t, r, i) BY <2>1 DEF RouteInv
    <3>3. VisitInTime(s, t, q, i) BY <3>1, <3>2 DEF VisitInTime
    <3>4. r[i] \in VisitType BY <2>1, <1>1, <1>6
    <3>5. r[i].finish \in Nat /\ v.finish \in Nat BY <3>4, <1>4 DEF VisitType
    <3>6. r[i].finish <= v.finish BY <2>1, <1>8, <1>9, <3>5, <1>2
    <3> QED BY <3>1, <3>2, <3>3, <3>6, <1>6
  <2>2. CASE i = Len(r) + 1
    <3>1. q[i] = v BY <2>2, <1>5
    <3>2. start \in s.opens[o] .. s.closes[o]
      BY <1>3 DEF ReadyAt, Later
    <3>3. s.from[t] <= start /\ v.arrive <= start BY <1>2, <1>3, <1>7, <1>8
    <3>4. VisitInTime(s, t, q, i) BY <3>1, <3>2, <3>3, <1>7 DEF VisitInTime
    <3>5. v.finish \in Nat BY <1>4 DEF VisitType
    <3> QED BY <3>1, <3>4, <3>5, <2>2, <1>6, <1>7
  <2> QED BY <2>1, <2>2, <1>6, <1>1
<1>11. ASSUME NEW i \in DOMAIN q, i > 1 PROVE LegStands(s, q[i - 1], q[i])
  <2>1. CASE i \in DOMAIN r
    <3>1. q[i] = r[i] /\ q[i - 1] = r[i - 1] BY <2>1, <1>11, <1>1, <1>5, <1>6
    <3> QED BY <2>1, <1>11, <3>1 DEF RouteInv
  <2>2. CASE i = Len(r) + 1
    <3>1. r # <<>> /\ q[i - 1] = Last(r) /\ q[i] = v
      BY <2>2, <1>11, <1>1, <1>5, EmptySeq DEF Last
    <3>2. Last(r).finish = FreeAfter(r, e) /\ s.place[Last(r).order] = SpotAfter(s, r, e)
      BY <3>1 DEF FreeAfter, SpotAfter
    <3>3. Travel(s, s.place[Last(r).order], s.place[v.order]) = leg BY <3>2, <1>7
    <3>4. /\ v.leg = leg
          /\ Last(r).finish + leg <= v.arrive /\ Last(r).finish + leg <= v.start
      BY <3>2, <1>2, <1>3, <1>7
    <3>5. LegStands(s, Last(r), v) BY <3>3, <3>4 DEF LegStands
    <3> QED BY <3>1, <3>5
  <2>3. i \in DOMAIN r \/ i = Len(r) + 1 BY <1>6, <1>1
  <2> QED BY <2>1, <2>2, <2>3
<1>12. EntryStands(s, q[1], e)
  <2>1. CASE r = <<>>
    <3>1. q[1] = v BY <2>1, <1>5, EmptySeq
    <3>2. FreeAfter(r, e) = e.free /\ SpotAfter(s, r, e) = e.at BY <2>1 DEF FreeAfter, SpotAfter
    <3> QED BY <3>1, <3>2, <1>2, <1>3, <1>7 DEF EntryStands
  <2>2. CASE r # <<>>
    <3>1. q[1] = r[1] BY <2>2, <1>1, <1>5, EmptySeq
    <3> QED BY <2>2, <3>1 DEF RouteInv
  <2> QED BY <2>1, <2>2
<1> QED BY <1>5, <1>10, <1>11, <1>12 DEF RouteInv

------------------------------------------------------------------------------
(* The steps.                                                               *)

\* Whether a lock binds is read off the problem.
LEMMA BoundStays ==
  ASSUME scn' = scn, entry' = entry PROVE \A o : Bound(o)' = Bound(o)
BY DEF Bound, Allowed, LatestReturn

LEMMA HomeTyped == ASSUME NEW s \in ScenarioType PROVE HomeEntry(s) \in [Techs -> Entry]
BY ScenarioFields DEF HomeEntry, Entry

LEMMA InitIInv == Init => IInv
<1> SUFFICES ASSUME Init PROVE IInv
  OBVIOUS
<1>1. scn \in ScenarioType BY ScenarioAssumption DEF Init
<1>2. entry \in [Techs -> Entry] BY <1>1, HomeTyped DEF Init
<1>3. <<>> \in Seq(VisitType) /\ DOMAIN <<>> = {} BY EmptySeq
<1>4. scn.active \subseteq Orders BY <1>1, ScenarioFields
<1>5. TypeOK BY <1>2, <1>3, <1>4 DEF Init, TypeOK, Entry
<1>6. \A t \in Techs : RouteInv(scn, t, routes[t], entry[t]) BY <1>3 DEF Init, RouteInv
<1>7. PlacesIn(scn.active) BY <1>3 DEF Init, PlacesIn, Placed
<1> QED BY <1>5, <1>6, <1>7 DEF Init, IInv

\* What a visit does to the routes, wherever the technicians come from.
LEMMA VisitStep ==
  ASSUME TypeOK, NEW t \in Techs, NEW o \in waiting, NEW start \in Nat, Visit(t, o, start),
         scn.from[t] <= entry[t].free, RouteInv(scn, t, routes[t], entry[t])
  PROVE  LET r == routes[t]
             v == VisitOf(scn, o, Len(r) + 1, Free(t) + LegTo(t, o), start, LegTo(t, o))
         IN /\ TypeOK' /\ v \in VisitType /\ Len(r) \in Nat
            /\ Free(t) \in Nat /\ LegTo(t, o) \in Nat
            /\ DOMAIN r = 1 .. Len(r) /\ DOMAIN routes'[t] = 1 .. Len(r) + 1
            /\ \A i \in 1 .. Len(r) : routes'[t][i] = r[i]
            /\ routes'[t][Len(r) + 1] = v
            /\ \A u \in Techs : u # t => routes'[u] = routes[u]
            /\ RouteInv(scn', t, routes'[t], entry'[t])
<1> DEFINE r == routes[t]
           leg == LegTo(t, o)
           v == VisitOf(scn, o, Len(r) + 1, Free(t) + leg, start, leg)
<1>1. scn \in ScenarioType BY ScenarioAssumption DEF TypeOK
<1>2. entry[t] \in Entry BY DEF TypeOK, Entry
<1>3. o \in Orders BY DEF TypeOK
<1>4. r \in Seq(VisitType) /\ Len(r) \in Nat /\ DOMAIN r = 1 .. Len(r) BY DEF TypeOK
<1>5. Free(t) = FreeAfter(r, entry[t]) /\ Spot(t) = SpotAfter(scn, r, entry[t])
  BY DEF Free, Spot, FreeAfter, SpotAfter
<1>6. Free(t) \in Nat /\ Spot(t) \in Points BY <1>1, <1>2, <1>4, <1>5, AfterTyped
<1>7. leg = Travel(scn, SpotAfter(scn, r, entry[t]), scn.place[o]) BY <1>5 DEF LegTo
<1>8. leg \in Nat BY <1>1, <1>3, <1>5, <1>6, <1>7, ScenarioFields
<1>9. v \in VisitType /\ v.order = o
  <2>1. v \in VisitType BY <1>1, <1>3, <1>4, <1>6, <1>8, VisitTyped
  <2>2. v.order = o BY DEF VisitOf
  <2> QED BY <2>1, <2>2
<1>10. /\ t \in scn.able[o] /\ scn.lock[o] \in {None, t} /\ ReadyAt(scn, o) <= start
       /\ start <= scn.closes[o] /\ Free(t) + leg <= start
       /\ waiting' = waiting \ {o} /\ routes' = [routes EXCEPT ![t] = Append(r, v)]
       /\ scn' = scn /\ entry' = entry /\ dropped' = dropped /\ done' = done
  BY DEF Visit, Allowed
<1>11. RouteInv(scn, t, Append(r, v), entry[t])
  <2>1. Free(t) + leg = FreeAfter(r, entry[t]) + leg BY <1>5
  <2> HIDE DEF leg, v
  <2>2. v = VisitOf(scn, o, Len(r) + 1, FreeAfter(r, entry[t]) + leg, start, leg)
    BY <2>1 DEF v
  <2> QED BY <1>1, <1>2, <1>3, <1>7, <1>10, <2>1, <2>2, RouteGrows
<1> HIDE DEF v, leg
<1>12. /\ Append(r, v) \in Seq(VisitType) /\ DOMAIN Append(r, v) = 1 .. Len(r) + 1
       /\ \A i \in 1 .. Len(r) : Append(r, v)[i] = r[i]
       /\ Append(r, v)[Len(r) + 1] = v
  <2>1. /\ Append(r, v) \in Seq(VisitType) /\ Len(Append(r, v)) = Len(r) + 1
        /\ \A i \in 1 .. Len(r) : Append(r, v)[i] = r[i]
        /\ Append(r, v)[Len(r) + 1] = v
    BY <1>4, <1>9, AppendProperties
  <2> QED BY <2>1
<1>13. routes \in [Techs -> Seq(VisitType)] BY DEF TypeOK
<1>14. routes' \in [Techs -> Seq(VisitType)] /\ routes'[t] = Append(r, v)
       /\ \A u \in Techs : u # t => routes'[u] = routes[u]
  BY <1>10, <1>12, <1>13
<1>15. TypeOK' BY <1>1, <1>10, <1>14 DEF TypeOK
<1> QED BY <1>4, <1>6, <1>8, <1>9, <1>10, <1>11, <1>12, <1>14, <1>15 DEF v, leg

\* One more visit to an order that was waiting.
LEMMA PlacedGrows ==
  ASSUME NEW pool, NEW W, NEW D, NEW R, NEW Q, Placed(pool, W, D, R),
         NEW t \in Techs, NEW o \in W, NEW n \in Nat,
         DOMAIN R[t] = 1 .. n, DOMAIN Q[t] = 1 .. n + 1,
         \A i \in 1 .. n : Q[t][i] = R[t][i], Q[t][n + 1].order = o,
         \A u \in Techs : u # t => Q[u] = R[u]
  PROVE  Placed(pool, W \ {o}, D, Q)
<1>1. /\ n \in Nat /\ DOMAIN R[t] = 1 .. n /\ DOMAIN Q[t] = 1 .. n + 1
      /\ \A i \in 1 .. n : Q[t][i] = R[t][i]
      /\ Q[t][n + 1].order = o
      /\ \A u \in Techs : u # t => Q[u] = R[u]
  OBVIOUS
<1>2. o \in pool BY DEF Placed
<1>3. \A u \in Techs : \A i \in DOMAIN Q[u] :
        \/ u = t /\ i = n + 1 /\ Q[u][i].order = o
        \/ i \in DOMAIN R[u] /\ Q[u][i].order = R[u][i].order
            /\ ~(u = t /\ i = n + 1)
  <2> SUFFICES ASSUME NEW u \in Techs, NEW i \in DOMAIN Q[u]
               PROVE  \/ u = t /\ i = n + 1 /\ Q[u][i].order = o
                      \/ i \in DOMAIN R[u] /\ Q[u][i].order = R[u][i].order
                          /\ ~(u = t /\ i = n + 1)
    OBVIOUS
  <2>1. CASE u # t BY <2>1, <1>1
  <2>2. CASE u = t /\ i = n + 1 BY <2>2, <1>1
  <2>3. CASE u = t /\ i # n + 1
    <3>1. i \in 1 .. n BY <2>3, <1>1
    <3> QED BY <3>1, <2>3, <1>1
  <2> QED BY <2>1, <2>2, <2>3
<1>4. \A u \in Techs : \A i \in DOMAIN R[u] :
        i \in DOMAIN Q[u] /\ Q[u][i].order = R[u][i].order
  <2> SUFFICES ASSUME NEW u \in Techs, NEW i \in DOMAIN R[u]
               PROVE  i \in DOMAIN Q[u] /\ Q[u][i].order = R[u][i].order
    OBVIOUS
  <2>1. CASE u # t BY <2>1, <1>1
  <2>2. CASE u = t
    <3>1. i \in 1 .. n BY <2>2, <1>1
    <3>2. i \in 1 .. n + 1 BY <3>1, <1>1
    <3> QED BY <3>1, <3>2, <2>2, <1>1
  <2> QED BY <2>1, <2>2
<1>5. n + 1 \in DOMAIN Q[t] /\ Q[t][n + 1].order = o
  BY <1>1
<1>6. (W \ {o}) \cap D = {} /\ (W \ {o}) \cup D \subseteq pool
  BY <1>2 DEF Placed
<1>7. o \notin D BY DEF Placed
<1>8. \A u \in Techs : \A i \in DOMAIN R[u] :
        R[u][i].order \in pool \ (W \cup D)
  BY DEF Placed
<1>9. \A u \in Techs : \A i \in DOMAIN Q[u] :
        Q[u][i].order \in pool \ ((W \ {o}) \cup D)
  BY <1>3, <1>7, <1>8, <1>2
<1>10. \A p \in pool \ ((W \ {o}) \cup D) :
        \E u \in Techs : \E i \in DOMAIN Q[u] : Q[u][i].order = p
  <2> SUFFICES ASSUME NEW p \in pool \ ((W \ {o}) \cup D)
               PROVE  \E u \in Techs : \E i \in DOMAIN Q[u] : Q[u][i].order = p
    BY <1>2
  <2>1. CASE p = o BY <2>1, <1>5
  <2>2. CASE p # o
    <3>1. p \in pool \ (W \cup D) BY <2>2
    <3>2. PICK u \in Techs : \E i \in DOMAIN R[u] : R[u][i].order = p
      BY <3>1 DEF Placed
    <3> QED BY <3>2, <1>4
  <2> QED BY <2>1, <2>2
<1>11. ASSUME NEW u \in Techs, NEW w \in Techs, NEW i \in DOMAIN Q[u],
             NEW j \in DOMAIN Q[w], Q[u][i].order = Q[w][j].order
      PROVE  u = w /\ i = j
  <2>1. \A x \in Techs : \A k \in DOMAIN R[x] : R[x][k].order # o
    BY <1>8
  <2>2. \/ /\ u = t /\ i = n + 1 /\ Q[u][i].order = o
        \/ i \in DOMAIN R[u] /\ Q[u][i].order = R[u][i].order
    BY <1>3
  <2>3. \/ /\ w = t /\ j = n + 1 /\ Q[w][j].order = o
        \/ j \in DOMAIN R[w] /\ Q[w][j].order = R[w][j].order
    BY <1>3
  <2>4. CASE Q[u][i].order = o
    BY <2>1, <2>2, <2>3, <2>4, <1>11
  <2>5. CASE Q[u][i].order # o
    <3>1. i \in DOMAIN R[u] /\ j \in DOMAIN R[w]
          /\ R[u][i].order = R[w][j].order
      BY <2>2, <2>3, <2>5, <1>11
    <3> QED BY <3>1 DEF Placed
  <2> QED BY <2>4, <2>5
<1> QED BY <1>6, <1>9, <1>10, <1>11 DEF Placed

\* One order left out.
LEMMA PlacedDrops ==
  ASSUME NEW pool, NEW W, NEW D, NEW R, Placed(pool, W, D, R), NEW o \in W
  PROVE  Placed(pool, W \ {o}, D \cup {o}, R)
<1>1. (W \ {o}) \cup (D \cup {o}) = W \cup D OBVIOUS
<1>2. (W \ {o}) \cap (D \cup {o}) = {} BY DEF Placed
<1> QED BY <1>1, <1>2 DEF Placed

\* When nothing waits, every order is served once or left out.
LEMMA PlacedCovers ==
  ASSUME NEW pool, NEW D, NEW R, Placed(pool, {}, D, R) PROVE Covers(pool, R, D)
<1>1. Served(R) = pool \ D
  <2>1. ASSUME NEW o \in Served(R) PROVE o \in pool \ D
    <3>1. PICK t \in Techs : o \in OrdersOf(R[t]) BY DEF Served
    <3>2. PICK i \in DOMAIN R[t] : o = R[t][i].order BY <3>1 DEF OrdersOf
    <3> QED BY <3>2 DEF Placed
  <2>2. ASSUME NEW o \in pool \ D PROVE o \in Served(R)
    <3>1. PICK t \in Techs : \E i \in DOMAIN R[t] : R[t][i].order = o BY DEF Placed
    <3>2. o \in OrdersOf(R[t]) BY <3>1 DEF OrdersOf
    <3> QED BY <3>2 DEF Served
  <2> QED BY <2>1, <2>2
<1>2. D \subseteq pool BY DEF Placed
<1> QED BY <1>1, <1>2 DEF Placed, Covers

LEMMA VisitKeepsPlaces ==
  ASSUME TypeOK, NEW pool, PlacesIn(pool), NEW t \in Techs, NEW o \in waiting, NEW start \in Nat,
         Visit(t, o, start), scn.from[t] <= entry[t].free, RouteInv(scn, t, routes[t], entry[t])
  PROVE  PlacesIn(pool)'
<1> DEFINE r == routes[t]
           v == VisitOf(scn, o, Len(r) + 1, Free(t) + LegTo(t, o), start, LegTo(t, o))
<1>1. /\ Len(r) \in Nat /\ DOMAIN r = 1 .. Len(r) /\ DOMAIN routes'[t] = 1 .. Len(r) + 1
      /\ \A i \in 1 .. Len(r) : routes'[t][i] = r[i]
      /\ routes'[t][Len(r) + 1].order = o
      /\ \A u \in Techs : u # t => routes'[u] = routes[u]
  <2>1. v.order = o BY DEF VisitOf
  <2> HIDE DEF v
  <2> QED BY <2>1, VisitStep DEF v
<1>2. waiting' = waiting \ {o} /\ dropped' = dropped BY DEF Visit
<1>3. Placed(pool, waiting \ {o}, dropped, routes') BY <1>1, PlacedGrows DEF PlacesIn
<1> QED BY <1>2, <1>3 DEF PlacesIn

LEMMA VisitKeepsIInv ==
  ASSUME IInv, NEW t \in Techs, NEW o \in waiting, NEW start \in Nat, Visit(t, o, start)
  PROVE  IInv'
<1>1. TypeOK /\ entry = HomeEntry(scn) /\ PlacesIn(scn.active)
      /\ \A u \in Techs : RouteInv(scn, u, routes[u], entry[u])
  BY DEF IInv
<1>2. scn \in ScenarioType /\ scn.from[t] \in Nat
  BY <1>1, ScenarioAssumption, ScenarioFields DEF TypeOK
<1>3. scn.from[t] <= entry[t].free BY <1>1, <1>2 DEF HomeEntry
<1>4. scn' = scn /\ entry' = entry /\ done' = done BY DEF Visit
<1>5. /\ TypeOK' /\ RouteInv(scn', t, routes'[t], entry'[t])
      /\ \A u \in Techs : u # t => routes'[u] = routes[u]
  BY <1>1, <1>3, VisitStep
<1>6. \A u \in Techs : RouteInv(scn', u, routes'[u], entry'[u]) BY <1>1, <1>4, <1>5
<1>7. PlacesIn(scn.active)' 
  <2>1. PICK pool : pool = scn.active OBVIOUS
  <2>2. PlacesIn(pool) BY <1>1, <2>1
  <2>3. PlacesIn(pool)' BY <1>1, <1>3, <2>2, VisitKeepsPlaces
  <2> QED BY <1>4, <2>1, <2>3 DEF PlacesIn, Placed
<1>8. ~done BY DEF IInv, Visit
<1>9. \A p \in dropped' : ~Bound(p)' BY <1>4, BoundStays DEF IInv, Visit
<1> QED BY <1>1, <1>4, <1>5, <1>6, <1>7, <1>8, <1>9 DEF IInv

LEMMA LeaveOutKeepsIInv == ASSUME IInv, NEW o \in waiting, LeaveOut(o) PROVE IInv'
<1>1. /\ waiting' = waiting \ {o} /\ dropped' = dropped \cup {o}
      /\ scn' = scn /\ entry' = entry /\ routes' = routes /\ done' = done
  BY DEF LeaveOut, Drop
<1>2. TypeOK' BY <1>1 DEF IInv, TypeOK
<1>3. \A t \in Techs : RouteInv(scn', t, routes'[t], entry'[t]) BY <1>1 DEF IInv
<1>4. PlacesIn(scn.active)'
  <2>1. waiting' \cup dropped' = waiting \cup dropped BY <1>1
  <2>2. PlacesIn(scn.active) BY DEF IInv
  <2>3. waiting' \cap dropped' = {} BY <1>1, <2>2 DEF PlacesIn, Placed
  <2> QED BY <1>1, <2>1, <2>2, <2>3 DEF PlacesIn, Placed
<1>5. ~done BY DEF IInv
<1>6. \A p \in dropped' : ~Bound(p)' BY <1>1, BoundStays DEF IInv, LeaveOut
<1> QED BY <1>1, <1>2, <1>3, <1>4, <1>5, <1>6 DEF IInv

LEMMA HandOverKeepsIInv == ASSUME IInv, HandOver PROVE IInv'
<1>1. /\ waiting = {} /\ done' = TRUE /\ \A t \in Techs : EndsInTime(t)
      /\ waiting' = waiting /\ dropped' = dropped
      /\ scn' = scn /\ entry' = entry /\ routes' = routes
  BY DEF HandOver
<1>2. TypeOK' BY <1>1 DEF IInv, TypeOK
<1>3. PlacesIn(scn.active)' BY <1>1 DEF IInv, PlacesIn, Placed
<1>4. \A t \in Techs : EndsInTime(t)' BY <1>1 DEF EndsInTime, Free, Spot
<1>5. \A p \in dropped' : ~Bound(p)' BY <1>1, BoundStays DEF IInv
<1> QED BY <1>1, <1>2, <1>3, <1>4, <1>5 DEF IInv

LEMMA StutterKeepsIInv == ASSUME IInv, UNCHANGED vars PROVE IInv'
<1>1. /\ waiting' = waiting /\ dropped' = dropped /\ done' = done
      /\ scn' = scn /\ entry' = entry /\ routes' = routes
  BY DEF vars, solving
<1>2. TypeOK' BY <1>1 DEF IInv, TypeOK
<1>3. PlacesIn(scn.active)' BY <1>1 DEF IInv, PlacesIn, Placed
<1>4. done' => waiting' = {} /\ \A t \in Techs : EndsInTime(t)'
  BY <1>1 DEF IInv, EndsInTime, Free, Spot
<1>5. \A p \in dropped' : ~Bound(p)' BY <1>1, BoundStays DEF IInv
<1> QED BY <1>1, <1>2, <1>3, <1>4, <1>5 DEF IInv

LEMMA NextKeepsIInv == ASSUME IInv, [Next]_vars PROVE IInv'
<1>1. CASE UNCHANGED vars BY <1>1, StutterKeepsIInv
<1>2. ASSUME NEW t \in Techs, NEW o \in waiting, NEW start \in 0 .. scn.closes[o],
             Visit(t, o, start)
      PROVE  IInv'
  <2>1. start \in Nat
    <3>1. scn \in ScenarioType /\ o \in Orders BY ScenarioAssumption DEF IInv, TypeOK
    <3>2. scn.closes[o] \in Nat BY <3>1, ScenarioFields
    <3> QED BY <3>2
  <2> QED BY <1>2, <2>1, VisitKeepsIInv
<1>3. ASSUME NEW o \in waiting, LeaveOut(o) PROVE IInv' BY <1>3, LeaveOutKeepsIInv
<1>4. CASE HandOver BY <1>4, HandOverKeepsIInv
<1> QED BY <1>1, <1>2, <1>3, <1>4 DEF Next

------------------------------------------------------------------------------
(* What holds of every engine.                                              *)

\* The inductive invariant holds.
THEOREM IInvHolds == Spec => []IInv
<1>1. Init => IInv BY InitIInv
<1>2. IInv /\ [Next]_vars => IInv' BY NextKeepsIInv
<1> QED BY <1>1, <1>2, PTL DEF Spec

\* Routes under construction have their type.
THEOREM TypeCorrect == Spec => []TypeOK
<1>1. IInv => TypeOK BY DEF IInv
<1> QED BY <1>1, IInvHolds, PTL

\* A route that ends in time stands: no visit is later than the last.
LEMMA RouteInTimeStands ==
  ASSUME NEW s \in ScenarioType, NEW t \in Techs, NEW r,
         RouteInv(s, t, r, HomeEntry(s)[t]),
         r # <<>> => Last(r).finish + Travel(s, s.place[Last(r).order], s.home[t])
                       <= LatestReturn(s, t)
  PROVE  RouteStands(s, t, r, HomeEntry(s)[t], FALSE)
<1>1. r \in Seq(VisitType) /\ DOMAIN r = 1 .. Len(r) /\ Len(r) \in Nat BY DEF RouteInv
<1>2. ASSUME NEW i \in DOMAIN r PROVE r[i].seq = i /\ VisitStands(s, t, r[i])
  <2>1. r # <<>> BY <1>1, EmptySeq
  <2>2. Last(r) \in VisitType /\ r[i] \in VisitType BY <1>1 DEF Last
  <2>3. Last(r).finish \in Nat /\ r[i].finish \in Nat /\ Last(r).order \in Orders
    BY <2>2 DEF VisitType
  <2>4. Travel(s, s.place[Last(r).order], s.home[t]) \in Nat /\ LatestReturn(s, t) \in Nat
    BY <2>3, ScenarioFields
  <2>5. r[i].seq = i /\ VisitInTime(s, t, r, i) /\ r[i].finish <= Last(r).finish
    BY DEF RouteInv
  <2>6. r[i].finish <= LatestReturn(s, t) BY <2>1, <2>3, <2>4, <2>5
  <2> QED BY <2>5, <2>6 DEF VisitInTime, VisitStands
<1>3. \A i \in DOMAIN r : i > 1 => LegStands(s, r[i - 1], r[i]) BY DEF RouteInv
<1>4. r # <<>> => ReturnStands(s, t, Last(r)) /\ EntryStands(s, r[1], HomeEntry(s)[t])
  BY DEF RouteInv, ReturnStands
<1> QED BY <1>2, <1>3, <1>4 DEF RouteStands

\* Normalising a route that was built in order changes nothing.
LEMMA BuiltIsNormal ==
  ASSUME NEW s \in ScenarioType, NEW t \in Techs, NEW r, NEW e, RouteInv(s, t, r, e)
  PROVE  DerivedStands(s, r, e, FALSE)
<1>1. r \in Seq(VisitType) /\ DOMAIN r = 1 .. Len(r) /\ Len(r) \in Nat BY DEF RouteInv
<1>2. ASSUME NEW i \in DOMAIN r
      PROVE  [r[i] EXCEPT
                !.leg = IF i = 1 /\ FALSE THEN r[i].leg
                        ELSE Travel(s, SpotBefore(s, r, i, e), s.place[r[i].order]),
                !.late = Lateness(s, r[i].order, r[i].finish)] = r[i]
  <2>1. r[i] \in VisitType BY <1>1
  <2>2. r[i].late = Lateness(s, r[i].order, r[i].finish) BY DEF RouteInv, VisitInTime
  <2>3. r[i].leg = Travel(s, SpotBefore(s, r, i, e), s.place[r[i].order])
    <3>1. CASE i = 1
      <4>1. r # <<>> BY <1>1, EmptySeq
      <4> QED BY <3>1, <4>1 DEF RouteInv, EntryStands, SpotBefore
    <3>2. CASE i # 1
      <4>1. i > 1 BY <3>2, <1>1
      <4> QED BY <3>2, <4>1 DEF RouteInv, LegStands, SpotBefore
    <3> QED BY <3>1, <3>2
  <2> QED BY <2>1, <2>2, <2>3 DEF VisitType
<1>3. Normalized(s, r, e, FALSE) = [i \in DOMAIN r |-> r[i]] BY <1>2 DEF Normalized
<1>4. r = [i \in DOMAIN r |-> r[i]] BY <1>1
<1> QED BY <1>3, <1>4 DEF DerivedStands

\* Whatever routes the search returns, within the constraints it was given, the
\* publication verifier lets them stand: coverage, skills, windows, arrival order,
\* shifts, the way home, every derived value, and the manual locks, neither moved
\* nor left out, if each names a technician who can be given the order.
THEOREM HandedOverIsPublishable == Spec => []HandedOverStands
<1>1. ASSUME IInv, done, LocksServable PROVE Stands(scn, routes, dropped)
  <2>1. scn \in ScenarioType /\ entry = HomeEntry(scn) /\ waiting = {} /\ PlacesIn(scn.active)
    BY <1>1, ScenarioAssumption DEF IInv, TypeOK
  <2>2. Covers(scn.active, routes, dropped) BY <2>1, PlacedCovers DEF PlacesIn
  <2>3. ASSUME NEW t \in Techs
        PROVE  /\ RouteStands(scn, t, routes[t], HomeEntry(scn)[t], FALSE)
               /\ DerivedStands(scn, routes[t], HomeEntry(scn)[t], FALSE)
    <3>1. RouteInv(scn, t, routes[t], HomeEntry(scn)[t]) BY <1>1, <2>1 DEF IInv
    <3>2. entry[t].at = scn.home[t] BY <2>1 DEF HomeEntry
    <3>3. routes[t] # <<>> =>
            Last(routes[t]).finish
              + Travel(scn, scn.place[Last(routes[t]).order], scn.home[t]) <= LatestReturn(scn, t)
      BY <1>1, <3>2 DEF IInv, EndsInTime, Free, Spot
    <3> QED BY <2>1, <3>1, <3>3, RouteInTimeStands, BuiltIsNormal
  <2>4. LocksKept(scn, scn.active, dropped)
    BY <1>1 DEF IInv, LocksServable, LocksKept
  <2> QED BY <2>2, <2>3, <2>4 DEF Stands
<1>2. IInv => HandedOverStands BY <1>1 DEF HandedOverStands
<1> QED BY <1>2, IInvHolds, PTL

------------------------------------------------------------------------------
(* The baseline: the inductive invariant.                                   *)

\* The running time and place of a technician are those of the route's end,
\* from which the way home was found short enough.
ClockInv ==
  \A t \in Techs :
    /\ given.from[t] <= free[t]
    /\ built[t] = <<>> => free[t] = given.from[t] /\ spot[t] = given.home[t]
    /\ built[t] # <<>> =>
         /\ free[t] = Last(built[t]).finish
         /\ spot[t] = given.place[Last(built[t]).order]
         /\ free[t] + Travel(given, spot[t], given.home[t]) <= LatestReturn(given, t)

\* What is placed precedes what is still waiting.
OrderInv ==
  \A t \in Techs : \A i \in DOMAIN built[t] : \A p \in pending :
    Precedes(built[t][i].order, p)

GreedyInv == GreedyTypeOK /\ ClockInv /\ OrderInv /\ LeftOutForEarlier

------------------------------------------------------------------------------
(* What a step of the baseline does to a route.                             *)

\* When a technician arrives, begins and ends, and what the visit is.
LEMMA StepTyped ==
  ASSUME GreedyTypeOK, ClockInv, NEW t \in Techs, NEW o \in Orders
  PROVE  LET leg == ArrivalAt(t, o) - free[t]
             v == VisitOf(given, o, Len(built[t]) + 1, ArrivalAt(t, o), StartAt(t, o), leg)
         IN /\ leg = Travel(given, spot[t], given.place[o]) /\ leg \in Nat
            /\ ArrivalAt(t, o) \in Nat /\ StartAt(t, o) \in Nat
            /\ FinishAt(t, o) \in Nat /\ free[t] <= FinishAt(t, o)
            /\ ArrivalAt(t, o) <= StartAt(t, o) /\ ReadyAt(given, o) <= StartAt(t, o)
            /\ v \in VisitType /\ v.order = o /\ v.finish = FinishAt(t, o)
<1> DEFINE leg == ArrivalAt(t, o) - free[t]
           v == VisitOf(given, o, Len(built[t]) + 1, ArrivalAt(t, o), StartAt(t, o), leg)
<1>1. given \in ScenarioType /\ free[t] \in Nat /\ spot[t] \in Points
      /\ built[t] \in Seq(VisitType)
  BY ScenarioAssumption DEF GreedyTypeOK
<1>2. /\ given.place[o] \in Points /\ given.service[o] \in Nat /\ given.due[o] \in Nat
      /\ ReadyAt(given, o) \in Nat /\ Travel(given, spot[t], given.place[o]) \in Nat
  BY <1>1, ScenarioFields
<1>3. leg = Travel(given, spot[t], given.place[o]) /\ ArrivalAt(t, o) \in Nat
      /\ free[t] <= ArrivalAt(t, o)
  BY <1>1, <1>2 DEF ArrivalAt
<1>4. StartAt(t, o) \in Nat /\ ArrivalAt(t, o) <= StartAt(t, o)
      /\ ReadyAt(given, o) <= StartAt(t, o)
  BY <1>2, <1>3 DEF StartAt, Later
<1>5. FinishAt(t, o) \in Nat /\ free[t] <= FinishAt(t, o)
  BY <1>1, <1>2, <1>3, <1>4 DEF FinishAt
<1>6. v.order = o /\ v.finish = FinishAt(t, o) BY DEF VisitOf, FinishAt
<1>7. Lateness(given, o, FinishAt(t, o)) \in Nat BY <1>2, <1>5 DEF Lateness, Later
<1>8. v \in VisitType
  <2>1. Len(built[t]) + 1 \in Nat BY <1>1
  <2> HIDE DEF leg
  <2>2. leg \in Nat BY <1>2, <1>3
  <2> QED BY <2>1, <2>2, <1>3, <1>4, <1>5, <1>7 DEF VisitOf, VisitType, FinishAt
<1> QED BY <1>2, <1>3, <1>4, <1>5, <1>6, <1>8

\* Appending to one route: what the routes are afterwards.
LEMMA PlaceAppends ==
  ASSUME GreedyTypeOK, ClockInv, NEW o \in pending, NEW t \in Techs, Place(o, t)
  PROVE  /\ built' \in [Techs -> Seq(VisitType)]
         /\ \A u \in Techs \ {t} : built'[u] = built[u]
         /\ built'[t] # <<>> /\ Last(built'[t]).order = o
         /\ Last(built'[t]).finish = FinishAt(t, o)
         /\ DOMAIN built'[t] = 1 .. Len(built[t]) + 1
         /\ \A i \in DOMAIN built[t] : built'[t][i] = built[t][i]
         /\ built'[t][Len(built[t]) + 1].order = o
<1> DEFINE v == VisitOf(given, o, Len(built[t]) + 1, ArrivalAt(t, o), StartAt(t, o),
                        ArrivalAt(t, o) - free[t])
<1>1. o \in Orders /\ built \in [Techs -> Seq(VisitType)] BY DEF GreedyTypeOK
<1>2. v \in VisitType /\ v.order = o /\ v.finish = FinishAt(t, o) BY <1>1, StepTyped
<1>3. built' = [built EXCEPT ![t] = Append(built[t], v)] BY DEF Place
<1> HIDE DEF v
<1>4. built[t] \in Seq(VisitType) /\ DOMAIN built[t] = 1 .. Len(built[t])
      /\ Len(built[t]) \in Nat
  BY <1>1
<1>5. /\ Append(built[t], v) \in Seq(VisitType) /\ Append(built[t], v) # <<>>
      /\ Len(Append(built[t], v)) = Len(built[t]) + 1
      /\ \A i \in 1 .. Len(built[t]) : Append(built[t], v)[i] = built[t][i]
      /\ Append(built[t], v)[Len(built[t]) + 1] = v
  BY <1>2, <1>4, AppendProperties
<1>6. /\ built' \in [Techs -> Seq(VisitType)] /\ built'[t] = Append(built[t], v)
      /\ \A u \in Techs \ {t} : built'[u] = built[u]
  BY <1>1, <1>3, <1>5
<1>7. Last(built'[t]) = v BY <1>5, <1>6 DEF Last
<1>8. DOMAIN built'[t] = 1 .. Len(built[t]) + 1 BY <1>5, <1>6
<1> QED BY <1>2, <1>4, <1>5, <1>6, <1>7, <1>8

------------------------------------------------------------------------------
(* The baseline's steps keep its invariant.                                 *)

LEMMA InitGreedyInv == GreedyInit => GreedyInv
<1> SUFFICES ASSUME GreedyInit PROVE GreedyInv
  OBVIOUS
<1>1. given \in ScenarioType BY ScenarioAssumption DEF GreedyInit
<1>2. <<>> \in Seq(VisitType) /\ DOMAIN <<>> = {} BY EmptySeq
<1>3. free \in [Techs -> Nat] /\ spot \in [Techs -> Points]
  BY <1>1 DEF GreedyInit, ScenarioType
<1>4. GreedyTypeOK BY <1>1, <1>2, <1>3, ScenarioFields DEF GreedyInit, GreedyTypeOK
<1>5. ClockInv BY <1>1, <1>3, ScenarioFields DEF GreedyInit, ClockInv
<1>6. OrderInv BY <1>2 DEF GreedyInit, OrderInv
<1>7. LeftOutForEarlier BY DEF GreedyInit, LeftOutForEarlier, LeftOut
<1> QED BY <1>4, <1>5, <1>6, <1>7 DEF GreedyInv

\* What an order meets when it is planned alone, and the order of priority, are read off the
\* scenario: a step that leaves the scenario as it was leaves them too.
LEMMA AloneStays ==
  ASSUME given' = given
  PROVE  /\ \A p : Candidates(p)' = Candidates(p)
         /\ \A t, p : AloneFits(t, p)' = AloneFits(t, p)
         /\ \A o, p : Precedes(o, p)' = Precedes(o, p)
<1>1. ASSUME NEW p PROVE Candidates(p)' = Candidates(p)
  BY DEF Candidates
<1>2. ASSUME NEW t, NEW p PROVE AloneFits(t, p)' = AloneFits(t, p)
  <2>1. ASSUME NEW u PROVE AloneStart(u, p)' = AloneStart(u, p)
    BY DEF AloneStart, Travel, ReadyAt
  <2>2. AloneInWindow(p)' = AloneInWindow(p)
    <3>1. Candidates(p)' = Candidates(p) BY <1>1
    <3> QED BY <2>1, <3>1 DEF AloneInWindow
  <2>3. AloneHome(t, p)' = AloneHome(t, p) BY <2>1 DEF AloneHome, Travel
  <2>4. LatestReturn(given, t)' = LatestReturn(given, t) BY DEF LatestReturn
  <2> QED BY <2>2, <2>3, <2>4 DEF AloneFits
<1>3. ASSUME NEW o, NEW p PROVE Precedes(o, p)' = Precedes(o, p)
  BY DEF Precedes
<1> QED BY <1>1, <1>2, <1>3

LEMMA PlaceKeepsInv ==
  ASSUME GreedyInv, NEW o \in pending, NEW t \in Techs, Place(o, t)
  PROVE  GreedyInv'
<1>1. GreedyTypeOK /\ ClockInv /\ OrderInv /\ LeftOutForEarlier /\ o \in Orders
  BY DEF GreedyInv, GreedyTypeOK
<1>2. /\ free' = [free EXCEPT ![t] = FinishAt(t, o)]
      /\ spot' = [spot EXCEPT ![t] = given.place[o]]
      /\ pending' = pending \ {o} /\ given' = given
      /\ unassigned' = unassigned /\ finished' = finished
      /\ FinishAt(t, o) + Travel(given, given.place[o], given.home[t]) <= LatestReturn(given, t)
      /\ \A p \in pending \ {o} : Precedes(o, p)
  BY DEF Place, Choices
<1>3. /\ built' \in [Techs -> Seq(VisitType)]
      /\ \A u \in Techs \ {t} : built'[u] = built[u]
      /\ built'[t] # <<>> /\ Last(built'[t]).order = o
      /\ Last(built'[t]).finish = FinishAt(t, o)
      /\ DOMAIN built'[t] = 1 .. Len(built[t]) + 1
      /\ \A i \in DOMAIN built[t] : built'[t][i] = built[t][i]
      /\ built'[t][Len(built[t]) + 1].order = o
  BY <1>1, PlaceAppends
<1>4. given \in ScenarioType BY <1>1, ScenarioAssumption DEF GreedyTypeOK
<1>5. FinishAt(t, o) \in Nat /\ free[t] <= FinishAt(t, o) BY <1>1, StepTyped
<1>6. /\ free' \in [Techs -> Nat] /\ spot' \in [Techs -> Points]
      /\ free'[t] = FinishAt(t, o) /\ spot'[t] = given.place[o]
      /\ \A u \in Techs \ {t} : free'[u] = free[u] /\ spot'[u] = spot[u]
  BY <1>1, <1>2, <1>4, <1>5, ScenarioFields DEF GreedyTypeOK
<1>7. GreedyTypeOK' BY <1>1, <1>2, <1>3, <1>6 DEF GreedyTypeOK
<1>8. DOMAIN built[t] = 1 .. Len(built[t]) /\ Len(built[t]) \in Nat
  BY <1>1 DEF GreedyTypeOK
<1>9. ClockInv'
  <2>1. ASSUME NEW u \in Techs
        PROVE  /\ given.from[u] <= free'[u]
               /\ built'[u] = <<>> => free'[u] = given.from[u] /\ spot'[u] = given.home[u]
               /\ built'[u] # <<>> =>
                    /\ free'[u] = Last(built'[u]).finish
                    /\ spot'[u] = given.place[Last(built'[u]).order]
                    /\ free'[u] + Travel(given, spot'[u], given.home[u]) <= LatestReturn(given, u)
    <3>1. CASE u # t BY <3>1, <1>1, <1>3, <1>6 DEF ClockInv
    <3>2. CASE u = t
      <4>1. given.from[t] \in Nat /\ free[t] \in Nat BY <1>1, <1>4, ScenarioFields DEF GreedyTypeOK
      <4>2. given.from[t] <= FinishAt(t, o) BY <4>1, <1>1, <1>5 DEF ClockInv
      <4> QED BY <3>2, <4>2, <1>2, <1>3, <1>6
    <3> QED BY <3>1, <3>2
  <2> QED BY <2>1, <1>2 DEF ClockInv, Travel, LatestReturn
<1>10. ASSUME NEW u \in Techs, NEW i \in DOMAIN built[u]
       PROVE  i \in DOMAIN built'[u] /\ built'[u][i] = built[u][i]
  <2>1. CASE u # t BY <2>1, <1>3
  <2>2. CASE u = t
    <3>1. i \in 1 .. Len(built[t]) + 1 BY <2>2, <1>8
    <3> QED BY <3>1, <2>2, <1>3
  <2> QED BY <2>1, <2>2
<1>11. OrderInv'
  <2>1. ASSUME NEW u \in Techs, NEW i \in DOMAIN built'[u], NEW p \in pending \ {o}
        PROVE  Precedes(built'[u][i].order, p)
    <3>1. CASE u = t /\ i = Len(built[t]) + 1 BY <3>1, <1>2, <1>3
    <3>2. CASE ~(u = t /\ i = Len(built[t]) + 1)
      <4>1. i \in DOMAIN built[u]
        <5>1. CASE u # t BY <5>1, <1>3
        <5>2. CASE u = t BY <5>2, <3>2, <1>3, <1>8
        <5> QED BY <5>1, <5>2
      <4>2. built'[u][i] = built[u][i] BY <4>1, <1>10
      <4> QED BY <4>1, <4>2, <1>1 DEF OrderInv
    <3> QED BY <3>1, <3>2
  <2> QED BY <2>1, <1>2 DEF OrderInv, Precedes
<1>12. LeftOutForEarlier'
  <2>1. ASSUME NEW p \in LeftOut(unassigned), NEW u \in Candidates(p), AloneFits(u, p)
        PROVE  \E i \in DOMAIN built'[u] : Precedes(built'[u][i].order, p)
    <3>1. PICK i \in DOMAIN built[u] : Precedes(built[u][i].order, p)
      BY <1>1, <2>1 DEF LeftOutForEarlier
    <3>2. u \in Techs
      <4>1. p \in Orders BY <1>1 DEF GreedyTypeOK, LeftOut
      <4> QED BY <4>1, <1>4, ScenarioFields DEF Candidates
    <3> QED BY <3>1, <3>2, <1>10
  <2>2. LeftOut(unassigned)' = LeftOut(unassigned) BY <1>2 DEF LeftOut
  <2> QED BY <2>1, <2>2, <1>2, AloneStays DEF LeftOutForEarlier
<1> QED BY <1>7, <1>9, <1>11, <1>12 DEF GreedyInv

LEMMA OneMore ==
  ASSUME NEW ds, NEW o, NEW why
  PROVE  LeftOut(ds \cup {[order |-> o, reason |-> why]}) = LeftOut(ds) \cup {o}
<1> DEFINE new == [order |-> o, reason |-> why]
<1>1. new.order = o OBVIOUS
<1> HIDE DEF new
<1>2. LeftOut(ds \cup {new}) = LeftOut(ds) \cup {o} BY <1>1 DEF LeftOut
<1> QED BY <1>2 DEF new

LEMMA UnassignKeepsInv == ASSUME GreedyInv, NEW o \in pending, Unassign(o) PROVE GreedyInv'
<1>1. GreedyTypeOK /\ ClockInv /\ OrderInv /\ LeftOutForEarlier /\ o \in Orders
  BY DEF GreedyInv, GreedyTypeOK
<1>2. /\ unassigned' = unassigned \cup {[order |-> o, reason |-> Reason(o)]}
      /\ pending' = pending \ {o} /\ Choices(o) = {}
      /\ given' = given /\ built' = built /\ free' = free /\ spot' = spot /\ finished' = finished
  BY DEF Unassign
<1>3. given \in ScenarioType BY <1>1, ScenarioAssumption DEF GreedyTypeOK
<1>4. GreedyTypeOK'
  <2>1. Reason(o) \in Reasons BY DEF Reason, Reasons
  <2> QED BY <2>1, <1>1, <1>2 DEF GreedyTypeOK
<1>5. ClockInv' BY <1>1, <1>2 DEF ClockInv, Travel, LatestReturn
<1>6. OrderInv' BY <1>1, <1>2 DEF OrderInv, Precedes
<1>7. LeftOut(unassigned') = LeftOut(unassigned) \cup {o} BY <1>2, OneMore
<1>8. ASSUME NEW t \in Candidates(o), AloneFits(t, o)
      PROVE  \E i \in DOMAIN built[t] : Precedes(built[t][i].order, o)
  <2>1. t \in Techs BY <1>1, <1>3, ScenarioFields DEF Candidates
  <2>2. built[t] # <<>>
    <3>1. SUFFICES ASSUME built[t] = <<>> PROVE FALSE
      OBVIOUS
    <3>2. free[t] = given.from[t] /\ spot[t] = given.home[t] BY <3>1, <2>1, <1>1 DEF ClockInv
    <3>3. StartAt(t, o) = AloneStart(t, o) BY <3>2 DEF StartAt, ArrivalAt, AloneStart
    <3>4. t \in Choices(o)
      BY <3>3, <1>8 DEF Choices, FinishAt, AloneFits, AloneInWindow, AloneHome
    <3> QED BY <3>4, <1>2
  <2>3. 1 \in DOMAIN built[t]
    <3>1. built[t] \in Seq(VisitType) BY <1>1, <2>1 DEF GreedyTypeOK
    <3> QED BY <3>1, <2>2, EmptySeq
  <2> QED BY <2>1, <2>3, <1>1 DEF OrderInv
<1>9. LeftOutForEarlier'
  <2>1. ASSUME NEW p \in LeftOut(unassigned) \cup {o}, NEW t \in Candidates(p), AloneFits(t, p)
        PROVE  \E i \in DOMAIN built[t] : Precedes(built[t][i].order, p)
    BY <1>1, <1>8, <2>1 DEF LeftOutForEarlier
  <2> QED BY <2>1, <1>2, <1>7, AloneStays DEF LeftOutForEarlier
<1> QED BY <1>4, <1>5, <1>6, <1>9 DEF GreedyInv

LEMMA SameKeepsInv ==
  ASSUME GreedyInv, UNCHANGED <<given, pending, built, free, spot, unassigned>>,
         finished' \in BOOLEAN
  PROVE  GreedyInv'
<1>1. GreedyTypeOK' BY DEF GreedyInv, GreedyTypeOK
<1>2. ClockInv' BY DEF GreedyInv, ClockInv, Travel, LatestReturn
<1>3. OrderInv' BY DEF GreedyInv, OrderInv, Precedes
<1>4. LeftOutForEarlier'
  <2>1. LeftOut(unassigned)' = LeftOut(unassigned) BY DEF LeftOut
  <2> QED BY <2>1, AloneStays DEF GreedyInv, LeftOutForEarlier
<1> QED BY <1>1, <1>2, <1>3, <1>4 DEF GreedyInv

LEMMA GreedyNextKeepsInv == ASSUME GreedyInv, [GreedyNext]_greedyVars PROVE GreedyInv'
<1>1. CASE UNCHANGED greedyVars BY <1>1, SameKeepsInv DEF greedyVars, GreedyInv, GreedyTypeOK
<1>2. ASSUME NEW o \in pending, NEW t \in Techs, Place(o, t) PROVE GreedyInv'
  BY <1>2, PlaceKeepsInv
<1>3. ASSUME NEW o \in pending, Unassign(o) PROVE GreedyInv' BY <1>3, UnassignKeepsInv
<1>4. CASE Finish BY <1>4, SameKeepsInv DEF Finish
<1> QED BY <1>1, <1>2, <1>3, <1>4 DEF GreedyNext

------------------------------------------------------------------------------
(* What holds of the baseline.                                              *)

\* The inductive invariant holds.
THEOREM GreedyInvHolds == GreedySpec => []GreedyInv
<1>1. GreedyInit => GreedyInv BY InitGreedyInv
<1>2. GreedyInv /\ [GreedyNext]_greedyVars => GreedyInv' BY GreedyNextKeepsInv
<1> QED BY <1>1, <1>2, PTL DEF GreedySpec

\* Whoever could have served an order that is left out has an earlier one.
THEOREM LeftOutOnlyForEarlier == GreedySpec => []LeftOutForEarlier
<1>1. GreedyInv => LeftOutForEarlier BY DEF GreedyInv
<1> QED BY <1>1, GreedyInvHolds, PTL

\* The contract speaks of schedules in the same words.
LEMMA SameWords ==
  ASSUME NEW s, NEW r
  PROVE  /\ Contract!Last(r) = Last(r) /\ Contract!HomeEntry(s) = HomeEntry(s)
         /\ \A p, q : Contract!Travel(s, p, q) = Travel(s, p, q)
         /\ \A t : Contract!LatestReturn(s, t) = LatestReturn(s, t)
         /\ \A o : Contract!ReadyAt(s, o) = ReadyAt(s, o)
         /\ \A o, n, arrive, start, leg :
              Contract!VisitOf(s, o, n, arrive, start, leg) = VisitOf(s, o, n, arrive, start, leg)
<1>1. Contract!Last(r) = Last(r) BY DEF Contract!Last, Last
<1>2. Contract!HomeEntry(s) = HomeEntry(s) BY DEF Contract!HomeEntry, HomeEntry
<1>3. \A p, q : Contract!Travel(s, p, q) = Travel(s, p, q) BY DEF Contract!Travel, Travel
<1>4. \A t : Contract!LatestReturn(s, t) = LatestReturn(s, t)
  BY DEF Contract!LatestReturn, LatestReturn
<1>5. \A o : Contract!ReadyAt(s, o) = ReadyAt(s, o)
  BY DEF Contract!ReadyAt, ReadyAt, Contract!Later, Later
<1>6. \A o, n, arrive, start, leg :
        Contract!VisitOf(s, o, n, arrive, start, leg) = VisitOf(s, o, n, arrive, start, leg)
  BY DEF Contract!VisitOf, VisitOf, Contract!Lateness, Lateness, Contract!Later, Later
<1> QED BY <1>1, <1>2, <1>3, <1>4, <1>5, <1>6

LEMMA InitIsContract == GreedyInit => Contract!Init
<1> SUFFICES ASSUME GreedyInit PROVE Contract!Init
  OBVIOUS
<1>1. LeftOut(unassigned) = {} BY DEF GreedyInit, LeftOut
<1> QED BY <1>1, SameWords DEF GreedyInit, Contract!Init

LEMMA PlaceIsVisit ==
  ASSUME GreedyInv, NEW o \in pending, NEW t \in Techs, Place(o, t)
  PROVE  Contract!Next
<1>1. GreedyTypeOK /\ ClockInv /\ o \in Orders /\ given \in ScenarioType
  BY ScenarioAssumption DEF GreedyInv, GreedyTypeOK
<1>2. free[t] = Contract!Free(t) /\ spot[t] = Contract!Spot(t)
  BY <1>1, SameWords DEF ClockInv, Contract!Free, Contract!Spot, HomeEntry
<1>3. /\ ArrivalAt(t, o) - free[t] = Contract!LegTo(t, o)
      /\ ArrivalAt(t, o) = Contract!Free(t) + Contract!LegTo(t, o)
  <2>1. ArrivalAt(t, o) - free[t] = Travel(given, spot[t], given.place[o]) BY <1>1, StepTyped
  <2>2. Contract!LegTo(t, o) = Travel(given, spot[t], given.place[o])
    BY <1>2, SameWords DEF Contract!LegTo
  <2> QED BY <2>1, <2>2, <1>2 DEF ArrivalAt
<1>4. /\ ArrivalAt(t, o) <= StartAt(t, o) /\ ReadyAt(given, o) <= StartAt(t, o)
      /\ StartAt(t, o) \in Nat /\ FinishAt(t, o) \in Nat /\ free[t] <= FinishAt(t, o)
  BY <1>1, StepTyped
<1>5. /\ t \in Candidates(o) /\ StartAt(t, o) <= given.closes[o]
      /\ FinishAt(t, o) + Travel(given, given.place[o], given.home[t]) <= LatestReturn(given, t)
  BY DEF Place, Choices
<1>6. HomeEntry(given)[t].free <= LatestReturn(given, t)
  <2>1. /\ given.from[t] \in Nat /\ LatestReturn(given, t) \in Nat /\ free[t] \in Nat
        /\ Travel(given, given.place[o], given.home[t]) \in Nat
    BY <1>1, ScenarioFields DEF GreedyTypeOK
  <2>2. given.from[t] <= free[t] BY <1>1 DEF ClockInv
  <2>3. given.from[t] <= LatestReturn(given, t) BY <2>1, <2>2, <1>4, <1>5
  <2> QED BY <2>3 DEF HomeEntry
<1>7. /\ pending' = pending \ {o} /\ given' = given
      /\ unassigned' = unassigned /\ finished' = finished
      /\ built' = [built EXCEPT ![t] = Append(@,
           VisitOf(given, o, Len(@) + 1, ArrivalAt(t, o), StartAt(t, o),
                   ArrivalAt(t, o) - free[t]))]
  BY DEF Place
<1>8. built' = [built EXCEPT ![t] = Append(@,
         VisitOf(given, o, Len(@) + 1, Contract!Free(t) + Contract!LegTo(t, o), StartAt(t, o),
                 Contract!LegTo(t, o)))]
  BY <1>3, <1>7
<1>9. Contract!Visit(t, o, StartAt(t, o))
  <2>1. t \in Contract!Allowed(o) BY <1>5 DEF Candidates, Contract!Allowed
  <2>2. HomeEntry(given)' = HomeEntry(given) /\ LeftOut(unassigned)' = LeftOut(unassigned)
    BY <1>7 DEF HomeEntry, LeftOut
  <2>3. HomeEntry(given)[t].free <= Contract!LatestReturn(given, t)
        /\ Contract!ReadyAt(given, o) <= StartAt(t, o)
        /\ Contract!Free(t) + Contract!LegTo(t, o) <= StartAt(t, o)
    BY <1>3, <1>4, <1>6, SameWords
  <2>4. built' = [built EXCEPT ![t] = Append(@,
           Contract!VisitOf(given, o, Len(@) + 1, Contract!Free(t) + Contract!LegTo(t, o),
                            StartAt(t, o), Contract!LegTo(t, o)))]
    BY <1>8, SameWords
  <2> QED BY <2>1, <2>2, <2>3, <2>4, <1>5, <1>7 DEF Contract!Visit
<1>10. StartAt(t, o) \in 0 .. given.closes[o]
  <2>1. given.closes[o] \in Nat BY <1>1, ScenarioFields
  <2> QED BY <2>1, <1>4, <1>5
<1> QED BY <1>9, <1>10 DEF Contract!Next

LEMMA UnassignIsDrop ==
  ASSUME GreedyInv, NEW o \in pending, Unassign(o)
  PROVE  Contract!Next \/ DropsCommitment
<1>1. /\ pending' = pending \ {o} /\ given' = given /\ built' = built /\ finished' = finished
      /\ unassigned' = unassigned \cup {[order |-> o, reason |-> Reason(o)]}
      /\ Choices(o) = {}
  BY DEF Unassign
<1>2. LeftOut(unassigned)' = LeftOut(unassigned) \cup {o}
  <2>1. LeftOut(unassigned)' = LeftOut(unassigned') BY DEF LeftOut
  <2> QED BY <2>1, <1>1, OneMore
<1>3. HomeEntry(given)' = HomeEntry(given) BY <1>1 DEF HomeEntry
<1>4. Contract!Drop(o) BY <1>1, <1>2, <1>3 DEF Contract!Drop
<1>5. CASE Contract!Bound(o) BY <1>1, <1>4, <1>5 DEF DropsCommitment
<1>6. CASE ~Contract!Bound(o) BY <1>4, <1>6 DEF Contract!LeaveOut, Contract!Next
<1> QED BY <1>5, <1>6

LEMMA StepIsContract ==
  ASSUME GreedyInv, [GreedyNext]_greedyVars
  PROVE  [Contract!Next \/ DropsCommitment]_(Contract!vars)
<1>1. CASE UNCHANGED greedyVars
  BY <1>1 DEF greedyVars, Contract!vars, Contract!solving, HomeEntry, LeftOut
<1>2. ASSUME NEW o \in pending, NEW t \in Techs, Place(o, t) PROVE Contract!Next
  BY <1>2, PlaceIsVisit
<1>3. ASSUME NEW o \in pending, Unassign(o) PROVE Contract!Next \/ DropsCommitment
  BY <1>3, UnassignIsDrop
<1>4. ASSUME Finish PROVE Contract!Next
  <2>1. /\ ~finished /\ pending = {} /\ finished' = TRUE
        /\ given' = given /\ pending' = pending /\ built' = built /\ unassigned' = unassigned
    BY <1>4 DEF Finish
  <2>2. ASSUME NEW t \in Techs PROVE Contract!EndsInTime(t)
    <3> SUFFICES ASSUME built[t] # <<>>
                 PROVE  Contract!Free(t)
                          + Contract!Travel(given, Contract!Spot(t), HomeEntry(given)[t].at)
                          <= Contract!LatestReturn(given, t)
      BY DEF Contract!EndsInTime
    <3>1. Contract!Free(t) = free[t] /\ Contract!Spot(t) = spot[t]
      BY SameWords DEF GreedyInv, ClockInv, Contract!Free, Contract!Spot
    <3>2. HomeEntry(given)[t].at = given.home[t] BY DEF HomeEntry
    <3>3. free[t] + Travel(given, spot[t], given.home[t]) <= LatestReturn(given, t)
      BY DEF GreedyInv, ClockInv
    <3> QED BY <3>1, <3>2, <3>3, SameWords
  <2>3. HomeEntry(given)' = HomeEntry(given) /\ LeftOut(unassigned)' = LeftOut(unassigned)
    BY <2>1 DEF HomeEntry, LeftOut
  <2>4. Contract!HandOver BY <2>1, <2>2, <2>3 DEF Contract!HandOver
  <2> QED BY <2>4 DEF Contract!Next
<1> QED BY <1>1, <1>2, <1>3, <1>4 DEF GreedyNext

\* Every step of the baseline is one of a route engine, but for the commitment it
\* leaves out when, at its turn, it does not fit its technician's route.
THEOREM BaselineKeepsContract == GreedySpec => KeepsContract
<1>1. GreedyInit => Contract!Init BY InitIsContract
<1>2. GreedyInv /\ [GreedyNext]_greedyVars => [Contract!Next \/ DropsCommitment]_(Contract!vars)
  BY StepIsContract
<1> QED BY <1>1, <1>2, GreedyInvHolds, PTL DEF GreedySpec, KeepsContract

\* The routes built so far stand but for the locks, and every order has its place.
BuiltInv ==
  /\ \A t \in Techs : RouteInv(given, t, built[t], HomeEntry(given)[t])
  /\ Placed(given.active, pending, LeftOut(unassigned), built)
  /\ finished => pending = {}

LEMMA InitBuiltInv == GreedyInit => BuiltInv
<1> SUFFICES ASSUME GreedyInit PROVE BuiltInv
  OBVIOUS
<1>1. <<>> \in Seq(VisitType) /\ DOMAIN <<>> = {} BY EmptySeq
<1>2. LeftOut(unassigned) = {} BY DEF GreedyInit, LeftOut
<1>3. \A t \in Techs : RouteInv(given, t, built[t], HomeEntry(given)[t])
  BY <1>1 DEF GreedyInit, RouteInv
<1>4. Placed(given.active, pending, LeftOut(unassigned), built)
  BY <1>1, <1>2 DEF GreedyInit, Placed
<1> QED BY <1>3, <1>4 DEF GreedyInit, BuiltInv

LEMMA PlaceKeepsBuilt ==
  ASSUME GreedyInv, BuiltInv, NEW o \in pending, NEW t \in Techs, Place(o, t)
  PROVE  BuiltInv'
<1> DEFINE r == built[t]
           e == HomeEntry(given)[t]
           leg == ArrivalAt(t, o) - free[t]
           v == VisitOf(given, o, Len(r) + 1, ArrivalAt(t, o), StartAt(t, o), leg)
<1>1. GreedyTypeOK /\ ClockInv /\ o \in Orders /\ given \in ScenarioType
  BY ScenarioAssumption DEF GreedyInv, GreedyTypeOK
<1>2. /\ given' = given /\ pending' = pending \ {o} /\ unassigned' = unassigned
      /\ finished' = finished /\ built' = [built EXCEPT ![t] = Append(r, v)]
      /\ t \in given.able[o] /\ given.lock[o] \in {None, t} /\ StartAt(t, o) <= given.closes[o]
  BY DEF Place, Choices, Candidates
<1>3. /\ leg = Travel(given, spot[t], given.place[o]) /\ leg \in Nat
      /\ StartAt(t, o) \in Nat /\ ArrivalAt(t, o) <= StartAt(t, o)
      /\ ReadyAt(given, o) <= StartAt(t, o) /\ ArrivalAt(t, o) \in Nat
  BY <1>1, StepTyped
<1>4. e \in Entry /\ e.free = given.from[t] /\ e.at = given.home[t] /\ given.from[t] \in Nat
  BY <1>1, ScenarioFields DEF HomeEntry, Entry
<1>5. free[t] = FreeAfter(r, e) /\ spot[t] = SpotAfter(given, r, e) /\ free[t] \in Nat
  BY <1>1, <1>4 DEF ClockInv, FreeAfter, SpotAfter, GreedyTypeOK
<1>6. ArrivalAt(t, o) = FreeAfter(r, e) + leg BY <1>3, <1>5 DEF ArrivalAt
<1>7. RouteInv(given, t, r, e) BY DEF BuiltInv
<1>8. RouteInv(given, t, Append(r, v), e)
  <2>1. leg = Travel(given, SpotAfter(given, r, e), given.place[o]) BY <1>3, <1>5
  <2>2. v = VisitOf(given, o, Len(r) + 1, FreeAfter(r, e) + leg, StartAt(t, o), leg) BY <1>6
  <2>3. FreeAfter(r, e) + leg <= StartAt(t, o) BY <1>3, <1>6
  <2>4. given.from[t] <= e.free BY <1>4
  <2> HIDE DEF r, e, leg, v
  <2> QED BY <1>1, <1>2, <1>3, <1>4, <1>7, <2>1, <2>2, <2>3, <2>4, RouteGrows
<1>9. \A u \in Techs : RouteInv(given', u, built'[u], HomeEntry(given')[u])
  <2>1. built \in [Techs -> Seq(VisitType)] BY <1>1 DEF GreedyTypeOK
  <2> HIDE DEF v
  <2>2. built'[t] = Append(r, v) /\ \A u \in Techs \ {t} : built'[u] = built[u]
    BY <1>2, <2>1
  <2>3. \A u \in Techs : RouteInv(given, u, built[u], HomeEntry(given)[u]) BY DEF BuiltInv
  <2> QED BY <1>2, <1>8, <2>2, <2>3
<1>10. Placed(given.active, pending \ {o}, LeftOut(unassigned), built')
  <2>1. Placed(given.active, pending, LeftOut(unassigned), built) BY DEF BuiltInv
  <2>2. /\ DOMAIN built'[t] = 1 .. Len(r) + 1 /\ \A i \in DOMAIN r : built'[t][i] = r[i]
        /\ built'[t][Len(r) + 1].order = o
        /\ \A u \in Techs \ {t} : built'[u] = built[u]
    BY <1>1, PlaceAppends
  <2>3. Len(r) \in Nat /\ DOMAIN r = 1 .. Len(r) BY <1>1 DEF GreedyTypeOK
  <2> QED BY <2>1, <2>2, <2>3, PlacedGrows
<1>11. finished => FALSE BY DEF BuiltInv
<1>12. LeftOut(unassigned)' = LeftOut(unassigned) BY <1>2 DEF LeftOut
<1>13. HomeEntry(given)' = HomeEntry(given') OBVIOUS
<1> QED BY <1>2, <1>9, <1>10, <1>11, <1>12, <1>13 DEF BuiltInv

LEMMA UnassignKeepsBuilt ==
  ASSUME GreedyInv, BuiltInv, NEW o \in pending, Unassign(o) PROVE BuiltInv'
<1>1. /\ pending' = pending \ {o} /\ given' = given /\ built' = built /\ finished' = finished
      /\ unassigned' = unassigned \cup {[order |-> o, reason |-> Reason(o)]}
  BY DEF Unassign
<1>2. LeftOut(unassigned)' = LeftOut(unassigned) \cup {o}
  <2>1. LeftOut(unassigned)' = LeftOut(unassigned') BY DEF LeftOut
  <2> QED BY <2>1, <1>1, OneMore
<1>3. Placed(given.active, pending \ {o}, LeftOut(unassigned) \cup {o}, built)
  BY PlacedDrops DEF BuiltInv
<1>4. finished => FALSE BY DEF BuiltInv
<1>5. \A t \in Techs : RouteInv(given', t, built'[t], HomeEntry(given')[t])
  BY <1>1 DEF BuiltInv
<1> QED BY <1>1, <1>2, <1>3, <1>4, <1>5 DEF BuiltInv

LEMMA BuiltStep == ASSUME GreedyInv, BuiltInv, [GreedyNext]_greedyVars PROVE BuiltInv'
<1>1. CASE UNCHANGED greedyVars BY <1>1 DEF greedyVars, BuiltInv, LeftOut
<1>2. ASSUME NEW o \in pending, NEW t \in Techs, Place(o, t) PROVE BuiltInv'
  BY <1>2, PlaceKeepsBuilt
<1>3. ASSUME NEW o \in pending, Unassign(o) PROVE BuiltInv' BY <1>3, UnassignKeepsBuilt
<1>4. CASE Finish BY <1>4 DEF Finish, BuiltInv, LeftOut
<1> QED BY <1>1, <1>2, <1>3, <1>4 DEF GreedyNext

\* The verifier lets every finished baseline stand, but for one that left a locked
\* order out: coverage, skills, locks that were served, windows, shifts, the way
\* home and every derived value.
THEOREM BaselineStands == GreedySpec => []FinishedStands
<1>1. GreedyInit => BuiltInv BY InitBuiltInv
<1>2. GreedyInv /\ BuiltInv /\ [GreedyNext]_greedyVars => BuiltInv' BY BuiltStep
<1>3. GreedyInv /\ BuiltInv => FinishedStands
  <2> SUFFICES ASSUME GreedyInv, BuiltInv, finished,
                      LocksKept(given, given.active, LeftOut(unassigned))
               PROVE  Stands(given, built, LeftOut(unassigned))
    BY DEF FinishedStands
  <2>1. Covers(given.active, built, LeftOut(unassigned)) BY PlacedCovers DEF BuiltInv
  <2>2. ASSUME NEW t \in Techs
        PROVE  /\ RouteStands(given, t, built[t], HomeEntry(given)[t], FALSE)
               /\ DerivedStands(given, built[t], HomeEntry(given)[t], FALSE)
    <3>1. given \in ScenarioType BY ScenarioAssumption DEF GreedyInv, GreedyTypeOK
    <3>2. RouteInv(given, t, built[t], HomeEntry(given)[t]) BY DEF BuiltInv
    <3>3. built[t] # <<>> =>
            Last(built[t]).finish
              + Travel(given, given.place[Last(built[t]).order], given.home[t])
              <= LatestReturn(given, t)
      BY DEF GreedyInv, ClockInv
    <3> QED BY <3>1, <3>2, <3>3, RouteInTimeStands, BuiltIsNormal
  <2> QED BY <2>1, <2>2 DEF Stands
<1> QED BY <1>1, <1>2, <1>3, GreedyInvHolds, PTL DEF GreedySpec

------------------------------------------------------------------------------
(* The day: the inductive invariant.                                        *)

\* What an event log says of an order.
BeganIn(L, o) == \E n \in DOMAIN L : L[n].order = o /\ L[n].act = "start"
CompletedIn(L, o) == \E n \in DOMAIN L : L[n].order = o /\ L[n].act = "complete"
InHand(L, n) == L[n].act = "start" /\ ~CompletedIn(L, L[n].order)

\* Nothing is reported twice, what is completed began before, and a service in
\* hand is the last thing its technician reported.
LogInv(s, L) ==
  /\ L \in Seq(EventType)
  /\ \A m, n \in DOMAIN L : L[m].order = L[n].order /\ L[m].act = L[n].act => m = n
  /\ \A n \in DOMAIN L : L[n].act = "complete" =>
       \E m \in DOMAIN L : /\ m < n /\ L[m].act = "start"
                           /\ L[m].order = L[n].order /\ L[m].tech = L[n].tech
  /\ \A n \in DOMAIN L : L[n].order \in s.active /\ s.from[L[n].tech] <= L[n].at
  /\ \A n \in DOMAIN L : InHand(L, n) => \A m \in DOMAIN L : L[m].tech = L[n].tech => m <= n

\* The visits of the active plan, each in one place.
VisitsInv(s, R) ==
  /\ R \in [Techs -> Seq(VisitType)]
  /\ \A t, u \in Techs : \A i \in DOMAIN R[t], j \in DOMAIN R[u] :
       R[t][i].order = R[u][j].order => t = u /\ i = j
  /\ \A t \in Techs : \A i \in DOMAIN R[t] :
       R[t][i].order \in s.active /\ R[t][i].seq = i /\ VisitStands(s, t, R[t][i])

\* The plan was worked off in its order, by its technicians, and whatever else they
\* reported they reported before they completed anything of it.
ProgressInv(L, R) ==
  /\ \A t \in Techs : \A i \in DOMAIN R[t], n \in DOMAIN L :
       L[n].order = R[t][i].order => L[n].tech = t
  /\ \A t \in Techs : \A i, j \in DOMAIN R[t] :
       i < j /\ BeganIn(L, R[t][j].order) => CompletedIn(L, R[t][i].order)
  /\ \A t \in Techs : \A i, j \in DOMAIN R[t], m, n \in DOMAIN L :
       i < j /\ L[m].order = R[t][i].order /\ L[n].order = R[t][j].order => m < n
  /\ \A t \in Techs : \A j \in DOMAIN R[t], m, n \in DOMAIN L :
       /\ L[n].order = R[t][j].order /\ L[n].act = "complete"
       /\ L[m].tech = t /\ L[m].order \notin OrdersOf(R[t])
       => m < n

\* Whoever is in service is so by the active plan.
Booked(P, e) ==
  \E i \in DOMAIN P.routes[e.tech] :
    LET v == P.routes[e.tech][i] IN
      v.order = e.order /\ v.start = e.start /\ v.finish = e.finish /\ v.source = e.source

BookedInv(L, P) == \A n \in DOMAIN L : InHand(L, n) => P # NoPlan /\ Booked(P, L[n])

AskType ==
  [replan : BOOLEAN, time : Nat, seen : Nat, fixed : [Techs -> Seq(VisitType)],
   compared : BOOLEAN]

\* No visit is reached sooner than the technician enters the plan, nor, if no way
\* has a shortcut, than the direct way from there takes.
ReachedFromEntry(s, r, e) ==
  \A i \in DOMAIN r :
    /\ e.free <= r[i].arrive
    /\ NoShortcut(s) => e.free + Travel(s, e.at, s.place[r[i].order]) <= r[i].arrive

SolverInv ==
  /\ \A t \in Techs : /\ scn.from[t] <= entry[t].free
                       /\ RouteInv(scn, t, routes[t], entry[t])
                       /\ ReachedFromEntry(scn, routes[t], entry[t])

\* What a replan asked for now would freeze.
FixedNow == IF plan = NoPlan THEN Nothing ELSE [t \in Techs |-> Frozen(t)]

\* A request no report has overtaken still describes the plan and the log.
FreshInv ==
  /\ ask.replan =>
       /\ ask.fixed = FixedNow
       /\ entry = [t \in Techs |-> EntryAt(t, ask.fixed, ask.time)]
       /\ ask.compared
  /\ PlacesIn(Open \ Served(ask.fixed))
  /\ done => waiting = {}

AskInv ==
  ask # NoAsk =>
    /\ ask \in AskType /\ ask.seen <= Len(log)
    /\ ~ask.replan => ask.seen = 0 /\ ask.fixed = Nothing
    /\ ask.seen = Len(log) => FreshInv

DayInv ==
  /\ TypeOK
  /\ LogInv(scn, log)
  /\ plan # NoPlan => /\ plan \in [routes : [Techs -> Seq(VisitType)], dropped : SUBSET Orders]
                      /\ VisitsInv(scn, plan.routes) /\ ProgressInv(log, plan.routes)
  /\ BookedInv(log, plan)
  /\ WorkIsReachable
  /\ SolverInv
  /\ AskInv

------------------------------------------------------------------------------
(* Sets of positions.                                                       *)

LEMMA HasMin == ASSUME NEW S \in SUBSET Nat, S # {} PROVE \E i \in S : \A j \in S : i <= j
<1>1. PICK x \in S : \A y \in S : ~(<<y, x>> \in OpToRel(<, Nat))
  BY NatLessThanWellFounded, WFMin
<1>2. \A y \in S : ~(y < x) BY <1>1 DEF OpToRel
<1> QED BY <1>2

LEMMA HasMax ==
  ASSUME NEW n \in Nat, NEW S, S \subseteq 1 .. n, S # {}
  PROVE  \E i \in S : \A j \in S : j <= i
<1> DEFINE T == {n - i : i \in S}
<1>1. T \in SUBSET Nat
  <2>1. \A i \in S : n - i \in Nat OBVIOUS
  <2> QED BY <2>1
<1>2. T # {} OBVIOUS
<1>3. PICK x \in T : \A y \in T : x <= y BY <1>1, <1>2, HasMin
<1>4. PICK i \in S : x = n - i OBVIOUS
<1>5. \A j \in S : n - j \in T OBVIOUS
<1>6. \A j \in S : x <= n - j BY <1>3, <1>5
<1> HIDE DEF T
<1>7. \A j \in S : j \in Int BY DEF T
<1> QED BY <1>4, <1>6, <1>7

\* One position is in order by itself.
LEMMA AscendingOfFew ==
  /\ Ascending({}) = <<>>
  /\ \A k : Ascending({k}) = <<k>>
<1>1. Ascending({}) = <<>>
  <2>1. Cardinality({}) = 0 BY FS_EmptySet
  <2>2. \A f \in [1 .. 0 -> {}] : f = <<>> OBVIOUS
  <2>3. <<>> \in [1 .. 0 -> {}] OBVIOUS
  <2> QED BY <2>1, <2>2, <2>3 DEF Ascending
<1>2. ASSUME NEW k PROVE Ascending({k}) = <<k>>
  <2>1. Cardinality({k}) = 1 BY FS_Singleton
  <2>2. <<k>> \in [1 .. 1 -> {k}] OBVIOUS
  <2>3. \A f \in [1 .. 1 -> {k}] : f = <<k>> OBVIOUS
  <2> QED BY <2>1, <2>2, <2>3 DEF Ascending
<1> QED BY <1>1, <1>2

------------------------------------------------------------------------------
(* What the events say.                                                     *)

\* One more event.
LEMMA LogGrows ==
  ASSUME NEW L \in Seq(EventType), NEW e \in EventType
  PROVE  /\ Append(L, e) \in Seq(EventType) /\ Len(L) \in Nat /\ DOMAIN L = 1 .. Len(L)
         /\ Len(Append(L, e)) = Len(L) + 1 /\ DOMAIN Append(L, e) = 1 .. Len(L) + 1
         /\ \A n \in DOMAIN L : n \in DOMAIN Append(L, e) /\ Append(L, e)[n] = L[n]
         /\ \A n \in DOMAIN Append(L, e) :
              (n \in DOMAIN L /\ n < Len(L) + 1) \/ n = Len(L) + 1
         /\ Append(L, e)[Len(L) + 1] = e
<1>1. /\ Append(L, e) \in Seq(EventType) /\ Len(Append(L, e)) = Len(L) + 1
      /\ \A n \in 1 .. Len(L) : Append(L, e)[n] = L[n]
      /\ Append(L, e)[Len(L) + 1] = e
  BY AppendProperties
<1>2. Len(L) \in Nat /\ DOMAIN L = 1 .. Len(L) BY LenProperties
<1>3. DOMAIN Append(L, e) = 1 .. Len(L) + 1 BY <1>1, LenProperties
<1> QED BY <1>1, <1>2, <1>3

\* An event of the log is typed.
LEMMA EventFields ==
  ASSUME NEW L \in Seq(EventType), NEW n \in DOMAIN L
  PROVE  /\ n \in Nat \ {0} /\ n <= Len(L) /\ L[n] \in EventType
         /\ L[n].order \in Orders /\ L[n].tech \in Techs /\ L[n].act \in {"start", "complete"}
         /\ L[n].at \in Nat /\ L[n].est \in Nat
         /\ L[n].start \in Nat /\ L[n].finish \in Nat /\ L[n].source \in Nat
<1>1. n \in 1 .. Len(L) /\ L[n] \in EventType /\ Len(L) \in Nat
  BY LenProperties, ElementOfSeq
<1> QED BY <1>1 DEF EventType

\* EventOf finds the event if there is one; Began, Completed and StartOf speak of
\* the log as the invariant does.
LEMMA EventFound ==
  ASSUME LogInv(scn, log), NEW o, NEW act
  PROVE  /\ \A n \in DOMAIN log : log[n].order = o /\ log[n].act = act => EventOf(o, act) = n
         /\ EventOf(o, act) # 0 => /\ EventOf(o, act) \in DOMAIN log
                                   /\ log[EventOf(o, act)].order = o
                                   /\ log[EventOf(o, act)].act = act
<1> DEFINE at == {n \in DOMAIN log : log[n].order = o /\ log[n].act = act}
<1>1. EventOf(o, act) = IF at = {} THEN 0 ELSE CHOOSE n \in at : TRUE BY DEF EventOf
<1>2. \A m, n \in at : m = n BY DEF LogInv
<1>3. CASE at = {} BY <1>1, <1>3
<1>4. CASE at # {}
  <2>1. EventOf(o, act) \in at BY <1>1, <1>4
  <2> QED BY <2>1, <1>2
<1> QED BY <1>3, <1>4

LEMMA Words ==
  ASSUME LogInv(scn, log)
  PROVE  /\ \A o : Began(o) <=> BeganIn(log, o)
         /\ \A o : Completed(o) <=> CompletedIn(log, o)
         /\ \A o : Started(o) <=> \E n \in DOMAIN log : InHand(log, n) /\ log[n].order = o
         /\ \A n \in DOMAIN log : log[n].act = "start" => StartOf(log[n].order) = log[n]
         /\ \A n \in DOMAIN log : log[n].act = "complete" =>
              EventOf(log[n].order, "complete") = n
         /\ \A n \in DOMAIN log : InHand(log, n) <=> log[n].act = "start" /\ Started(log[n].order)
<1>1. \A n \in DOMAIN log : n # 0
  BY EventFields DEF LogInv
<1>2. ASSUME NEW o PROVE Began(o) <=> BeganIn(log, o)
  BY <1>1, EventFound DEF Began, BeganIn
<1>3. ASSUME NEW o PROVE Completed(o) <=> CompletedIn(log, o)
  BY <1>1, EventFound DEF Completed, CompletedIn
<1>4. ASSUME NEW n \in DOMAIN log, log[n].act = "start" PROVE StartOf(log[n].order) = log[n]
  BY <1>4, EventFound DEF StartOf
<1>5. ASSUME NEW n \in DOMAIN log, log[n].act = "complete"
      PROVE  EventOf(log[n].order, "complete") = n
  BY <1>5, EventFound
<1>6. ASSUME NEW n \in DOMAIN log
      PROVE  InHand(log, n) <=> log[n].act = "start" /\ Started(log[n].order)
  <2>1. log[n].act = "start" => BeganIn(log, log[n].order) BY DEF BeganIn
  <2> QED BY <2>1, <1>2, <1>3 DEF InHand, Started
<1>7. ASSUME NEW o
      PROVE  Started(o) <=> \E n \in DOMAIN log : InHand(log, n) /\ log[n].order = o
  <2>1. Started(o) <=> BeganIn(log, o) /\ ~CompletedIn(log, o) BY <1>2, <1>3 DEF Started
  <2> QED BY <2>1 DEF BeganIn, InHand
<1> QED BY <1>2, <1>3, <1>4, <1>5, <1>6, <1>7

------------------------------------------------------------------------------
(* One more event keeps what the log and the plan tell.                     *)

LEMMA StartKeepsLog ==
  ASSUME NEW s \in ScenarioType, NEW L, LogInv(s, L), NEW e \in EventType,
         e.act = "start", e.order \in s.active, s.from[e.tech] <= e.at, ~BeganIn(L, e.order),
         \A n \in DOMAIN L : InHand(L, n) => L[n].tech # e.tech
  PROVE  /\ LogInv(s, Append(L, e))
         /\ \A o : CompletedIn(Append(L, e), o) <=> CompletedIn(L, o)
         /\ \A o : BeganIn(Append(L, e), o) <=> BeganIn(L, o) \/ o = e.order
<1> DEFINE K == Append(L, e)
<1>1. /\ L \in Seq(EventType) /\ K \in Seq(EventType) /\ Len(L) \in Nat
      /\ DOMAIN L = 1 .. Len(L) /\ DOMAIN K = 1 .. Len(L) + 1
      /\ \A n \in DOMAIN L : n \in DOMAIN K /\ K[n] = L[n]
      /\ \A n \in DOMAIN K : (n \in DOMAIN L /\ n < Len(L) + 1) \/ n = Len(L) + 1
      /\ K[Len(L) + 1] = e
  BY LogGrows DEF LogInv
<1> HIDE DEF K
<1>2. \A o : CompletedIn(K, o) <=> CompletedIn(L, o)
  BY <1>1 DEF CompletedIn
<1>3. \A o : BeganIn(K, o) <=> BeganIn(L, o) \/ o = e.order
  BY <1>1 DEF BeganIn
<1>4. \A n \in DOMAIN L : L[n].order # e.order
  <2> SUFFICES ASSUME NEW n \in DOMAIN L, L[n].order = e.order PROVE FALSE
    OBVIOUS
  <2>1. L[n].act \in {"start", "complete"} BY <1>1, EventFields
  <2>2. CASE L[n].act = "start" BY <2>2 DEF BeganIn
  <2>3. CASE L[n].act = "complete" BY <2>3 DEF LogInv, BeganIn
  <2> QED BY <2>1, <2>2, <2>3
<1>5. \A m, n \in DOMAIN K : K[m].order = K[n].order /\ K[m].act = K[n].act => m = n
  BY <1>1, <1>4 DEF LogInv
<1>6. ASSUME NEW n \in DOMAIN K, K[n].act = "complete"
      PROVE  \E m \in DOMAIN K : /\ m < n /\ K[m].act = "start"
                                 /\ K[m].order = K[n].order /\ K[m].tech = K[n].tech
  <2>1. n \in DOMAIN L BY <1>1, <1>6
  <2>2. PICK m \in DOMAIN L : /\ m < n /\ L[m].act = "start"
                              /\ L[m].order = L[n].order /\ L[m].tech = L[n].tech
    BY <1>1, <1>6, <2>1 DEF LogInv
  <2> QED BY <1>1, <2>1, <2>2
<1>7. \A n \in DOMAIN K : K[n].order \in s.active /\ s.from[K[n].tech] <= K[n].at
  BY <1>1 DEF LogInv
<1>8. ASSUME NEW n \in DOMAIN K, InHand(K, n), NEW m \in DOMAIN K, K[m].tech = K[n].tech
      PROVE  m <= n
  <2>1. CASE n = Len(L) + 1 BY <2>1, <1>1
  <2>2. CASE n \in DOMAIN L
    <3>1. InHand(L, n) BY <2>2, <1>1, <1>2, <1>8 DEF InHand
    <3>2. K[n].tech # e.tech BY <3>1, <2>2, <1>1
    <3>3. m \in DOMAIN L BY <3>2, <1>1, <1>8
    <3> QED BY <3>1, <3>3, <2>2, <1>1, <1>8 DEF LogInv
  <2> QED BY <2>1, <2>2, <1>1
<1>9. LogInv(s, K) BY <1>1, <1>5, <1>6, <1>7, <1>8 DEF LogInv
<1> QED BY <1>2, <1>3, <1>9 DEF K

LEMMA CompleteKeepsLog ==
  ASSUME NEW s \in ScenarioType, NEW L, LogInv(s, L), NEW e \in EventType, e.act = "complete",
         NEW k \in DOMAIN L, InHand(L, k), e.order = L[k].order, e.tech = L[k].tech,
         L[k].at <= e.at
  PROVE  /\ LogInv(s, Append(L, e))
         /\ \A o : CompletedIn(Append(L, e), o) <=> CompletedIn(L, o) \/ o = e.order
         /\ \A o : BeganIn(Append(L, e), o) <=> BeganIn(L, o)
<1> DEFINE K == Append(L, e)
<1>1. /\ L \in Seq(EventType) /\ K \in Seq(EventType) /\ Len(L) \in Nat
      /\ DOMAIN L = 1 .. Len(L) /\ DOMAIN K = 1 .. Len(L) + 1
      /\ \A n \in DOMAIN L : n \in DOMAIN K /\ K[n] = L[n]
      /\ \A n \in DOMAIN K : (n \in DOMAIN L /\ n < Len(L) + 1) \/ n = Len(L) + 1
      /\ K[Len(L) + 1] = e
  BY LogGrows DEF LogInv
<1> HIDE DEF K
<1>2. \A o : CompletedIn(K, o) <=> CompletedIn(L, o) \/ o = e.order
  BY <1>1 DEF CompletedIn
<1>3. \A o : BeganIn(K, o) <=> BeganIn(L, o)
  BY <1>1 DEF BeganIn
<1>4. \A n \in DOMAIN L : ~(L[n].order = e.order /\ L[n].act = "complete")
  BY DEF InHand, CompletedIn
<1>5. \A m, n \in DOMAIN K : K[m].order = K[n].order /\ K[m].act = K[n].act => m = n
  BY <1>1, <1>4 DEF LogInv
<1>6. ASSUME NEW n \in DOMAIN K, K[n].act = "complete"
      PROVE  \E m \in DOMAIN K : /\ m < n /\ K[m].act = "start"
                                 /\ K[m].order = K[n].order /\ K[m].tech = K[n].tech
  <2>1. CASE n \in DOMAIN L
    <3>1. PICK m \in DOMAIN L : /\ m < n /\ L[m].act = "start"
                                /\ L[m].order = L[n].order /\ L[m].tech = L[n].tech
      BY <1>1, <1>6, <2>1 DEF LogInv
    <3> QED BY <1>1, <2>1, <3>1
  <2>2. CASE n = Len(L) + 1
    <3>1. k < n /\ k \in DOMAIN K /\ K[k] = L[k] BY <2>2, <1>1
    <3> QED BY <3>1, <2>2, <1>1 DEF InHand
  <2> QED BY <2>1, <2>2, <1>1
<1>7. \A n \in DOMAIN K : K[n].order \in s.active /\ s.from[K[n].tech] <= K[n].at
  <2>1. e.order \in s.active /\ s.from[e.tech] <= L[k].at BY DEF LogInv
  <2>2. s.from[e.tech] \in Nat /\ L[k].at \in Nat /\ e.at \in Nat
    BY <1>1, EventFields, ScenarioFields DEF EventType
  <2>3. s.from[e.tech] <= e.at BY <2>1, <2>2
  <2> QED BY <1>1, <2>1, <2>3 DEF LogInv
<1>8. ASSUME NEW n \in DOMAIN K, InHand(K, n), NEW m \in DOMAIN K, K[m].tech = K[n].tech
      PROVE  m <= n
  <2>1. n \in DOMAIN L /\ K[n] = L[n] BY <1>1, <1>8 DEF InHand
  <2>2. InHand(L, n) /\ L[n].order # e.order BY <2>1, <1>2, <1>8 DEF InHand
  <2>3. L[n].tech # e.tech
    <3> SUFFICES ASSUME L[n].tech = e.tech PROVE FALSE
      OBVIOUS
    <3>1. k <= n /\ n <= k BY <2>1, <2>2 DEF LogInv
    <3>2. k = n BY <3>1, <2>1, <1>1
    <3> QED BY <3>2, <2>2
  <2>4. m \in DOMAIN L BY <2>1, <2>3, <1>1, <1>8
  <2> QED BY <2>1, <2>2, <2>4, <1>1, <1>8 DEF LogInv
<1>9. LogInv(s, K) BY <1>1, <1>5, <1>6, <1>7, <1>8 DEF LogInv
<1> QED BY <1>2, <1>3, <1>9 DEF K

LEMMA StartKeepsProgress ==
  ASSUME NEW s \in ScenarioType, NEW L, LogInv(s, L), NEW R, VisitsInv(s, R), ProgressInv(L, R),
         NEW t \in Techs, NEW i \in DOMAIN R[t], NEW e \in EventType,
         e.act = "start", e.order = R[t][i].order, e.tech = t, ~BeganIn(L, e.order),
         \A j \in 1 .. i - 1 : CompletedIn(L, R[t][j].order)
  PROVE  ProgressInv(Append(L, e), R)
<1> DEFINE K == Append(L, e)
<1>1. /\ L \in Seq(EventType) /\ Len(L) \in Nat
      /\ DOMAIN L = 1 .. Len(L) /\ DOMAIN K = 1 .. Len(L) + 1
      /\ \A n \in DOMAIN L : n \in DOMAIN K /\ K[n] = L[n]
      /\ \A n \in DOMAIN K : (n \in DOMAIN L /\ n < Len(L) + 1) \/ n = Len(L) + 1
      /\ K[Len(L) + 1] = e
  BY LogGrows DEF LogInv
<1> HIDE DEF K
<1>2. \A o : CompletedIn(K, o) <=> CompletedIn(L, o) BY <1>1 DEF CompletedIn
<1>3. \A o : BeganIn(K, o) <=> BeganIn(L, o) \/ o = e.order BY <1>1 DEF BeganIn
<1>4. \A u \in Techs : R[u] \in Seq(VisitType) /\ DOMAIN R[u] = 1 .. Len(R[u]) /\ Len(R[u]) \in Nat
  BY LenProperties DEF VisitsInv
<1>5. \A u \in Techs : \A j \in DOMAIN R[u] : R[u][j].order = e.order => u = t /\ j = i
  BY DEF VisitsInv
<1>6. \A n \in DOMAIN L : BeganIn(L, L[n].order)
  BY <1>1, EventFields DEF LogInv, BeganIn
<1>7. ASSUME NEW u \in Techs, NEW j \in DOMAIN R[u], NEW n \in DOMAIN K,
             K[n].order = R[u][j].order
      PROVE  K[n].tech = u
  BY <1>1, <1>5, <1>7 DEF ProgressInv
<1>8. ASSUME NEW u \in Techs, NEW j \in DOMAIN R[u], NEW k \in DOMAIN R[u],
             j < k, BeganIn(K, R[u][k].order)
      PROVE  CompletedIn(K, R[u][j].order)
  <2>1. CASE BeganIn(L, R[u][k].order) BY <2>1, <1>2, <1>8 DEF ProgressInv
  <2>2. CASE R[u][k].order = e.order
    <3>1. u = t /\ k = i BY <2>2, <1>5
    <3>2. j \in 1 .. i - 1 BY <3>1, <1>4, <1>8
    <3> QED BY <3>1, <3>2, <1>2
  <2> QED BY <2>1, <2>2, <1>3, <1>8
<1>9. ASSUME NEW u \in Techs, NEW j \in DOMAIN R[u], NEW k \in DOMAIN R[u],
             NEW m \in DOMAIN K, NEW n \in DOMAIN K,
             j < k, K[m].order = R[u][j].order, K[n].order = R[u][k].order
      PROVE  m < n
  <2>1. CASE m \in DOMAIN L /\ n \in DOMAIN L BY <2>1, <1>1, <1>9 DEF ProgressInv
  <2>2. CASE m \in DOMAIN L /\ n = Len(L) + 1 BY <2>2, <1>1
  <2>3. CASE m = Len(L) + 1
    <3>1. u = t /\ j = i BY <2>3, <1>1, <1>5, <1>9
    <3>2. n # m BY <3>1, <2>3, <1>1, <1>4, <1>5, <1>9
    <3>3. n \in DOMAIN L BY <3>2, <2>3, <1>1
    <3>4. BeganIn(L, R[u][k].order) BY <3>3, <1>1, <1>6, <1>9
    <3>5. CompletedIn(L, e.order) BY <3>1, <3>4, <1>9 DEF ProgressInv
    <3>6. BeganIn(L, e.order) BY <3>5, <1>6 DEF CompletedIn
    <3> QED BY <3>6
  <2> QED BY <2>1, <2>2, <2>3, <1>1
<1>10. ASSUME NEW u \in Techs, NEW j \in DOMAIN R[u], NEW m \in DOMAIN K, NEW n \in DOMAIN K,
              K[n].order = R[u][j].order, K[n].act = "complete",
              K[m].tech = u, K[m].order \notin OrdersOf(R[u])
       PROVE  m < n
  <2>1. n \in DOMAIN L BY <1>1, <1>10
  <2>2. m \in DOMAIN L
    <3>1. e.order \in OrdersOf(R[t]) BY DEF OrdersOf
    <3> QED BY <3>1, <1>1, <1>10
  <2> QED BY <2>1, <2>2, <1>1, <1>10 DEF ProgressInv
<1>11. ProgressInv(K, R) BY <1>7, <1>8, <1>9, <1>10 DEF ProgressInv
<1> QED BY <1>11 DEF K

LEMMA CompleteKeepsProgress ==
  ASSUME NEW s \in ScenarioType, NEW L, LogInv(s, L), NEW R, VisitsInv(s, R), ProgressInv(L, R),
         NEW e \in EventType, e.act = "complete", e.tech \in Techs, e.order \in OrdersOf(R[e.tech]),
         BeganIn(L, e.order), ~CompletedIn(L, e.order)
  PROVE  ProgressInv(Append(L, e), R)
<1> DEFINE K == Append(L, e)
<1>1. /\ L \in Seq(EventType) /\ Len(L) \in Nat
      /\ DOMAIN L = 1 .. Len(L) /\ DOMAIN K = 1 .. Len(L) + 1
      /\ \A n \in DOMAIN L : n \in DOMAIN K /\ K[n] = L[n]
      /\ \A n \in DOMAIN K : (n \in DOMAIN L /\ n < Len(L) + 1) \/ n = Len(L) + 1
      /\ K[Len(L) + 1] = e
  BY LogGrows DEF LogInv
<1> HIDE DEF K
<1>2. \A o : CompletedIn(L, o) => CompletedIn(K, o) BY <1>1 DEF CompletedIn
<1>3. \A o : BeganIn(K, o) <=> BeganIn(L, o) BY <1>1 DEF BeganIn
<1>4. \A n \in DOMAIN L : BeganIn(L, L[n].order)
  BY <1>1, EventFields DEF LogInv, BeganIn
<1>5. \A u \in Techs : \A j \in DOMAIN R[u] : R[u][j].order = e.order => u = e.tech
  BY DEF VisitsInv, OrdersOf
<1>6. ASSUME NEW u \in Techs, NEW j \in DOMAIN R[u], NEW n \in DOMAIN K,
             K[n].order = R[u][j].order
      PROVE  K[n].tech = u
  BY <1>1, <1>5, <1>6 DEF ProgressInv
<1>7. ASSUME NEW u \in Techs, NEW j \in DOMAIN R[u], NEW k \in DOMAIN R[u],
             j < k, BeganIn(K, R[u][k].order)
      PROVE  CompletedIn(K, R[u][j].order)
  BY <1>2, <1>3, <1>7 DEF ProgressInv
<1>8. ASSUME NEW u \in Techs, NEW j \in DOMAIN R[u], NEW k \in DOMAIN R[u],
             NEW m \in DOMAIN K, NEW n \in DOMAIN K,
             j < k, K[m].order = R[u][j].order, K[n].order = R[u][k].order
      PROVE  m < n
  <2>1. CASE m \in DOMAIN L /\ n \in DOMAIN L BY <2>1, <1>1, <1>8 DEF ProgressInv
  <2>2. CASE m \in DOMAIN L /\ n = Len(L) + 1 BY <2>2, <1>1
  <2>3. CASE m = Len(L) + 1
    <3>1. R[u][j].order = e.order BY <2>3, <1>1, <1>8
    <3>2. BeganIn(L, R[u][k].order)
      <4>1. CASE n \in DOMAIN L BY <4>1, <1>1, <1>4, <1>8
      <4>2. CASE n = Len(L) + 1 BY <4>2, <1>1, <1>8
      <4> QED BY <4>1, <4>2, <1>1
    <3>3. CompletedIn(L, e.order) BY <3>1, <3>2, <1>8 DEF ProgressInv
    <3> QED BY <3>3
  <2> QED BY <2>1, <2>2, <2>3, <1>1
<1>9. ASSUME NEW u \in Techs, NEW j \in DOMAIN R[u], NEW m \in DOMAIN K, NEW n \in DOMAIN K,
              K[n].order = R[u][j].order, K[n].act = "complete",
              K[m].tech = u, K[m].order \notin OrdersOf(R[u])
      PROVE  m < n
  <2>1. m \in DOMAIN L BY <1>1, <1>9
  <2>2. CASE n \in DOMAIN L BY <2>1, <2>2, <1>1, <1>9 DEF ProgressInv
  <2>3. CASE n = Len(L) + 1 BY <2>1, <2>3, <1>1
  <2> QED BY <2>2, <2>3, <1>1
<1>10. ProgressInv(K, R) BY <1>6, <1>7, <1>8, <1>9 DEF ProgressInv
<1> QED BY <1>10 DEF K

------------------------------------------------------------------------------
(* Where the events leave a technician.                                     *)

LEMMA LatestFound ==
  ASSUME LogInv(scn, log), NEW t, Reports(t) # {}
  PROVE  \E m \in DOMAIN log : /\ log[m].tech = t /\ Latest(t) = log[m]
                               /\ \A k \in DOMAIN log : log[k].tech = t => k <= m
<1>1. log \in Seq(EventType) /\ DOMAIN log = 1 .. Len(log) /\ Len(log) \in Nat
  BY LenProperties DEF LogInv
<1>2. Reports(t) \subseteq 1 .. Len(log) BY <1>1 DEF Reports
<1>3. \E m \in Reports(t) : \A k \in Reports(t) : k <= m BY <1>1, <1>2, HasMax
<1> DEFINE m == CHOOSE n \in Reports(t) : \A k \in Reports(t) : k <= n
<1>4. m \in Reports(t) /\ \A k \in Reports(t) : k <= m BY <1>3
<1>5. Latest(t) = log[m] BY DEF Latest
<1> QED BY <1>4, <1>5 DEF Reports

\* A technician whose last report is a completion is free since then; one whose
\* last report is a start is busy.
LEMMA ProjectionSays ==
  ASSUME LogInv(scn, log), scn \in ScenarioType, NEW t \in Techs, Reports(t) # {}
  PROVE  LET e == Latest(t)
             p == Projection(t)
         IN /\ e \in EventType /\ e.tech = t /\ e.order \in Orders
            /\ p.order = e.order /\ p.at = scn.place[e.order] /\ p.at \in Points
            /\ p.busy = (e.act = "start") /\ p.busy = Started(e.order)
            /\ p.free = IF e.act = "start" THEN AvailableAfter(e) ELSE e.at
            /\ p.free \in Nat /\ scn.from[t] <= p.free
<1>1. PICK m \in DOMAIN log : /\ log[m].tech = t /\ Latest(t) = log[m]
                              /\ \A k \in DOMAIN log : log[k].tech = t => k <= m
  BY LatestFound
<1> DEFINE e == log[m]
<1>2. /\ e \in EventType /\ e.tech = t /\ e.order \in Orders /\ e.act \in {"start", "complete"}
      /\ e.at \in Nat /\ e.est \in Nat
  BY <1>1, EventFields DEF LogInv
<1>3. Started(e.order) <=> e.act = "start"
  <2>1. CASE e.act = "start"
    <3>1. InHand(log, m)
      <4> SUFFICES ASSUME NEW n \in DOMAIN log, log[n].order = e.order, log[n].act = "complete"
                   PROVE  FALSE
        BY <2>1 DEF InHand, CompletedIn
      <4>1. PICK k \in DOMAIN log : /\ k < n /\ log[k].act = "start"
                                    /\ log[k].order = log[n].order /\ log[k].tech = log[n].tech
        BY DEF LogInv
      <4>2. k = m BY <4>1, <2>1 DEF LogInv
      <4>3. n <= m /\ m < n BY <4>1, <4>2, <1>1
      <4>4. n \in Nat /\ m \in Nat BY EventFields DEF LogInv
      <4> QED BY <4>3, <4>4
    <3> QED BY <3>1, <2>1, Words
  <2>2. CASE e.act = "complete"
    <3>1. CompletedIn(log, e.order) BY <2>2 DEF CompletedIn
    <3> QED BY <3>1, <2>2, Words DEF Started
  <2> QED BY <2>1, <2>2, <1>2
<1>4. scn.place[e.order] \in Points /\ scn.service[e.order] \in Nat /\ scn.from[t] \in Nat
  BY <1>2, ScenarioFields
<1>5. scn.from[t] <= e.at BY <1>1 DEF LogInv
<1>6. AvailableAfter(e) \in Nat /\ scn.from[t] <= AvailableAfter(e)
  BY <1>2, <1>4, <1>5 DEF AvailableAfter
<1> HIDE DEF e
<1>7. Latest(t) = e BY <1>1 DEF e
<1>8. Projection(t) = [order |-> e.order, busy |-> Started(e.order), at |-> scn.place[e.order],
                       free |-> IF Started(e.order) THEN AvailableAfter(e) ELSE e.at]
  BY <1>7 DEF Projection
<1>9. /\ Projection(t).order = e.order /\ Projection(t).busy = Started(e.order)
      /\ Projection(t).at = scn.place[e.order]
      /\ Projection(t).free = IF Started(e.order) THEN AvailableAfter(e) ELSE e.at
  BY <1>8
<1>10. Started(e.order) \in BOOLEAN BY DEF Started, Began
<1> QED BY <1>2, <1>3, <1>4, <1>5, <1>6, <1>7, <1>9, <1>10

\* Planning asks no sooner.
LEMMA ProjectionAtSays ==
  ASSUME LogInv(scn, log), scn \in ScenarioType, NEW t \in Techs, Reports(t) # {}, NEW time \in Nat
  PROVE  /\ ProjectionAt(t, time).order = Projection(t).order
         /\ ProjectionAt(t, time).at = Projection(t).at
         /\ ProjectionAt(t, time).free \in Nat
         /\ Projection(t).free <= ProjectionAt(t, time).free
<1> DEFINE p == Projection(t)
<1>1. p.free \in Nat BY ProjectionSays
<1>2. p = [order |-> p.order, busy |-> p.busy, at |-> p.at, free |-> p.free]
  BY DEF Projection
<1>3. Overrun \in Nat BY DayAssumption
<1> HIDE DEF p
<1>4. ProjectionAt(t, time)
        = [p EXCEPT !.free = IF p.busy /\ p.free <= time THEN time + Overrun ELSE p.free]
  BY DEF ProjectionAt, p
<1>5. ProjectionAt(t, time)
        = [order |-> p.order, busy |-> p.busy, at |-> p.at,
           free |-> IF p.busy /\ p.free <= time THEN time + Overrun ELSE p.free]
  BY <1>2, <1>4
<1> QED BY <1>1, <1>3, <1>5 DEF p

------------------------------------------------------------------------------
(* A service begins.                                                        *)

\* Whatever completion the technician reported last, the way from there is behind
\* them: the active plan's order and the log's agree on what came last.
LEMMA StartIsReachable ==
  ASSUME DayInv, NEW t \in Techs, NEW i, plan # NoPlan, i \in DOMAIN plan.routes[t],
         NEW at \in Nat, EarliestStart(t, i) <= at, ~Began(plan.routes[t][i].order),
         \A j \in 1 .. i - 1 : Completed(plan.routes[t][j].order)
  PROVE  /\ scn.from[t] <= at
         /\ \A m \in DOMAIN log :
              /\ log[m].tech = t /\ log[m].act = "complete"
              /\ \A k \in DOMAIN log : log[k].tech = t => k <= m
              => log[m].at + Travel(scn, scn.place[log[m].order],
                                    scn.place[plan.routes[t][i].order]) <= at
<1> DEFINE r == plan.routes[t]
           o == r[i].order
<1>1. /\ LogInv(scn, log) /\ scn \in ScenarioType
      /\ VisitsInv(scn, plan.routes) /\ ProgressInv(log, plan.routes)
  BY ScenarioAssumption DEF DayInv, TypeOK
<1>2. r \in Seq(VisitType) /\ DOMAIN r = 1 .. Len(r) /\ Len(r) \in Nat
  BY <1>1, LenProperties DEF VisitsInv
<1>3. \A j \in DOMAIN r : r[j].order \in Orders
  <2>1. \A j \in DOMAIN r : r[j] \in VisitType BY <1>2, ElementOfSeq
  <2> QED BY <2>1 DEF VisitType
<1>4. \A p \in Orders : scn.place[p] \in Points BY <1>1, ScenarioFields
<1>5. scn.from[t] \in Nat /\ scn.home[t] \in Points BY <1>1, ScenarioFields
<1>6. \A p, q \in Points : Travel(scn, p, q) \in Nat BY <1>1, ScenarioFields
<1>7. \A m \in DOMAIN log : /\ log[m].order \in Orders /\ log[m].at \in Nat
                            /\ m \in Nat /\ scn.from[log[m].tech] <= log[m].at
  BY <1>1, EventFields DEF LogInv
<1>8. o \in Orders BY <1>3
<1> HIDE DEF o
<1>9. CASE i > 1
  <2> DEFINE p == r[i - 1].order
             c == EventOf(p, "complete")
  <2>1. i - 1 \in DOMAIN r /\ i - 1 \in 1 .. i - 1 BY <1>2, <1>9
  <2>2. Completed(p) BY <2>1
  <2>3. c \in DOMAIN log /\ log[c].order = p /\ log[c].act = "complete"
    BY <2>2, <1>1, EventFound DEF Completed
  <2>4. log[c].tech = t BY <2>1, <2>3, <1>1 DEF ProgressInv
  <2>5. log[c].at + Travel(scn, scn.place[p], scn.place[o]) <= at
    BY <1>9 DEF EarliestStart, o
  <2>6. p \in Orders BY <2>1, <1>3
  <2> HIDE DEF c, p
  <2>7. Travel(scn, scn.place[p], scn.place[o]) \in Nat BY <2>6, <1>4, <1>6, <1>8
  <2>8. scn.from[t] <= at BY <2>3, <2>4, <2>5, <2>7, <1>5, <1>7
  <2>9. ASSUME NEW m \in DOMAIN log, log[m].tech = t, log[m].act = "complete",
               \A k \in DOMAIN log : log[k].tech = t => k <= m
        PROVE  m = c
    <3>1. c <= m BY <2>3, <2>4, <2>9
    <3>2. CASE log[m].order \notin OrdersOf(r)
      <4>1. m < c BY <3>2, <2>1, <2>3, <2>9, <1>1 DEF ProgressInv, p
      <4> QED BY <3>1, <4>1, <2>3, <1>7
    <3>3. CASE log[m].order \in OrdersOf(r)
      <4>1. PICK j \in DOMAIN r : r[j].order = log[m].order BY <3>3 DEF OrdersOf
      <4>2. BeganIn(log, r[j].order) BY <4>1, <2>9, <1>1 DEF LogInv, BeganIn
      <4>3. ~BeganIn(log, o) BY <1>1, Words DEF o
      <4>4. j # i BY <4>2, <4>3 DEF o
      <4>5. ~(j > i)
        <5> SUFFICES ASSUME j > i PROVE FALSE
          OBVIOUS
        <5>1. CompletedIn(log, o) BY <4>2, <1>1 DEF ProgressInv, o
        <5> QED BY <5>1, <4>3, <1>1 DEF LogInv, CompletedIn, BeganIn
      <4>6. ~(j < i - 1)
        <5> SUFFICES ASSUME j < i - 1 PROVE FALSE
          OBVIOUS
        <5>1. m < c BY <4>1, <2>1, <2>3, <1>1 DEF ProgressInv, p
        <5> QED BY <5>1, <3>1, <2>3, <1>7
      <4>7. j = i - 1 BY <4>4, <4>5, <4>6, <1>2
      <4> QED BY <4>1, <4>7, <2>3, <2>9, <1>1 DEF LogInv, p
    <3> QED BY <3>2, <3>3
  <2> QED BY <2>3, <2>5, <2>8, <2>9 DEF o
<1>10. CASE ~(i > 1) /\ Reports(t) # {} /\ ~Projection(t).busy
  <2>1. /\ Latest(t).order \in Orders /\ Projection(t).at = scn.place[Latest(t).order]
        /\ Projection(t).at \in Points /\ Projection(t).free = Latest(t).at
        /\ Projection(t).free \in Nat /\ scn.from[t] <= Projection(t).free
    BY <1>1, <1>10, ProjectionSays
  <2>2. Projection(t).free + Travel(scn, Projection(t).at, scn.place[o]) <= at
    BY <1>10 DEF EarliestStart, o
  <2>3. Travel(scn, Projection(t).at, scn.place[o]) \in Nat BY <2>1, <1>4, <1>6, <1>8
  <2>4. scn.from[t] <= at BY <2>1, <2>2, <2>3, <1>5
  <2>5. PICK m \in DOMAIN log : /\ log[m].tech = t /\ Latest(t) = log[m]
                                /\ \A k \in DOMAIN log : log[k].tech = t => k <= m
    BY <1>1, <1>10, LatestFound
  <2>6. \A n \in DOMAIN log :
          log[n].tech = t /\ (\A k \in DOMAIN log : log[k].tech = t => k <= n) => n = m
    BY <2>5, <1>7
  <2> QED BY <2>1, <2>2, <2>4, <2>5, <2>6 DEF o
<1>11. CASE ~(i > 1) /\ ~(Reports(t) # {} /\ ~Projection(t).busy)
  <2>1. scn.from[t] + Travel(scn, scn.home[t], scn.place[o]) <= at
    BY <1>11 DEF EarliestStart, o
  <2>2. scn.from[t] <= at
    <3>1. Travel(scn, scn.home[t], scn.place[o]) \in Nat BY <1>4, <1>5, <1>6, <1>8
    <3> QED BY <2>1, <3>1, <1>5
  <2>3. ASSUME NEW m \in DOMAIN log, log[m].tech = t, log[m].act = "complete",
               \A k \in DOMAIN log : log[k].tech = t => k <= m
        PROVE  FALSE
    <3>1. Reports(t) # {} BY <2>3 DEF Reports
    <3>2. Projection(t).busy BY <3>1, <1>11
    <3>3. Latest(t).act = "start" BY <3>1, <3>2, <1>1, ProjectionSays
    <3>4. PICK n \in DOMAIN log : /\ log[n].tech = t /\ Latest(t) = log[n]
                                  /\ \A k \in DOMAIN log : log[k].tech = t => k <= n
      BY <3>1, <1>1, LatestFound
    <3>5. n = m BY <3>4, <2>3, <1>7
    <3> QED BY <3>3, <3>4, <3>5, <2>3
  <2> QED BY <2>2, <2>3
<1> QED BY <1>9, <1>10, <1>11

\* A report leaves the solver's model alone and overtakes the request in hand.
LEMMA ReportOvertakes ==
  ASSUME DayInv, NEW e \in EventType, log' = Append(log, e), UNCHANGED <<scn, solving, plan, ask>>
  PROVE  TypeOK' /\ SolverInv' /\ AskInv'
<1>1. /\ scn' = scn /\ entry' = entry /\ waiting' = waiting /\ routes' = routes
      /\ dropped' = dropped /\ done' = done /\ plan' = plan /\ ask' = ask
  BY DEF solving
<1>2. TypeOK' BY <1>1 DEF DayInv, TypeOK
<1>3. SolverInv' BY <1>1 DEF DayInv, SolverInv
<1>4. Len(log') = Len(log) + 1 /\ Len(log) \in Nat BY LogGrows DEF DayInv, LogInv
<1>5. ASSUME ask # NoAsk
      PROVE  /\ ask \in AskType /\ ask.seen <= Len(log') /\ ask.seen # Len(log')
             /\ ~ask.replan => ask.seen = 0 /\ ask.fixed = Nothing
  <2>1. /\ ask \in AskType /\ ask.seen <= Len(log)
        /\ ~ask.replan => ask.seen = 0 /\ ask.fixed = Nothing
    BY <1>5 DEF DayInv, AskInv
  <2>2. ask.seen \in Nat BY <2>1 DEF AskType
  <2> QED BY <2>1, <2>2, <1>4
<1>6. Nothing' = Nothing BY DEF Nothing
<1>7. AskInv' BY <1>1, <1>5, <1>6 DEF AskInv
<1> QED BY <1>2, <1>3, <1>7

LEMMA StartKeepsDay ==
  ASSUME DayInv, NEW t \in Techs, NEW i, NEW at \in Nat, NEW est \in Nat, Start(t, i, at, est)
  PROVE  DayInv'
<1> DEFINE r == plan.routes[t]
           v == r[i]
           e == [order |-> v.order, tech |-> t, act |-> "start", at |-> at, est |-> est,
                 start |-> v.start, finish |-> v.finish, source |-> v.source]
<1>1. /\ plan # NoPlan /\ i \in DOMAIN r /\ ~Began(v.order) /\ ~InService(t)
      /\ \A j \in 1 .. i - 1 : Completed(r[j].order)
      /\ EarliestStart(t, i) <= at /\ log' = Append(log, e)
      /\ UNCHANGED <<scn, solving, plan, ask>>
  BY DEF Start
<1>2. /\ LogInv(scn, log) /\ scn \in ScenarioType /\ BookedInv(log, plan) /\ WorkIsReachable
      /\ plan \in [routes : [Techs -> Seq(VisitType)], dropped : SUBSET Orders]
      /\ VisitsInv(scn, plan.routes) /\ ProgressInv(log, plan.routes)
  BY <1>1, ScenarioAssumption DEF DayInv, TypeOK
<1>3. v \in VisitType /\ v.order \in scn.active
  <2>1. r \in Seq(VisitType) BY <1>2 DEF VisitsInv
  <2> QED BY <2>1, <1>1, <1>2, LenProperties, ElementOfSeq DEF VisitsInv
<1>4. e \in EventType BY <1>3 DEF EventType, VisitType
<1>5. /\ scn.from[t] <= at
      /\ \A m \in DOMAIN log :
           /\ log[m].tech = t /\ log[m].act = "complete"
           /\ \A k \in DOMAIN log : log[k].tech = t => k <= m
           => log[m].at + Travel(scn, scn.place[log[m].order], scn.place[v.order]) <= at
  BY <1>1, StartIsReachable
<1>6. e.order = v.order /\ e.tech = t /\ e.act = "start" /\ e.at = at /\ e.start = v.start
      /\ e.finish = v.finish /\ e.source = v.source
  OBVIOUS
<1>7. ~BeganIn(log, e.order) /\ \A j \in 1 .. i - 1 : CompletedIn(log, r[j].order)
  BY <1>1, <1>2, <1>6, Words
<1>8. \A n \in DOMAIN log : InHand(log, n) => log[n].tech # e.tech
  <2> SUFFICES ASSUME NEW n \in DOMAIN log, InHand(log, n), log[n].tech = t PROVE FALSE
    BY <1>6
  <2>1. log[n].order \in OrdersOf(r) BY <1>2 DEF BookedInv, Booked, OrdersOf
  <2>2. Started(log[n].order) BY <1>2, Words
  <2> QED BY <2>1, <2>2, <1>1 DEF InService
<1> HIDE DEF e, v, r
<1>9. /\ LogInv(scn, log')
      /\ \A o : CompletedIn(log', o) <=> CompletedIn(log, o)
  BY <1>1, <1>2, <1>3, <1>4, <1>5, <1>6, <1>7, <1>8, StartKeepsLog
<1>10. ProgressInv(log', plan.routes)
  BY <1>1, <1>2, <1>4, <1>6, <1>7, StartKeepsProgress DEF v, r
<1>11. /\ Len(log) \in Nat /\ DOMAIN log = 1 .. Len(log) /\ DOMAIN log' = 1 .. Len(log) + 1
       /\ \A n \in DOMAIN log : log'[n] = log[n]
       /\ \A n \in DOMAIN log' : n \in DOMAIN log \/ n = Len(log) + 1
       /\ log'[Len(log) + 1] = e
  BY <1>1, <1>2, <1>4, LogGrows DEF LogInv
<1>12. BookedInv(log', plan)
  <2> SUFFICES ASSUME NEW n \in DOMAIN log', InHand(log', n) PROVE Booked(plan, log'[n])
    BY <1>1 DEF BookedInv
  <2>1. CASE n \in DOMAIN log
    <3>1. InHand(log, n) BY <2>1, <1>9, <1>11 DEF InHand
    <3> QED BY <3>1, <2>1, <1>2, <1>11 DEF BookedInv
  <2>2. CASE n = Len(log) + 1 BY <2>2, <1>1, <1>6, <1>11 DEF Booked, v, r
  <2> QED BY <2>1, <2>2, <1>11
<1>13. WorkIsReachable'
  <2>1. scn' = scn BY <1>1
  <2> SUFFICES ASSUME NEW m \in DOMAIN log', NEW n \in DOMAIN log',
                      m < n, log'[m].tech = log'[n].tech,
                      log'[n].act = "start", log'[m].act = "complete",
                      \A k \in m + 1 .. n - 1 : log'[k].tech # log'[n].tech
               PROVE  log'[m].at + Travel(scn, scn.place[log'[m].order], scn.place[log'[n].order])
                        <= log'[n].at
    BY <2>1 DEF WorkIsReachable, Travel
  <2>2. m \in DOMAIN log BY <1>11
  <2>3. CASE n \in DOMAIN log
    <3>1. \A k \in m + 1 .. n - 1 : k \in DOMAIN log BY <2>2, <2>3, <1>11
    <3>2. \A k \in m + 1 .. n - 1 : log[k].tech # log[n].tech BY <3>1, <2>3, <1>11
    <3> QED BY <3>2, <2>2, <2>3, <1>2, <1>11 DEF WorkIsReachable
  <2>4. CASE n = Len(log) + 1
    <3>1. log[m].tech = t /\ log[m].act = "complete" BY <2>2, <2>4, <1>6, <1>11
    <3>2. ASSUME NEW k \in DOMAIN log, log[k].tech = t PROVE k <= m
      <4>1. ~(k \in m + 1 .. n - 1) BY <3>2, <2>4, <1>6, <1>11
      <4> QED BY <4>1, <2>2, <2>4, <1>11
    <3>3. log[m].at + Travel(scn, scn.place[log[m].order], scn.place[v.order]) <= at
      BY <3>1, <3>2, <2>2, <1>5
    <3> QED BY <3>3, <2>2, <2>4, <1>6, <1>11
  <2> QED BY <2>3, <2>4, <1>11
<1>14. TypeOK' /\ SolverInv' /\ AskInv' BY <1>1, <1>4, ReportOvertakes
<1> QED BY <1>1, <1>2, <1>9, <1>10, <1>12, <1>13, <1>14 DEF DayInv

LEMMA CompleteKeepsDay ==
  ASSUME DayInv, NEW o, NEW at \in Nat, Complete(o, at)
  PROVE  DayInv'
<1> DEFINE k == EventOf(o, "start")
           e == [log[k] EXCEPT !.act = "complete", !.at = at, !.est = 0]
<1>1. /\ Started(o) /\ log[k].at < at /\ log' = Append(log, e)
      /\ UNCHANGED <<scn, solving, plan, ask>>
  BY DEF Complete, StartOf
<1>2. /\ LogInv(scn, log) /\ scn \in ScenarioType /\ BookedInv(log, plan) /\ WorkIsReachable
      /\ plan # NoPlan =>
           /\ plan \in [routes : [Techs -> Seq(VisitType)], dropped : SUBSET Orders]
           /\ VisitsInv(scn, plan.routes) /\ ProgressInv(log, plan.routes)
  BY ScenarioAssumption DEF DayInv, TypeOK
<1>3. k \in DOMAIN log /\ log[k].order = o /\ log[k].act = "start" /\ InHand(log, k)
  <2>1. k \in DOMAIN log /\ log[k].order = o /\ log[k].act = "start"
    BY <1>1, <1>2, EventFound DEF Started, Began
  <2> HIDE DEF k
  <2> QED BY <2>1, <1>1, <1>2, Words
<1>4. log[k] \in EventType /\ log[k].at \in Nat /\ log[k].tech \in Techs
  BY <1>2, <1>3, EventFields DEF LogInv
<1> HIDE DEF k
<1>5. e \in EventType /\ e.order = o /\ e.tech = log[k].tech /\ e.act = "complete" /\ e.at = at
  BY <1>3, <1>4 DEF EventType
<1> HIDE DEF e
<1>6. /\ LogInv(scn, log')
      /\ \A p : CompletedIn(log', p) <=> CompletedIn(log, p) \/ p = o
  BY <1>1, <1>2, <1>3, <1>4, <1>5, CompleteKeepsLog
<1>7. plan # NoPlan /\ o \in OrdersOf(plan.routes[e.tech])
  BY <1>2, <1>3, <1>5 DEF BookedInv, Booked, OrdersOf
<1>8. BeganIn(log, o) /\ ~CompletedIn(log, o) BY <1>3 DEF BeganIn, InHand
<1>9. ProgressInv(log', plan.routes)
  BY <1>1, <1>2, <1>4, <1>5, <1>7, <1>8, CompleteKeepsProgress
<1>10. /\ Len(log) \in Nat /\ DOMAIN log = 1 .. Len(log) /\ DOMAIN log' = 1 .. Len(log) + 1
       /\ \A n \in DOMAIN log : log'[n] = log[n]
       /\ \A n \in DOMAIN log' : n \in DOMAIN log \/ n = Len(log) + 1
       /\ log'[Len(log) + 1] = e
  BY <1>1, <1>2, <1>5, LogGrows DEF LogInv
<1>11. BookedInv(log', plan)
  <2>1. ASSUME NEW n \in DOMAIN log', InHand(log', n)
        PROVE  n \in DOMAIN log /\ log'[n] = log[n] /\ InHand(log, n)
    <3>1. n \in DOMAIN log BY <2>1, <1>5, <1>10 DEF InHand
    <3> QED BY <3>1, <2>1, <1>6, <1>10 DEF InHand
  <2> QED BY <2>1, <1>2 DEF BookedInv
<1>12. WorkIsReachable'
  <2>1. scn' = scn BY <1>1
  <2> SUFFICES ASSUME NEW m \in DOMAIN log', NEW n \in DOMAIN log',
                      m < n, log'[m].tech = log'[n].tech,
                      log'[n].act = "start", log'[m].act = "complete",
                      \A j \in m + 1 .. n - 1 : log'[j].tech # log'[n].tech
               PROVE  log'[m].at + Travel(scn, scn.place[log'[m].order], scn.place[log'[n].order])
                        <= log'[n].at
    BY <2>1 DEF WorkIsReachable, Travel
  <2>2. n \in DOMAIN log BY <1>5, <1>10
  <2>3. m \in DOMAIN log /\ \A j \in m + 1 .. n - 1 : j \in DOMAIN log BY <2>2, <1>10
  <2>4. \A j \in m + 1 .. n - 1 : log[j].tech # log[n].tech BY <2>2, <2>3, <1>10
  <2> QED BY <2>2, <2>3, <2>4, <1>2, <1>10 DEF WorkIsReachable
<1>13. TypeOK' /\ SolverInv' /\ AskInv' BY <1>1, <1>5, ReportOvertakes
<1> QED BY <1>1, <1>2, <1>6, <1>7, <1>9, <1>11, <1>12, <1>13 DEF DayInv

------------------------------------------------------------------------------
(* Services in hand, and where a replan lets the technicians enter.         *)

\* At most one visit of a route is in service; it is the technician's last report,
\* and the start event recorded what the plan says of it.
LEMMA FrozenSays ==
  ASSUME DayInv, plan # NoPlan, NEW t \in Techs
  PROVE  \/ /\ \A i \in DOMAIN plan.routes[t] : ~Started(plan.routes[t][i].order)
            /\ Frozen(t) = <<>>
         \/ \E k \in DOMAIN plan.routes[t], n \in DOMAIN log :
              /\ \A i \in DOMAIN plan.routes[t] : Started(plan.routes[t][i].order) <=> i = k
              /\ InHand(log, n) /\ log[n].tech = t /\ log[n].order = plan.routes[t][k].order
              /\ Reports(t) # {} /\ Latest(t) = log[n]
              /\ Frozen(t) = <<[plan.routes[t][k] EXCEPT !.seq = 1]>>
<1> DEFINE r == plan.routes[t]
           S == {i \in DOMAIN r : Started(r[i].order)}
           Item(i, n) == [r[i] EXCEPT !.seq = n, !.start = StartOf(r[i].order).start,
                                      !.finish = StartOf(r[i].order).finish,
                                      !.source = StartOf(r[i].order).source]
<1>1. /\ LogInv(scn, log) /\ BookedInv(log, plan)
      /\ VisitsInv(scn, plan.routes) /\ ProgressInv(log, plan.routes)
  BY DEF DayInv
<1>2. r \in Seq(VisitType) BY <1>1 DEF VisitsInv
<1>3. Frozen(t) = [n \in DOMAIN Ascending(S) |-> Item(Ascending(S)[n], n)]
  BY DEF Frozen
<1>4. ASSUME NEW i \in S
      PROVE  \E n \in DOMAIN log :
               /\ InHand(log, n) /\ log[n].tech = t /\ log[n].order = r[i].order
               /\ \A m \in DOMAIN log : log[m].tech = t => m <= n
  <2>1. PICK n \in DOMAIN log : InHand(log, n) /\ log[n].order = r[i].order
    BY <1>1, Words
  <2>2. log[n].tech = t BY <2>1, <1>1 DEF ProgressInv
  <2> QED BY <2>1, <2>2, <1>1 DEF LogInv
<1>5. \A m \in DOMAIN log : m \in Nat BY <1>1, EventFields DEF LogInv
<1>6. ASSUME NEW i \in S, NEW j \in S PROVE i = j
  <2>1. PICK m \in DOMAIN log : /\ log[m].order = r[i].order /\ log[m].tech = t
                                /\ \A k \in DOMAIN log : log[k].tech = t => k <= m
    BY <1>4
  <2>2. PICK n \in DOMAIN log : /\ log[n].order = r[j].order /\ log[n].tech = t
                                /\ \A k \in DOMAIN log : log[k].tech = t => k <= n
    BY <1>4
  <2>3. m = n BY <2>1, <2>2, <1>5
  <2> QED BY <2>1, <2>2, <2>3, <1>1 DEF VisitsInv
<1>7. CASE S = {}
  <2>1. Ascending(S) = <<>> BY <1>7, AscendingOfFew
  <2> HIDE DEF Item
  <2>2. Frozen(t) = [n \in DOMAIN <<>> |-> Item(<<>>[n], n)] BY <2>1, <1>3
  <2>3. Frozen(t) = <<>> BY <2>2
  <2> QED BY <2>3, <1>7
<1>8. CASE S # {}
  <2>1. PICK k \in S : S = {k} BY <1>6, <1>8
  <2>2. PICK n \in DOMAIN log : /\ InHand(log, n) /\ log[n].tech = t /\ log[n].order = r[k].order
                                /\ \A m \in DOMAIN log : log[m].tech = t => m <= n
    BY <1>4
  <2>3. Booked(plan, log[n]) BY <2>2, <1>1 DEF BookedInv
  <2>4. PICK i \in DOMAIN r : /\ r[i].order = log[n].order /\ r[i].start = log[n].start
                              /\ r[i].finish = log[n].finish /\ r[i].source = log[n].source
    BY <2>2, <2>3 DEF Booked
  <2>5. i = k BY <2>2, <2>4, <1>1 DEF VisitsInv
  <2>6. StartOf(r[k].order) = log[n] BY <2>2, <1>1, Words DEF InHand
  <2>7. r[k] \in VisitType BY <1>2, ElementOfSeq, LenProperties
  <2>8. Item(k, 1) = [r[k] EXCEPT !.seq = 1] BY <2>4, <2>5, <2>6, <2>7 DEF VisitType
  <2>9. Ascending(S) = <<k>> BY <2>1, AscendingOfFew
  <2>10. Frozen(t) = <<Item(k, 1)>>
    <3> HIDE DEF Item
    <3>1. Frozen(t) = [h \in DOMAIN <<k>> |-> Item(<<k>>[h], h)] BY <2>9, <1>3
    <3>2. [h \in DOMAIN <<k>> |-> Item(<<k>>[h], h)] = [h \in 1 .. 1 |-> Item(k, 1)]
      OBVIOUS
    <3>3. [h \in 1 .. 1 |-> Item(k, 1)] = <<Item(k, 1)>> OBVIOUS
    <3> QED BY <3>1, <3>2, <3>3
  <2>11. Reports(t) # {} BY <2>2 DEF Reports
  <2>12. PICK m \in DOMAIN log : /\ log[m].tech = t /\ Latest(t) = log[m]
                                 /\ \A j \in DOMAIN log : log[j].tech = t => j <= m
    BY <2>11, <1>1, LatestFound
  <2>13. m = n BY <2>2, <2>12, <1>5
  <2>14. \A j \in DOMAIN r : Started(r[j].order) <=> j = k BY <2>1
  <2> QED BY <2>2, <2>8, <2>10, <2>11, <2>12, <2>13, <2>14
<1> QED BY <1>7, <1>8

\* What is frozen are the services in hand.
LEMMA FixedSays ==
  ASSUME DayInv
  PROVE  /\ FixedNow \in [Techs -> Seq(VisitType)]
         /\ \A t \in Techs :
              \/ FixedNow[t] = <<>>
              \/ /\ Reports(t) # {} /\ Latest(t).act = "start" /\ Started(Latest(t).order)
                 /\ FixedNow[t] \in Seq(VisitType) /\ Len(FixedNow[t]) = 1
                 /\ FixedNow[t][1].order = Latest(t).order
         /\ Served(FixedNow) \subseteq {o \in Open : Started(o)}
         /\ \A o : Started(o) => o \in Served(FixedNow)
<1>1. /\ LogInv(scn, log) /\ BookedInv(log, plan) /\ scn \in ScenarioType
      /\ plan # NoPlan => VisitsInv(scn, plan.routes) /\ ProgressInv(log, plan.routes)
  BY ScenarioAssumption DEF DayInv, TypeOK
<1>2. ASSUME NEW t \in Techs
      PROVE  /\ FixedNow[t] \in Seq(VisitType)
             /\ \/ FixedNow[t] = <<>>
                \/ /\ Reports(t) # {} /\ Latest(t).act = "start" /\ Started(Latest(t).order)
                   /\ Latest(t).order \in Open
                   /\ Len(FixedNow[t]) = 1 /\ FixedNow[t][1].order = Latest(t).order
             /\ OrdersOf(FixedNow[t]) \subseteq {o \in Open : Started(o)}
  <2>1. CASE FixedNow[t] = <<>> BY <2>1, EmptySeq DEF OrdersOf
  <2>2. CASE FixedNow[t] # <<>>
    <3>1. plan # NoPlan /\ FixedNow[t] = Frozen(t) BY <2>2 DEF FixedNow, Nothing
    <3>2. PICK k \in DOMAIN plan.routes[t], n \in DOMAIN log :
            /\ InHand(log, n) /\ log[n].tech = t /\ log[n].order = plan.routes[t][k].order
            /\ Reports(t) # {} /\ Latest(t) = log[n]
            /\ Frozen(t) = <<[plan.routes[t][k] EXCEPT !.seq = 1]>>
      BY <2>2, <3>1, FrozenSays
    <3> DEFINE v == [plan.routes[t][k] EXCEPT !.seq = 1]
    <3>3. plan.routes[t][k] \in VisitType
      BY <1>1, <3>1, ElementOfSeq, LenProperties DEF VisitsInv
    <3>4. v \in VisitType /\ v.order = log[n].order BY <3>2, <3>3 DEF VisitType
    <3> HIDE DEF v
    <3>5. FixedNow[t] = <<v>> BY <3>1, <3>2 DEF v
    <3>6. <<v>> \in Seq(VisitType) /\ Len(<<v>>) = 1 /\ DOMAIN <<v>> = {1} /\ <<v>>[1] = v
      BY <3>4
    <3>7. Started(log[n].order) /\ log[n].act = "start" /\ log[n].order \in Open
      <4>1. Started(log[n].order) /\ log[n].act = "start" BY <3>2, <1>1, Words DEF InHand
      <4>2. log[n].order \in scn.active BY <1>1 DEF LogInv
      <4> QED BY <4>1, <4>2 DEF Open, Started
    <3>8. OrdersOf(<<v>>) = {log[n].order} BY <3>4, <3>6 DEF OrdersOf
    <3> QED BY <3>2, <3>4, <3>5, <3>6, <3>7, <3>8
  <2> QED BY <2>1, <2>2
<1>3. FixedNow \in [Techs -> Seq(VisitType)]
  <2>1. FixedNow = [t \in Techs |-> FixedNow[t]] BY DEF FixedNow, Nothing
  <2> QED BY <2>1, <1>2
<1>4. Served(FixedNow) \subseteq {o \in Open : Started(o)} BY <1>2 DEF Served
<1>5. ASSUME NEW o, Started(o) PROVE o \in Served(FixedNow)
  <2>1. PICK n \in DOMAIN log : InHand(log, n) /\ log[n].order = o BY <1>1, <1>5, Words
  <2> DEFINE t == log[n].tech
  <2>2. t \in Techs BY <1>1, EventFields DEF LogInv
  <2>3. plan # NoPlan /\ Booked(plan, log[n]) BY <2>1, <1>1 DEF BookedInv
  <2> HIDE DEF t
  <2>4. PICK i \in DOMAIN plan.routes[t] : plan.routes[t][i].order = o
    BY <2>1, <2>3 DEF Booked, t
  <2>5. PICK k \in DOMAIN plan.routes[t] :
          /\ \A j \in DOMAIN plan.routes[t] : Started(plan.routes[t][j].order) <=> j = k
          /\ Frozen(t) = <<[plan.routes[t][k] EXCEPT !.seq = 1]>>
    BY <1>5, <2>2, <2>3, <2>4, FrozenSays
  <2>6. plan.routes[t][k].order = o BY <1>5, <2>4, <2>5
  <2>7. plan.routes[t][k] \in VisitType
    BY <1>1, <2>2, <2>3, ElementOfSeq, LenProperties DEF VisitsInv
  <2>8. FixedNow[t] = <<[plan.routes[t][k] EXCEPT !.seq = 1]>>
    BY <2>2, <2>3, <2>5 DEF FixedNow
  <2> DEFINE v == [plan.routes[t][k] EXCEPT !.seq = 1]
  <2>9. v.order = o BY <2>6, <2>7 DEF VisitType
  <2> HIDE DEF v
  <2>10. FixedNow[t] = <<v>> BY <2>8 DEF v
  <2>11. o \in OrdersOf(FixedNow[t]) BY <2>9, <2>10 DEF OrdersOf
  <2> QED BY <2>2, <2>11 DEF Served
<1> QED BY <1>2, <1>3, <1>4, <1>5

\* Where and when a technician enters a replan: where the last report leaves them.
LEMMA EntrySays ==
  ASSUME DayInv, NEW t \in Techs, NEW time \in Nat
  PROVE  LET e == EntryAt(t, FixedNow, time) IN
           /\ e \in Entry /\ scn.from[t] <= e.free /\ time <= e.free
           /\ Reports(t) # {} => e.at = Projection(t).at /\ ProjectionAt(t, time).free <= e.free
           /\ Reports(t) = {} => e.at = scn.home[t]
<1>1. LogInv(scn, log) /\ scn \in ScenarioType
  BY ScenarioAssumption DEF DayInv, TypeOK
<1>2. scn.home[t] \in Points /\ scn.from[t] \in Nat BY <1>1, ScenarioFields
<1>3. CASE Reports(t) = {}
  <2>1. FixedNow[t] = <<>> BY <1>3, FixedSays
  <2>2. EntryAt(t, FixedNow, time) = [at |-> scn.home[t], free |-> Later(time, scn.from[t])]
    BY <1>3, <2>1 DEF EntryAt
  <2> QED BY <1>2, <1>3, <2>2 DEF Later, Entry
<1>4. CASE Reports(t) # {}
  <2> DEFINE p == Projection(t)
             f == ProjectionAt(t, time).free
  <2>1. /\ Latest(t).order \in Orders /\ p.at = scn.place[Latest(t).order] /\ p.at \in Points
        /\ p.free \in Nat /\ scn.from[t] <= p.free /\ f \in Nat /\ p.free <= f
    BY <1>1, <1>4, ProjectionSays, ProjectionAtSays
  <2>2. FixedNow[t] # <<>> => Last(FixedNow[t]).order = Latest(t).order
    BY FixedSays DEF Last
  <2> HIDE DEF p, f
  <2>3. EntryAt(t, FixedNow, time) = [at |-> p.at, free |-> Later(time, f)]
    BY <1>4, <2>1, <2>2 DEF EntryAt, p, f
  <2>4. Later(time, f) \in Nat /\ time <= Later(time, f) /\ f <= Later(time, f)
        /\ scn.from[t] <= Later(time, f)
    BY <1>2, <2>1 DEF Later
  <2> QED BY <1>4, <2>1, <2>3, <2>4 DEF Entry, p, f
<1> QED BY <1>3, <1>4

------------------------------------------------------------------------------
(* Requests and the search keep the invariant.                              *)

\* What a request reads does not change while the solver runs.
LEMMA SameView ==
  ASSUME UNCHANGED <<scn, plan, log>>
  PROVE  /\ Open' = Open /\ FixedNow' = FixedNow
         /\ \A t, fixed, time : EntryAt(t, fixed, time)' = EntryAt(t, fixed, time)
<1>1. \A o : Began(o)' = Began(o) /\ Completed(o)' = Completed(o)
  BY DEF Began, Completed, EventOf
<1>2. \A o : Started(o)' = Started(o) BY <1>1 DEF Started
<1>3. \A o : StartOf(o)' = StartOf(o) BY DEF StartOf, EventOf
<1>4. Open' = Open BY <1>1 DEF Open
<1>5. \A t : Frozen(t)' = Frozen(t)
  <2> SUFFICES ASSUME NEW t PROVE Frozen(t)' = Frozen(t)
    OBVIOUS
  <2>1. {i \in DOMAIN plan.routes[t] : Started(plan.routes[t][i].order)}'
          = {i \in DOMAIN plan.routes[t] : Started(plan.routes[t][i].order)}
    BY <1>2
  <2> QED BY <2>1, <1>3 DEF Frozen
<1>6. FixedNow' = FixedNow BY <1>5 DEF FixedNow, Nothing
<1>7. \A t : Reports(t)' = Reports(t) BY DEF Reports
<1>8. \A t : Latest(t)' = Latest(t) BY <1>7 DEF Latest
<1>9. \A t : Projection(t)' = Projection(t) BY <1>2, <1>8 DEF Projection, AvailableAfter
<1>10. \A t, time : ProjectionAt(t, time)' = ProjectionAt(t, time) BY <1>9 DEF ProjectionAt
<1>11. \A t, fixed, time : EntryAt(t, fixed, time)' = EntryAt(t, fixed, time)
  BY <1>7, <1>9, <1>10 DEF EntryAt
<1> QED BY <1>4, <1>6, <1>11

LEMMA ViewKeepsDay ==
  ASSUME DayInv, UNCHANGED <<scn, plan, log>>, TypeOK', SolverInv', AskInv'
  PROVE  DayInv'
<1>1. LogInv(scn, log)' BY DEF DayInv
<1>2. (plan # NoPlan => /\ plan \in [routes : [Techs -> Seq(VisitType)], dropped : SUBSET Orders]
                        /\ VisitsInv(scn, plan.routes) /\ ProgressInv(log, plan.routes))'
  BY DEF DayInv
<1>3. BookedInv(log, plan)' BY DEF DayInv
<1>4. WorkIsReachable'
  <2>1. WorkIsReachable BY DEF DayInv
  <2> QED BY <2>1 DEF WorkIsReachable
<1> QED BY <1>1, <1>2, <1>3, <1>4 DEF DayInv

\* A model is empty when it is made.
LEMMA NewModelKeeps ==
  ASSUME TypeOK, scn' = scn, NEW e \in [Techs -> Entry], NEW orders \in SUBSET Orders,
         \A t \in Techs : scn.from[t] <= e[t].free, NewModel(e, orders)
  PROVE  /\ TypeOK' /\ SolverInv' /\ PlacesIn(orders)'
         /\ entry' = e /\ done' = FALSE
<1>1. /\ entry' = e /\ waiting' = orders /\ routes' = [t \in Techs |-> <<>>]
      /\ dropped' = {} /\ done' = FALSE
  BY DEF NewModel
<1>2. <<>> \in Seq(VisitType) /\ DOMAIN <<>> = {} BY EmptySeq
<1>3. TypeOK' BY <1>1, <1>2 DEF TypeOK, Entry
<1>4. \A t \in Techs : RouteInv(scn', t, routes'[t], entry'[t])
  BY <1>1, <1>2 DEF RouteInv
<1>5. \A t \in Techs : ReachedFromEntry(scn', routes'[t], entry'[t])
  BY <1>1, <1>2 DEF ReachedFromEntry
<1>6. SolverInv' BY <1>1, <1>4, <1>5 DEF SolverInv
<1>7. PlacesIn(orders)' BY <1>1, <1>2 DEF PlacesIn, Placed
<1> QED BY <1>1, <1>3, <1>6, <1>7

LEMMA HomeInTime ==
  ASSUME NEW s \in ScenarioType
  PROVE  /\ HomeEntry(s) \in [Techs -> Entry]
         /\ \A t \in Techs : s.from[t] <= HomeEntry(s)[t].free
<1>1. \A t \in Techs : s.from[t] \in Nat BY ScenarioFields
<1>2. \A t \in Techs : HomeEntry(s)[t].free = s.from[t] BY DEF HomeEntry
<1> QED BY <1>1, <1>2, HomeTyped

LEMMA InitDay == DayInit => DayInv
<1> SUFFICES ASSUME DayInit PROVE DayInv
  OBVIOUS
<1>1. Init /\ plan = NoPlan /\ log = <<>> /\ ask = NoAsk BY DEF DayInit
<1>2. IInv BY <1>1, InitIInv
<1>3. TypeOK /\ scn \in ScenarioType /\ entry = HomeEntry(scn)
      /\ \A t \in Techs : RouteInv(scn, t, routes[t], entry[t])
  BY <1>2, ScenarioAssumption DEF IInv, TypeOK
<1>4. <<>> \in Seq(EventType) /\ DOMAIN <<>> = {} BY EmptySeq
<1>5. LogInv(scn, log) BY <1>1, <1>4 DEF LogInv
<1>6. BookedInv(log, plan) BY <1>1, <1>4 DEF BookedInv
<1>7. WorkIsReachable BY <1>1, <1>4 DEF WorkIsReachable
<1>8. \A t \in Techs : ReachedFromEntry(scn, routes[t], entry[t])
  BY <1>1, <1>4 DEF Init, ReachedFromEntry
<1>9. SolverInv BY <1>3, <1>8, HomeInTime DEF SolverInv
<1> QED BY <1>1, <1>3, <1>5, <1>6, <1>7, <1>9 DEF DayInv, AskInv

LEMMA AskForPlanKeepsDay == ASSUME DayInv, AskForPlan PROVE DayInv'
<1>1. /\ log = <<>> /\ scn' = scn /\ plan' = plan /\ log' = log
      /\ ask' = [replan |-> FALSE, time |-> 0, seen |-> 0, fixed |-> Nothing, compared |-> FALSE]
      /\ NewModel(HomeEntry(scn), Open)
  BY DEF AskForPlan
<1>2. TypeOK /\ scn \in ScenarioType BY ScenarioAssumption DEF DayInv, TypeOK
<1>3. Open \in SUBSET Orders BY <1>2, ScenarioFields DEF Open
<1>4. TypeOK' /\ SolverInv' /\ done' = FALSE BY <1>1, <1>2, <1>3, HomeInTime, NewModelKeeps
<1>5. PlacesIn(Open \ Served(ask.fixed))'
  <2>1. PICK pool \in SUBSET Orders : pool = Open BY <1>3
  <2>2. PlacesIn(pool)' BY <1>1, <1>2, <2>1, HomeInTime, NewModelKeeps
  <2>3. Open' = Open BY <1>1, SameView
  <2>4. Served(Nothing) = {} BY EmptySeq DEF Served, Nothing, OrdersOf
  <2>5. (Open \ Served(ask.fixed))' = pool BY <1>1, <2>1, <2>3, <2>4
  <2> QED BY <2>2, <2>5 DEF PlacesIn, Placed
<1>6. ask' \in AskType BY <1>1, EmptySeq DEF AskType, Nothing
<1>7. FreshInv' BY <1>1, <1>4, <1>5 DEF FreshInv
<1>8. Len(log') \in Nat /\ ask'.seen <= Len(log')
  <2>1. Len(log') \in Nat BY <1>1, LenProperties DEF DayInv, LogInv
  <2> QED BY <2>1, <1>1
<1>9. AskInv' BY <1>1, <1>6, <1>7, <1>8 DEF AskInv
<1> QED BY <1>1, <1>4, <1>9, ViewKeepsDay

LEMMA AskForReplanKeepsDay ==
  ASSUME DayInv, NEW time \in Nat, AskForReplan(time) PROVE DayInv'
<1> DEFINE e == [t \in Techs |-> EntryAt(t, FixedNow, time)]
           pool == Open \ Served(FixedNow)
<1>1. /\ scn' = scn /\ plan' = plan /\ log' = log
      /\ ask' = [replan |-> TRUE, time |-> time, seen |-> Len(log), fixed |-> FixedNow,
                 compared |-> TRUE]
      /\ NewModel(e, pool)
  BY DEF AskForReplan, FixedNow
<1>2. TypeOK /\ scn \in ScenarioType /\ Len(log) \in Nat
  BY ScenarioAssumption, LenProperties DEF DayInv, TypeOK, LogInv
<1>3. pool \in SUBSET Orders BY <1>2, ScenarioFields DEF Open
<1>4. e \in [Techs -> Entry] /\ \A t \in Techs : scn.from[t] <= e[t].free
  BY EntrySays
<1>5. FixedNow \in [Techs -> Seq(VisitType)] BY FixedSays
<1> HIDE DEF e
<1>6. TypeOK' /\ SolverInv' /\ done' = FALSE /\ entry' = e
  BY <1>1, <1>2, <1>3, <1>4, NewModelKeeps
<1>7. PlacesIn(Open \ Served(ask.fixed))'
  <2>1. PICK P \in SUBSET Orders : P = pool BY <1>3
  <2>2. PlacesIn(P)' BY <1>1, <1>2, <1>4, <2>1, NewModelKeeps
  <2>3. Open' = Open BY <1>1, SameView
  <2>4. (Open \ Served(ask.fixed))' = P BY <1>1, <2>1, <2>3
  <2> QED BY <2>2, <2>4 DEF PlacesIn, Placed
<1>8. ask' \in AskType BY <1>1, <1>2, <1>5 DEF AskType
<1>9. entry' = [t \in Techs |-> EntryAt(t, ask.fixed, ask.time)]'
  <2>1. \A t, fixed, m : EntryAt(t, fixed, m)' = EntryAt(t, fixed, m) BY <1>1, SameView
  <2>2. e = [t \in Techs |-> EntryAt(t, FixedNow, time)] BY DEF e
  <2>3. ask'.fixed = FixedNow /\ ask'.time = time BY <1>1
  <2>4. [t \in Techs |-> EntryAt(t, ask.fixed, ask.time)]'
          = [t \in Techs |-> EntryAt(t, FixedNow, time)]
    <3>1. PICK f, m : f = ask'.fixed /\ m = ask'.time OBVIOUS
    <3>2. \A t : EntryAt(t, ask.fixed, ask.time)' = EntryAt(t, f, m)'
      BY <3>1 DEF EntryAt
    <3> QED BY <2>1, <2>3, <3>1, <3>2
  <2> QED BY <1>6, <2>2, <2>4
<1>10. FixedNow' = FixedNow BY <1>1, SameView
<1>11. FreshInv' BY <1>1, <1>6, <1>7, <1>9, <1>10 DEF FreshInv
<1>12. AskInv' BY <1>1, <1>2, <1>8, <1>11 DEF AskInv
<1> QED BY <1>1, <1>6, <1>12, ViewKeepsDay

LEMMA NoAskKeepsDay ==
  ASSUME DayInv, UNCHANGED <<scn, plan, log>>, ask' = NoAsk, NewModel(HomeEntry(scn), {})
  PROVE  DayInv'
<1>1. TypeOK /\ scn \in ScenarioType BY ScenarioAssumption DEF DayInv, TypeOK
<1>2. {} \in SUBSET Orders OBVIOUS
<1>3. TypeOK' /\ SolverInv' BY <1>1, <1>2, HomeInTime, NewModelKeeps
<1>4. AskInv' BY DEF AskInv
<1> QED BY <1>3, <1>4, ViewKeepsDay

\* Whoever arrives in time over a detour with work on the way arrives in time directly.
LEMMA Detour ==
  ASSUME NEW f \in Nat, NEW a \in Nat, NEW b \in Nat, NEW d \in Nat, NEW w \in Nat,
         NEW x \in Nat, NEW y \in Nat, a <= b + w + d, f + b <= x, x + w <= y
  PROVE  f + a <= y + d
OBVIOUS

\* A route that is reached from its entry still is when a visit is appended.
LEMMA ReachGrows ==
  ASSUME NEW s \in ScenarioType, NEW t \in Techs, NEW r, NEW e \in Entry, RouteInv(s, t, r, e),
         ReachedFromEntry(s, r, e), NEW o \in Orders, NEW start \in Nat, NEW leg,
         leg = Travel(s, SpotAfter(s, r, e), s.place[o]), NEW q, DOMAIN q = 1 .. Len(r) + 1,
         \A i \in 1 .. Len(r) : q[i] = r[i],
         q[Len(r) + 1] = VisitOf(s, o, Len(r) + 1, FreeAfter(r, e) + leg, start, leg)
  PROVE  ReachedFromEntry(s, q, e)
<1>1. r \in Seq(VisitType) /\ Len(r) \in Nat /\ DOMAIN r = 1 .. Len(r)
  BY LenProperties DEF RouteInv
<1>2. FreeAfter(r, e) \in Nat /\ SpotAfter(s, r, e) \in Points BY <1>1, AfterTyped
<1>3. e.at \in Points /\ e.free \in Nat BY DEF Entry
<1>4. /\ s.place[o] \in Points /\ leg \in Nat /\ Travel(s, e.at, s.place[o]) \in Nat
  BY <1>2, <1>3, ScenarioFields
<1>5. q[Len(r) + 1].order = o /\ q[Len(r) + 1].arrive = FreeAfter(r, e) + leg
  BY DEF VisitOf
<1>6. ASSUME NEW i \in DOMAIN q
      PROVE  /\ e.free <= q[i].arrive
             /\ NoShortcut(s) => e.free + Travel(s, e.at, s.place[q[i].order]) <= q[i].arrive
  <2>1. CASE i \in 1 .. Len(r) BY <2>1, <1>1 DEF ReachedFromEntry
  <2>2. CASE i = Len(r) + 1
    <3>1. CASE r = <<>>
      <4>1. FreeAfter(r, e) = e.free /\ leg = Travel(s, e.at, s.place[o])
        BY <3>1 DEF FreeAfter, SpotAfter
      <4> QED BY <2>2, <4>1, <1>3, <1>4, <1>5
    <3>2. CASE r # <<>>
      <4> DEFINE v == r[Len(r)]
                 p == v.order
      <4>1. Len(r) \in DOMAIN r BY <3>2, <1>1, EmptySeq
      <4>2. v \in VisitType /\ p \in Orders /\ v.arrive \in Nat /\ v.start \in Nat
        <5>1. v \in VisitType BY <4>1, <1>1
        <5> QED BY <5>1 DEF VisitType
      <4>3. v.arrive <= v.start /\ v.finish = v.start + s.service[p] /\ s.service[p] \in Nat
        <5>1. VisitInTime(s, t, r, Len(r)) BY <4>1 DEF RouteInv
        <5> QED BY <5>1, <4>2, ScenarioFields DEF VisitInTime
      <4>4. /\ e.free <= v.arrive
            /\ NoShortcut(s) => e.free + Travel(s, e.at, s.place[p]) <= v.arrive
        BY <4>1 DEF ReachedFromEntry
      <4>5. FreeAfter(r, e) = v.finish /\ leg = Travel(s, s.place[p], s.place[o])
        BY <3>2 DEF FreeAfter, SpotAfter, Last
      <4>6. Travel(s, e.at, s.place[p]) \in Nat BY <1>3, <4>2, ScenarioFields
      <4> HIDE DEF v, p
      <4>7. e.free <= q[i].arrive BY <2>2, <4>2, <4>3, <4>4, <4>5, <1>3, <1>4, <1>5
      <4>8. ASSUME NoShortcut(s)
            PROVE  e.free + Travel(s, e.at, s.place[o]) <= q[i].arrive
        <5>1. Travel(s, e.at, s.place[o])
                <= Travel(s, e.at, s.place[p]) + s.service[p] + Travel(s, s.place[p], s.place[o])
          BY <4>8, <4>2, <1>3, <1>4 DEF NoShortcut
        <5>2. e.free + Travel(s, e.at, s.place[p]) <= v.arrive BY <4>8, <4>4
        <5>3. v.arrive + s.service[p] <= v.finish BY <4>2, <4>3
        <5>4. q[i].arrive = v.finish + Travel(s, s.place[p], s.place[o]) BY <2>2, <4>5, <1>5
        <5> DEFINE a == Travel(s, e.at, s.place[o])
                   b == Travel(s, e.at, s.place[p])
                   d == Travel(s, s.place[p], s.place[o])
                   w == s.service[p]
        <5>5. a \in Nat /\ b \in Nat /\ d \in Nat /\ w \in Nat
          BY <4>3, <4>5, <4>6, <1>4
        <5>6. e.free \in Nat /\ v.arrive \in Nat /\ v.finish \in Nat
          BY <4>2, <4>5, <1>2, <1>3
        <5>7. /\ a <= b + w + d /\ e.free + b <= v.arrive /\ v.arrive + w <= v.finish
              /\ q[i].arrive = v.finish + d
          BY <5>1, <5>2, <5>3, <5>4
        <5> HIDE DEF a, b, d, w
        <5>8. e.free + a <= v.finish + d BY <5>5, <5>6, <5>7, Detour
        <5> QED BY <5>4, <5>8 DEF a, d
      <4> QED BY <4>7, <4>8, <2>2, <1>5
    <3> QED BY <3>1, <3>2
  <2> QED BY <2>1, <2>2, <1>1
<1> QED BY <1>6 DEF ReachedFromEntry

\* A step of the solver leaves the request as it was.
LEMMA SolverKeepsDay ==
  ASSUME DayInv, ask # NoAsk, UNCHANGED <<scn, entry, plan, log, ask>>, TypeOK', SolverInv',
         \A pool : PlacesIn(pool) => PlacesIn(pool)', done' => waiting' = {}
  PROVE  DayInv'
<1>1. AskInv BY DEF DayInv
<1>2. ASSUME FreshInv PROVE FreshInv'
  <2>1. FixedNow' = FixedNow /\ Open' = Open BY SameView
  <2>2. ask.replan => entry' = [t \in Techs |-> EntryAt(t, ask.fixed, ask.time)]'
    <3>1. PICK f, m : f = ask.fixed /\ m = ask.time OBVIOUS
    <3>2. f = ask'.fixed /\ m = ask'.time BY <3>1
    <3>3. \A t : EntryAt(t, f, m)' = EntryAt(t, f, m) BY SameView
    <3>4. \A t : EntryAt(t, ask.fixed, ask.time) = EntryAt(t, f, m) BY <3>1
    <3>5. \A t : EntryAt(t, ask.fixed, ask.time)' = EntryAt(t, f, m)' BY <3>2 DEF EntryAt
    <3> QED BY <1>2, <3>3, <3>4, <3>5 DEF FreshInv
  <2>3. PlacesIn(Open \ Served(ask.fixed))'
    <3>1. PICK pool : pool = Open \ Served(ask.fixed) OBVIOUS
    <3>2. PlacesIn(pool)' BY <1>2, <3>1 DEF FreshInv
    <3>3. (Open \ Served(ask.fixed))' = pool BY <2>1, <3>1
    <3> QED BY <3>2, <3>3 DEF PlacesIn, Placed
  <2> QED BY <1>2, <2>1, <2>2, <2>3 DEF FreshInv
<1>3. AskInv' BY <1>1, <1>2 DEF AskInv
<1> QED BY <1>3, ViewKeepsDay

LEMMA VisitKeepsDay ==
  ASSUME DayInv, ask # NoAsk, UNCHANGED <<plan, log, ask>>,
         NEW t \in Techs, NEW o \in waiting, NEW wait \in 0 .. Patience,
         Visit(t, o, Earliest(t, o) + wait), ~done
  PROVE  DayInv'
<1> DEFINE start == Earliest(t, o) + wait
           r == routes[t]
<1>1. TypeOK /\ SolverInv /\ scn \in ScenarioType /\ o \in Orders
  BY ScenarioAssumption DEF DayInv, TypeOK
<1>2. /\ scn.from[t] <= entry[t].free /\ RouteInv(scn, t, r, entry[t])
      /\ ReachedFromEntry(scn, r, entry[t])
  BY <1>1 DEF SolverInv
<1>3. scn' = scn /\ entry' = entry /\ dropped' = dropped /\ done' = done BY DEF Visit
<1>4. start \in Nat
  <2>1. entry[t] \in Entry /\ r \in Seq(VisitType) BY <1>1 DEF TypeOK, Entry
  <2>2. Free(t) = FreeAfter(r, entry[t]) /\ Spot(t) = SpotAfter(scn, r, entry[t])
    BY DEF Free, Spot, FreeAfter, SpotAfter
  <2>3. Free(t) \in Nat /\ Spot(t) \in Points BY <1>1, <2>1, <2>2, AfterTyped
  <2>4. LegTo(t, o) \in Nat /\ ReadyAt(scn, o) \in Nat
    BY <1>1, <2>3, ScenarioFields DEF LegTo
  <2>5. Earliest(t, o) \in Nat BY <2>3, <2>4 DEF Earliest, Later
  <2>6. wait \in Nat BY DayAssumption
  <2> QED BY <2>5, <2>6
<1> HIDE DEF start
<1>5. Visit(t, o, start) BY DEF start
<1> DEFINE v == VisitOf(scn, o, Len(r) + 1, Free(t) + LegTo(t, o), start, LegTo(t, o))
<1>6. /\ TypeOK' /\ DOMAIN routes'[t] = 1 .. Len(r) + 1
      /\ \A i \in 1 .. Len(r) : routes'[t][i] = r[i]
      /\ routes'[t][Len(r) + 1] = v
      /\ \A u \in Techs : u # t => routes'[u] = routes[u]
      /\ RouteInv(scn', t, routes'[t], entry'[t])
  <2> HIDE DEF v
  <2> QED BY <1>1, <1>2, <1>4, <1>5, VisitStep DEF v
<1>7. ReachedFromEntry(scn, routes'[t], entry[t])
  <2>1. entry[t] \in Entry BY <1>1 DEF TypeOK, Entry
  <2>2. /\ Free(t) = FreeAfter(r, entry[t])
        /\ LegTo(t, o) = Travel(scn, SpotAfter(scn, r, entry[t]), scn.place[o])
    BY DEF Free, Spot, LegTo, FreeAfter, SpotAfter
  <2>3. PICK q : q = routes'[t] OBVIOUS
  <2>4. PICK leg : leg = LegTo(t, o) OBVIOUS
  <2>5. q[Len(r) + 1] = VisitOf(scn, o, Len(r) + 1, FreeAfter(r, entry[t]) + leg, start, leg)
    BY <1>6, <2>2, <2>3, <2>4
  <2> HIDE DEF v
  <2>6. ReachedFromEntry(scn, q, entry[t])
    BY <1>1, <1>2, <1>4, <1>6, <2>1, <2>2, <2>3, <2>4, <2>5, ReachGrows
  <2> QED BY <2>3, <2>6
<1> HIDE DEF v
<1>8. SolverInv' BY <1>1, <1>3, <1>6, <1>7 DEF SolverInv
<1>9. \A pool : PlacesIn(pool) => PlacesIn(pool)'
  BY <1>1, <1>2, <1>4, <1>5, VisitKeepsPlaces
<1> QED BY <1>3, <1>6, <1>8, <1>9, SolverKeepsDay

LEMMA LeaveOutKeepsDay ==
  ASSUME DayInv, ask # NoAsk, UNCHANGED <<plan, log, ask>>, NEW o \in waiting, LeaveOut(o), ~done
  PROVE  DayInv'
<1>1. /\ waiting' = waiting \ {o} /\ dropped' = dropped \cup {o}
      /\ scn' = scn /\ entry' = entry /\ routes' = routes /\ done' = done
  BY DEF LeaveOut, Drop
<1>2. TypeOK /\ SolverInv BY DEF DayInv
<1>3. TypeOK' BY <1>1, <1>2 DEF TypeOK
<1>4. SolverInv' BY <1>1, <1>2 DEF SolverInv
<1>5. ASSUME NEW pool, PlacesIn(pool) PROVE PlacesIn(pool)'
  <2>1. waiting' \cup dropped' = waiting \cup dropped BY <1>1
  <2>2. waiting' \cap dropped' = {} BY <1>1, <1>5 DEF PlacesIn, Placed
  <2> QED BY <1>1, <1>5, <2>1, <2>2 DEF PlacesIn, Placed
<1> QED BY <1>1, <1>3, <1>4, <1>5, SolverKeepsDay

LEMMA HandOverKeepsDay ==
  ASSUME DayInv, ask # NoAsk, UNCHANGED <<plan, log, ask>>, HandOver
  PROVE  DayInv'
<1>1. /\ waiting = {} /\ done' = TRUE /\ waiting' = waiting /\ dropped' = dropped
      /\ scn' = scn /\ entry' = entry /\ routes' = routes
  BY DEF HandOver
<1>2. TypeOK /\ SolverInv BY DEF DayInv
<1>3. TypeOK' BY <1>1, <1>2 DEF TypeOK
<1>4. SolverInv' BY <1>1, <1>2 DEF SolverInv
<1>5. ASSUME NEW pool, PlacesIn(pool) PROVE PlacesIn(pool)'
  BY <1>1, <1>5 DEF PlacesIn, Placed
<1> QED BY <1>1, <1>3, <1>4, <1>5, SolverKeepsDay

LEMMA SolveKeepsDay == ASSUME DayInv, Solve PROVE DayInv'
<1>1. ask # NoAsk /\ ~done /\ UNCHANGED <<plan, log, ask>> BY DEF Solve
<1>2. CASE HandOver BY <1>1, <1>2, HandOverKeepsDay
<1>3. ASSUME NEW o \in waiting, LeaveOut(o) PROVE DayInv' BY <1>1, <1>3, LeaveOutKeepsDay
<1>4. ASSUME NEW t \in Techs, NEW o \in waiting, NEW wait \in 0 .. Patience,
             Visit(t, o, Earliest(t, o) + wait)
      PROVE  DayInv'
  BY <1>1, <1>4, VisitKeepsDay
<1> QED BY <1>2, <1>3, <1>4 DEF Solve

------------------------------------------------------------------------------
(* The candidate.                                                           *)

\* The frozen visits, then the solver's, numbered on.
LEMMA MergedSays ==
  ASSUME TypeOK, ask \in AskType, NEW t \in Techs
  PROVE  LET m == Merged(t)
             k == Len(ask.fixed[t])
             r == routes[t]
         IN /\ m \in Seq(VisitType) /\ k \in Nat /\ Len(r) \in Nat /\ Len(m) = k + Len(r)
            /\ DOMAIN m = 1 .. k + Len(r)
            /\ \A i \in 1 .. k : m[i] = ask.fixed[t][i]
            /\ \A i \in 1 .. Len(r) : m[k + i] = [r[i] EXCEPT !.seq = @ + k]
<1> DEFINE f == ask.fixed[t]
           r == routes[t]
           after == [i \in DOMAIN r |-> [r[i] EXCEPT !.seq = @ + Len(f)]]
<1>1. f \in Seq(VisitType) BY DEF AskType
<1>2. r \in Seq(VisitType) BY DEF TypeOK
<1>3. Len(f) \in Nat /\ Len(r) \in Nat /\ DOMAIN r = 1 .. Len(r) /\ DOMAIN f = 1 .. Len(f)
  BY <1>1, <1>2, LenProperties
<1>4. \A i \in DOMAIN r : r[i] \in VisitType BY <1>2, <1>3
<1>5. ASSUME NEW i \in DOMAIN r PROVE [r[i] EXCEPT !.seq = @ + Len(f)] \in VisitType
  <2>1. r[i] \in VisitType /\ r[i].seq \in Nat BY <1>4 DEF VisitType
  <2>2. PICK n \in Nat : n = r[i].seq + Len(f) BY <1>3, <2>1
  <2>3. [r[i] EXCEPT !.seq = n] \in VisitType BY <2>1 DEF VisitType
  <2> QED BY <2>2, <2>3
<1>6. after \in [1 .. Len(r) -> VisitType] BY <1>3, <1>5
<1>7. after \in Seq(VisitType) /\ Len(after) = Len(r) BY <1>3, <1>6
<1>8. Merged(t) = f \o after BY DEF Merged
<1>9. \A i \in 1 .. Len(r) : after[i] = [r[i] EXCEPT !.seq = @ + Len(f)] BY <1>3
<1> HIDE DEF f, after, r
<1>10. /\ f \o after \in Seq(VisitType) /\ Len(f \o after) = Len(f) + Len(after)
       /\ \A i \in 1 .. Len(f) + Len(after) :
            (f \o after)[i] = IF i <= Len(f) THEN f[i] ELSE after[i - Len(f)]
  BY <1>1, <1>7, ConcatProperties
<1>11. DOMAIN (f \o after) = 1 .. Len(f) + Len(r) BY <1>7, <1>10, LenProperties
<1>12. \A i \in 1 .. Len(f) : (f \o after)[i] = f[i] BY <1>3, <1>7, <1>10
<1>13. ASSUME NEW i \in 1 .. Len(r) PROVE (f \o after)[Len(f) + i] = after[i]
  <2>1. Len(f) + i \in 1 .. Len(f) + Len(after) /\ ~(Len(f) + i <= Len(f))
        /\ (Len(f) + i) - Len(f) = i
    BY <1>3, <1>7
  <2> QED BY <2>1, <1>10
<1> QED BY <1>3, <1>7, <1>8, <1>9, <1>10, <1>11, <1>12, <1>13 DEF f, r

\* Normalisation keeps everything but the legs and the lateness.
LEMMA NormalSays ==
  ASSUME NEW s \in ScenarioType, NEW r \in Seq(VisitType), NEW e \in Entry, NEW pinned
  PROVE  LET n == Normalized(s, r, e, pinned) IN
           /\ n \in Seq(VisitType) /\ DOMAIN n = DOMAIN r /\ Len(n) = Len(r)
           /\ \A i \in DOMAIN r :
                /\ n[i].order = r[i].order /\ n[i].seq = r[i].seq /\ n[i].arrive = r[i].arrive
                /\ n[i].start = r[i].start /\ n[i].finish = r[i].finish
                /\ n[i].source = r[i].source
                /\ n[i].leg = IF i = 1 /\ pinned THEN r[i].leg
                              ELSE Travel(s, SpotBefore(s, r, i, e), s.place[r[i].order])
                /\ n[i].late = Lateness(s, r[i].order, r[i].finish)
<1> DEFINE leg(i) == IF i = 1 /\ pinned THEN r[i].leg
                     ELSE Travel(s, SpotBefore(s, r, i, e), s.place[r[i].order])
           late(i) == Lateness(s, r[i].order, r[i].finish)
           item(i) == [r[i] EXCEPT !.leg = leg(i), !.late = late(i)]
           n == Normalized(s, r, e, pinned)
<1>1. DOMAIN r = 1 .. Len(r) /\ Len(r) \in Nat BY LenProperties
<1>2. ASSUME NEW i \in DOMAIN r
      PROVE  /\ r[i] \in VisitType /\ leg(i) \in Nat /\ late(i) \in Nat
  <2>1. r[i] \in VisitType BY <1>1
  <2>2. r[i].order \in Orders /\ r[i].finish \in Nat /\ r[i].leg \in Nat BY <2>1 DEF VisitType
  <2>3. s.place[r[i].order] \in Points /\ s.due[r[i].order] \in Nat BY <2>2, ScenarioFields
  <2>4. SpotBefore(s, r, i, e) \in Points
    <3>1. CASE i = 1 BY <3>1 DEF SpotBefore, Entry
    <3>2. CASE i # 1
      <4>1. i - 1 \in 1 .. Len(r) BY <3>2, <1>1
      <4>2. r[i - 1] \in VisitType BY <4>1
      <4>3. r[i - 1].order \in Orders BY <4>2 DEF VisitType
      <4> QED BY <3>2, <4>3, ScenarioFields DEF SpotBefore
    <3> QED BY <3>1, <3>2
  <2>5. Travel(s, SpotBefore(s, r, i, e), s.place[r[i].order]) \in Nat
    BY <2>3, <2>4, ScenarioFields
  <2>6. late(i) \in Nat BY <2>2, <2>3 DEF Lateness, Later
  <2> QED BY <2>1, <2>2, <2>5, <2>6
<1>3. n = [i \in DOMAIN r |-> item(i)] BY DEF Normalized
<1> HIDE DEF leg, late, n
<1>4. ASSUME NEW i \in DOMAIN r
      PROVE  /\ item(i) \in VisitType
             /\ item(i).order = r[i].order /\ item(i).seq = r[i].seq
             /\ item(i).arrive = r[i].arrive /\ item(i).start = r[i].start
             /\ item(i).finish = r[i].finish /\ item(i).source = r[i].source
             /\ item(i).leg = leg(i) /\ item(i).late = late(i)
  BY <1>2 DEF VisitType
<1> HIDE DEF item
<1>5. \A i \in DOMAIN r : n[i] = item(i) BY <1>3
<1>6. n \in [1 .. Len(r) -> VisitType] BY <1>1, <1>3, <1>4
<1>7. n \in Seq(VisitType) /\ DOMAIN n = DOMAIN r /\ Len(n) = Len(r) BY <1>1, <1>6
<1> QED BY <1>4, <1>5, <1>7 DEF leg, late, n

\* Where the verifier lets a route begin is a place and a time.
LEMMA OriginTyped ==
  ASSUME DayInv, ask \in AskType, NEW t \in Techs, NEW r
  PROVE  Origin(t, r) \in Entry /\ DerivedFrom(t, r) \in Entry
<1>1. LogInv(scn, log) /\ scn \in ScenarioType BY ScenarioAssumption DEF DayInv, TypeOK
<1>2. HomeEntry(scn)[t] \in Entry BY <1>1, HomeTyped
<1>3. ask.time \in Nat BY DEF AskType
<1>4. Origin(t, r) \in Entry
  <2>1. CASE Reports(t) # {} /\ ~Pinned(r)
    <3>1. /\ Projection(t).at \in Points /\ Projection(t).free \in Nat
          /\ ProjectionAt(t, ask.time).free \in Nat
      BY <2>1, <1>1, <1>3, ProjectionSays, ProjectionAtSays
    <3> QED BY <2>1, <3>1 DEF Origin, Entry
  <2>2. CASE ~(Reports(t) # {} /\ ~Pinned(r)) BY <2>2, <1>2 DEF Origin
  <2> QED BY <2>1, <2>2
<1> QED BY <1>2, <1>4 DEF DerivedFrom

\* The visits of the candidate are the frozen ones and the solver's.
LEMMA CandidateSays ==
  ASSUME DayInv, ask # NoAsk, NEW t \in Techs
  PROVE  LET c == Candidate[t]
             m == Merged(t)
             f == ask.fixed[t]
             k == Len(f)
             r == routes[t]
         IN /\ c \in Seq(VisitType) /\ k \in Nat /\ Len(r) \in Nat
            /\ Len(c) = k + Len(r) /\ DOMAIN c = 1 .. k + Len(r) /\ DOMAIN m = DOMAIN c
            /\ \A i \in DOMAIN c :
                 /\ m[i] \in VisitType
                 /\ c[i].order = m[i].order /\ c[i].seq = m[i].seq /\ c[i].arrive = m[i].arrive
                 /\ c[i].start = m[i].start /\ c[i].finish = m[i].finish
                 /\ c[i].source = m[i].source
                 /\ c[i].leg = IF i = 1 /\ Pinned(m) THEN m[i].leg
                               ELSE Travel(scn, SpotBefore(scn, m, i, DerivedFrom(t, m)),
                                           scn.place[m[i].order])
                 /\ c[i].late = Lateness(scn, m[i].order, m[i].finish)
            /\ \A i \in 1 .. k : m[i] = f[i]
            /\ \A i \in 1 .. Len(r) :
                 /\ r[i] \in VisitType
                 /\ m[k + i].order = r[i].order /\ m[k + i].seq = r[i].seq + k
                 /\ m[k + i].arrive = r[i].arrive /\ m[k + i].start = r[i].start
                 /\ m[k + i].finish = r[i].finish /\ m[k + i].leg = r[i].leg
                 /\ m[k + i].late = r[i].late
<1> DEFINE m == Merged(t)
           f == ask.fixed[t]
           k == Len(f)
           r == routes[t]
           c == Candidate[t]
<1>1. ask \in AskType /\ TypeOK /\ scn \in ScenarioType
  BY ScenarioAssumption DEF DayInv, AskInv, TypeOK
<1>2. /\ m \in Seq(VisitType) /\ k \in Nat /\ Len(r) \in Nat /\ Len(m) = k + Len(r)
      /\ DOMAIN m = 1 .. k + Len(r)
      /\ \A i \in 1 .. k : m[i] = f[i]
      /\ \A i \in 1 .. Len(r) : m[k + i] = [r[i] EXCEPT !.seq = @ + k]
  BY <1>1, MergedSays
<1>3. r \in Seq(VisitType) BY <1>1 DEF TypeOK
<1>4. c = Normalized(scn, m, DerivedFrom(t, m), Pinned(m)) BY DEF Candidate
<1>5. DerivedFrom(t, m) \in Entry BY <1>1, OriginTyped
<1> HIDE DEF m, c, r, k
<1>6. /\ c \in Seq(VisitType) /\ DOMAIN c = DOMAIN m /\ Len(c) = Len(m)
      /\ \A i \in DOMAIN m :
           /\ c[i].order = m[i].order /\ c[i].seq = m[i].seq /\ c[i].arrive = m[i].arrive
           /\ c[i].start = m[i].start /\ c[i].finish = m[i].finish
           /\ c[i].source = m[i].source
           /\ c[i].leg = IF i = 1 /\ Pinned(m) THEN m[i].leg
                         ELSE Travel(scn, SpotBefore(scn, m, i, DerivedFrom(t, m)),
                                     scn.place[m[i].order])
           /\ c[i].late = Lateness(scn, m[i].order, m[i].finish)
  BY <1>1, <1>2, <1>4, <1>5, NormalSays
<1>7. \A i \in DOMAIN m : m[i] \in VisitType BY <1>2
<1>8. ASSUME NEW i \in 1 .. Len(r)
      PROVE  /\ r[i] \in VisitType
             /\ m[k + i].order = r[i].order /\ m[k + i].seq = r[i].seq + k
             /\ m[k + i].arrive = r[i].arrive /\ m[k + i].start = r[i].start
             /\ m[k + i].finish = r[i].finish /\ m[k + i].leg = r[i].leg
             /\ m[k + i].late = r[i].late
  <2>1. r[i] \in VisitType BY <1>3
  <2>2. m[k + i] = [r[i] EXCEPT !.seq = @ + k] BY <1>2
  <2> QED BY <2>1, <2>2 DEF VisitType
<1> QED BY <1>2, <1>6, <1>7, <1>8 DEF m, c, r, k

\* In a candidate that no report overtook, what began is what was frozen, in the
\* first place of its route.
LEMMA CandidateOrders ==
  ASSUME DayInv, ask # NoAsk, Current
  PROVE  /\ FreshInv
         /\ ~ask.replan => log = <<>>
         /\ \A t \in Techs : Len(ask.fixed[t]) \in {0, 1}
         /\ \A t \in Techs : \A i \in DOMAIN Candidate[t] :
              LET o == Candidate[t][i].order IN
                /\ o \in Open
                /\ i <= Len(ask.fixed[t]) => o \in Served(ask.fixed) /\ Started(o)
                /\ i > Len(ask.fixed[t]) =>
                     o \in Open \ (Served(ask.fixed) \cup waiting \cup dropped) /\ ~Began(o)
<1>1. AskInv /\ LogInv(scn, log) BY DEF DayInv
<1>2. /\ ask \in AskType /\ FreshInv
      /\ ~ask.replan => ask.seen = 0 /\ ask.fixed = Nothing
  BY <1>1 DEF AskInv, Current
<1>3. ~ask.replan => log = <<>> BY <1>1, <1>2, EmptySeq DEF Current, LogInv
<1>4. ask.replan => ask.fixed = FixedNow BY <1>2 DEF FreshInv
<1>5. \A o : ~ask.replan => ~Began(o)
  BY <1>3, EmptySeq DEF Began, EventOf
<1>6. ASSUME NEW t \in Techs
      PROVE  Len(ask.fixed[t]) \in {0, 1}
  <2>1. CASE ask.fixed[t] = <<>> BY <2>1, EmptySeq
  <2>2. CASE ask.fixed[t] # <<>>
    <3>1. ask.replan BY <2>2, <1>2 DEF Nothing
    <3> QED BY <3>1, <2>2, <1>4, FixedSays
  <2> QED BY <2>1, <2>2
<1>7. ASSUME NEW o \in Served(ask.fixed) PROVE o \in Open /\ Started(o)
  <2>1. ask.replan
    <3>1. Served(Nothing) = {} BY EmptySeq DEF Served, Nothing, OrdersOf
    <3> QED BY <3>1, <1>2, <1>7
  <2> QED BY <2>1, <1>4, <1>7, FixedSays
<1>8. ASSUME NEW o, o \notin Served(ask.fixed), ~Completed(o) PROVE ~Began(o)
  <2>1. CASE ~ask.replan BY <2>1, <1>5
  <2>2. CASE ask.replan BY <2>2, <1>4, <1>8, FixedSays DEF Started
  <2> QED BY <2>1, <2>2
<1>9. ASSUME NEW t \in Techs, NEW i \in DOMAIN Candidate[t]
      PROVE  LET o == Candidate[t][i].order IN
               /\ o \in Open
               /\ i <= Len(ask.fixed[t]) => o \in Served(ask.fixed) /\ Started(o)
               /\ i > Len(ask.fixed[t]) =>
                    o \in Open \ (Served(ask.fixed) \cup waiting \cup dropped) /\ ~Began(o)
  <2> DEFINE k == Len(ask.fixed[t])
             o == Candidate[t][i].order
  <2>1. k \in Nat /\ Len(routes[t]) \in Nat /\ i \in 1 .. k + Len(routes[t])
        /\ o = Merged(t)[i].order
    BY <1>2, CandidateSays DEF DayInv
  <2>2. CASE i <= k
    <3>1. i \in 1 .. k BY <2>1, <2>2
    <3>2. Merged(t)[i] = ask.fixed[t][i] BY <3>1, <1>2, CandidateSays
    <3>3. ask.fixed[t] \in Seq(VisitType) BY <1>2 DEF AskType
    <3>4. i \in DOMAIN ask.fixed[t] BY <3>1, <3>3, LenProperties
    <3>5. o \in OrdersOf(ask.fixed[t]) BY <2>1, <3>2, <3>4 DEF OrdersOf
    <3>6. o \in Served(ask.fixed) BY <3>5 DEF Served
    <3> HIDE DEF o, k
    <3>7. o \in Open /\ Started(o) BY <3>6, <1>7
    <3> QED BY <2>1, <2>2, <3>6, <3>7 DEF o, k
  <2>3. CASE i > k
    <3> DEFINE j == i - k
    <3> HIDE DEF k
    <3>1. j \in 1 .. Len(routes[t]) /\ i = k + j BY <2>1, <2>3
    <3> USE DEF k
    <3> HIDE DEF j
    <3>2. Merged(t)[k + j].order = routes[t][j].order BY <3>1, CandidateSays
    <3>3. routes[t] \in Seq(VisitType) BY DEF DayInv, TypeOK
    <3>4. j \in DOMAIN routes[t] BY <3>1, <3>3, LenProperties
    <3>5. PlacesIn(Open \ Served(ask.fixed)) BY <1>2 DEF FreshInv
    <3>6. o \in (Open \ Served(ask.fixed)) \ (waiting \cup dropped)
      BY <2>1, <3>1, <3>2, <3>4, <3>5 DEF PlacesIn, Placed
    <3> HIDE DEF o, k
    <3>7. ~Began(o) BY <3>6, <1>8 DEF Open
    <3> QED BY <2>1, <2>3, <3>6, <3>7 DEF o, k
  <2> QED BY <2>1, <2>2, <2>3
<1> QED BY <1>2, <1>3, <1>6, <1>9

LEMMA PublishKeepsDay == ASSUME DayInv, Publish PROVE DayInv'
<1> DEFINE c == Candidate
           P == [routes |-> c, dropped |-> dropped]
<1>1. /\ ask # NoAsk /\ done /\ Current /\ Verified(c, dropped)
      /\ plan' = P /\ ask' = NoAsk /\ NewModel(HomeEntry(scn), {})
      /\ scn' = scn /\ log' = log
  BY DEF Publish
<1>2. TypeOK /\ scn \in ScenarioType /\ LogInv(scn, log) /\ BookedInv(log, plan)
  BY ScenarioAssumption DEF DayInv, TypeOK
<1>3. TypeOK' /\ SolverInv'
  <2>1. {} \in SUBSET Orders OBVIOUS
  <2> QED BY <2>1, <1>1, <1>2, HomeInTime, NewModelKeeps
<1>4. c \in [Techs -> Seq(VisitType)]
  <2>1. c = [t \in Techs |-> c[t]] BY DEF Candidate
  <2>2. \A t \in Techs : c[t] \in Seq(VisitType) BY <1>1, CandidateSays
  <2> QED BY <2>1, <2>2
<1>5. \A t \in Techs : \A i \in DOMAIN c[t] : c[t][i].order \in Open
  BY <1>1, CandidateOrders
<1>6. \A t, u \in Techs : \A i \in DOMAIN c[t], j \in DOMAIN c[u] :
        c[t][i].order = c[u][j].order => t = u /\ i = j
  BY <1>1 DEF Verified, Covers
<1> HIDE DEF c
<1>7. VisitsInv(scn, c)
  <2>1. \A t \in Techs : \A i \in DOMAIN c[t] : c[t][i].seq = i /\ VisitStands(scn, t, c[t][i])
    BY <1>1 DEF Verified, RouteStands
  <2>2. \A t \in Techs : \A i \in DOMAIN c[t] : c[t][i].order \in scn.active
    BY <1>5 DEF Open
  <2> QED BY <1>4, <1>6, <2>1, <2>2 DEF VisitsInv
<1>8. P \in [routes : [Techs -> Seq(VisitType)], dropped : SUBSET Orders] /\ P # NoPlan
  BY <1>2, <1>4, DayAssumption DEF TypeOK
<1>9. BookedInv(log, P)
  <2> SUFFICES ASSUME NEW n \in DOMAIN log, InHand(log, n) PROVE Booked(P, log[n])
    BY <1>8 DEF BookedInv
  <2> DEFINE o == log[n].order
  <2>1. Started(o) /\ StartOf(o) = log[n] /\ o \in scn.active
    BY <1>2, Words DEF InHand, LogInv
  <2>2. o \in Open BY <2>1 DEF Open, Started
  <2>3. StartedKept(c) BY <1>1, <2>1, <2>2 DEF Verified
  <2>4. PICK i \in DOMAIN c[log[n].tech] :
          LET v == c[log[n].tech][i] IN
            v.order = o /\ v.start = log[n].start /\ v.finish = log[n].finish
              /\ v.source = log[n].source
    BY <2>1, <2>2, <2>3 DEF StartedKept
  <2>5. P.routes = c OBVIOUS
  <2> QED BY <2>4, <2>5 DEF Booked
<1>10. \A t \in Techs : \A i \in DOMAIN c[t] : i > 1 => ~BeganIn(log, c[t][i].order)
  <2> SUFFICES ASSUME NEW t \in Techs, NEW i \in DOMAIN c[t], i > 1
               PROVE  ~BeganIn(log, c[t][i].order)
    OBVIOUS
  <2>1. i \in Nat BY <1>4, LenProperties
  <2>2. i > Len(ask.fixed[t])
    <3>1. PICK k \in {0, 1} : k = Len(ask.fixed[t]) BY <1>1, CandidateOrders
    <3>2. k = 0 \/ k = 1 BY <3>1
    <3>3. i > k BY <2>1, <3>2
    <3> QED BY <3>1, <3>3
  <2>3. ~Began(c[t][i].order) BY <2>2, <1>1, CandidateOrders DEF c
  <2> QED BY <2>3, <1>2, Words
<1>11. \A t \in Techs : \A i \in DOMAIN c[t] : ~CompletedIn(log, c[t][i].order)
  BY <1>5, <1>2, Words DEF Open
<1>12. \A n \in DOMAIN log : log[n].act = "start" \/ CompletedIn(log, log[n].order)
  <2>1. \A n \in DOMAIN log : log[n].act \in {"start", "complete"}
    BY <1>2, EventFields DEF LogInv
  <2> QED BY <2>1 DEF CompletedIn
<1>13. ProgressInv(log, c)
  <2>1. ASSUME NEW t \in Techs, NEW i \in DOMAIN c[t], NEW n \in DOMAIN log,
               log[n].order = c[t][i].order
        PROVE  log[n].tech = t
    <3>1. InHand(log, n)
      <4>1. ~CompletedIn(log, log[n].order) BY <2>1, <1>11
      <4> QED BY <4>1, <1>12 DEF InHand
    <3>2. Booked(P, log[n]) BY <3>1, <1>9 DEF BookedInv
    <3>3. P.routes = c OBVIOUS
    <3>4. PICK j \in DOMAIN c[log[n].tech] : c[log[n].tech][j].order = log[n].order
      BY <3>2, <3>3 DEF Booked
    <3>5. log[n].tech \in Techs BY <1>2, EventFields DEF LogInv
    <3> QED BY <2>1, <3>4, <3>5, <1>6
  <2>2. ASSUME NEW t \in Techs, NEW i \in DOMAIN c[t], NEW j \in DOMAIN c[t], i < j
        PROVE  ~BeganIn(log, c[t][j].order)
    <3>1. i \in 1 .. Len(c[t]) /\ j \in 1 .. Len(c[t]) BY <1>4, LenProperties
    <3>2. j > 1 BY <3>1, <2>2
    <3> QED BY <3>2, <1>10
  <2>3. ASSUME NEW t \in Techs, NEW i \in DOMAIN c[t], NEW j \in DOMAIN c[t], NEW n \in DOMAIN log,
               i < j
        PROVE  log[n].order # c[t][j].order
    <3>1. ~BeganIn(log, c[t][j].order) /\ ~CompletedIn(log, c[t][j].order)
      BY <2>2, <2>3, <1>11
    <3> QED BY <3>1, <1>12 DEF BeganIn
  <2>4. ASSUME NEW t \in Techs, NEW j \in DOMAIN c[t], NEW n \in DOMAIN log,
               log[n].order = c[t][j].order
        PROVE  log[n].act # "complete"
    BY <2>4, <1>11 DEF CompletedIn
  <2> QED BY <2>1, <2>2, <2>3, <2>4 DEF ProgressInv
<1>14. (plan # NoPlan => /\ plan \in [routes : [Techs -> Seq(VisitType)], dropped : SUBSET Orders]
                         /\ VisitsInv(scn, plan.routes) /\ ProgressInv(log, plan.routes))'
  <2>1. P.routes = c OBVIOUS
  <2> QED BY <2>1, <1>1, <1>7, <1>8, <1>13 DEF c
<1>15. BookedInv(log, plan)' BY <1>1, <1>9 DEF c
<1>16. WorkIsReachable'
  <2>1. WorkIsReachable BY DEF DayInv
  <2> QED BY <2>1, <1>1 DEF WorkIsReachable
<1>17. AskInv' BY <1>1 DEF AskInv
<1>18. LogInv(scn, log)' BY <1>1, <1>2
<1> QED BY <1>3, <1>14, <1>15, <1>16, <1>17, <1>18 DEF DayInv

\* Every step keeps the invariant.
LEMMA DayNextKeepsDay == ASSUME DayInv, [DayNext]_dayVars PROVE DayInv'
<1>1. CASE UNCHANGED dayVars
  <2>1. /\ scn' = scn /\ plan' = plan /\ log' = log /\ ask' = ask /\ entry' = entry
        /\ waiting' = waiting /\ routes' = routes /\ dropped' = dropped /\ done' = done
    BY <1>1 DEF dayVars, solving
  <2>2. TypeOK' /\ SolverInv' BY <2>1 DEF DayInv, TypeOK, SolverInv
  <2>3. CASE ask = NoAsk
    <3>1. AskInv' BY <2>1, <2>3 DEF AskInv
    <3> QED BY <2>1, <2>2, <3>1, ViewKeepsDay
  <2>4. CASE ask # NoAsk /\ (done => waiting = {})
    <3>1. \A pool : PlacesIn(pool) => PlacesIn(pool)' BY <2>1 DEF PlacesIn, Placed
    <3> QED BY <2>1, <2>2, <2>4, <3>1, SolverKeepsDay
  <2>5. CASE ask # NoAsk /\ ~(done => waiting = {})
    <3>1. ask.seen # Len(log) BY <2>5 DEF DayInv, AskInv, FreshInv
    <3>2. AskInv' BY <2>1, <3>1 DEF DayInv, AskInv
    <3> QED BY <2>1, <2>2, <3>2, ViewKeepsDay
  <2> QED BY <2>3, <2>4, <2>5
<1>2. CASE AskForPlan BY <1>2, AskForPlanKeepsDay
<1>3. ASSUME NEW time \in Times, AskForReplan(time) PROVE DayInv'
  <2>1. time \in Nat BY DayAssumption
  <2> QED BY <2>1, <1>3, AskForReplanKeepsDay
<1>4. CASE Solve BY <1>4, SolveKeepsDay
<1>5. CASE GiveUp BY <1>5, NoAskKeepsDay DEF GiveUp
<1>6. CASE Publish BY <1>6, PublishKeepsDay
<1>7. CASE Reject BY <1>7, NoAskKeepsDay DEF Reject
<1>8. ASSUME NEW t \in Techs, NEW i \in 1 .. Cardinality(Orders), NEW at \in 0 .. Horizon,
             NEW est \in Estimates, Start(t, i, at, est)
      PROVE  DayInv'
  <2>1. at \in Nat /\ est \in Nat BY DayAssumption
  <2> QED BY <2>1, <1>8, StartKeepsDay
<1>9. ASSUME NEW o \in Orders, NEW at \in 0 .. Horizon, Complete(o, at) PROVE DayInv'
  <2>1. at \in Nat BY DayAssumption
  <2> QED BY <2>1, <1>9, CompleteKeepsDay
<1> QED BY <1>1, <1>2, <1>3, <1>4, <1>5, <1>6, <1>7, <1>8, <1>9 DEF DayNext

------------------------------------------------------------------------------
(* What holds of the day.                                                   *)

\* The inductive invariant holds.
THEOREM DayInvHolds == DaySpec => []DayInv
<1>1. DayInit => DayInv BY InitDay
<1>2. DayInv /\ [DayNext]_dayVars => DayInv' BY DayNextKeepsDay
<1> QED BY <1>1, <1>2, PTL DEF DaySpec

\* A set whose members are equal has one at most.
LEMMA AtMostOne ==
  ASSUME NEW S, \A m, n \in S : m = n
  PROVE  Cardinality(S) <= 1
<1>1. CASE S = {} BY <1>1, FS_EmptySet
<1>2. CASE S # {}
  <2>1. PICK k \in S : TRUE BY <1>2
  <2>2. S = {k} BY <2>1
  <2> QED BY <2>2, FS_Singleton
<1> QED BY <1>1, <1>2

\* A service in hand stays booked in the active plan, whatever was replanned while
\* it lasted, and nobody is in two services.
THEOREM BookingIsKept == DaySpec => []BookingKept
<1>1. ASSUME DayInv PROVE BookingKept
  <2>1. /\ TypeOK /\ LogInv(scn, log) /\ BookedInv(log, plan) /\ AskInv
        /\ plan # NoPlan =>
             plan \in [routes : [Techs -> Seq(VisitType)], dropped : SUBSET Orders]
    BY <1>1 DEF DayInv
  <2>2. \A n \in DOMAIN log : n \in Nat \ {0} BY <2>1, EventFields DEF LogInv
  <2>3. ASSUME NEW o \in Orders, Completed(o)
        PROVE  Began(o) /\ EventOf(o, "start") < EventOf(o, "complete")
    <3>1. PICK n \in DOMAIN log : log[n].order = o /\ log[n].act = "complete"
      BY <2>1, <2>3, Words DEF CompletedIn
    <3>2. PICK m \in DOMAIN log : m < n /\ log[m].act = "start" /\ log[m].order = o
      BY <2>1, <3>1 DEF LogInv
    <3>3. EventOf(o, "start") = m /\ EventOf(o, "complete") = n
      BY <2>1, <3>1, <3>2, EventFound
    <3> QED BY <2>2, <3>2, <3>3 DEF Began
  <2>4. ASSUME NEW o \in Orders, NEW act
        PROVE  Cardinality({n \in DOMAIN log : log[n].order = o /\ log[n].act = act}) <= 1
    <3>1. \A m, n \in {n \in DOMAIN log : log[n].order = o /\ log[n].act = act} : m = n
      BY <2>1 DEF LogInv
    <3> QED BY <3>1, AtMostOne
  <2>5. DayTypeOK
    <3>1. ask = NoAsk \/ ask.seen <= Len(log) BY <2>1 DEF AskInv
    <3>2. log \in Seq(EventType) BY <2>1 DEF LogInv
    <3>3. \A o \in Orders, act \in {"start", "complete"} :
            Cardinality({n \in DOMAIN log : log[n].order = o /\ log[n].act = act}) <= 1
      BY <2>4
    <3> QED BY <2>1, <2>3, <3>1, <3>2, <3>3 DEF DayTypeOK
  <2>6. ASSUME NEW o \in Orders, Started(o)
        PROVE  \E n \in DOMAIN log : /\ InHand(log, n) /\ log[n].order = o /\ StartOf(o) = log[n]
                                     /\ Booked(plan, log[n]) /\ plan # NoPlan
    <3>1. PICK n \in DOMAIN log : InHand(log, n) /\ log[n].order = o BY <2>1, <2>6, Words
    <3>2. StartOf(o) = log[n] BY <2>1, <3>1, Words DEF InHand
    <3> QED BY <2>1, <3>1, <3>2 DEF BookedInv
  <2>7. ASSUME NEW o \in Orders, NEW p \in Orders, Started(o), Started(p),
               StartOf(o).tech = StartOf(p).tech
        PROVE  o = p
    <3>1. PICK m \in DOMAIN log : InHand(log, m) /\ log[m].order = o /\ StartOf(o) = log[m]
      BY <2>6, <2>7
    <3>2. PICK n \in DOMAIN log : InHand(log, n) /\ log[n].order = p /\ StartOf(p) = log[n]
      BY <2>6, <2>7
    <3>3. m <= n /\ n <= m BY <2>1, <2>7, <3>1, <3>2 DEF LogInv
    <3>4. m = n BY <2>2, <3>3
    <3> QED BY <3>1, <3>2, <3>4
  <2>8. ASSUME NEW o \in Orders, Started(o)
        PROVE  /\ plan # NoPlan
               /\ \E i \in DOMAIN plan.routes[StartOf(o).tech] :
                    LET v == plan.routes[StartOf(o).tech][i] IN
                      <<v.order, v.start, v.finish, v.source>>
                        = <<o, StartOf(o).start, StartOf(o).finish, StartOf(o).source>>
    BY <2>6, <2>8 DEF Booked
  <2> QED BY <2>5, <2>7, <2>8 DEF BookingKept, OneServiceAtATime
<1> QED BY <1>1, DayInvHolds, PTL

\* No service begins before its technician can be there from the one before.
THEOREM WorkIsReachableHolds == DaySpec => []WorkIsReachable
<1>1. DayInv => WorkIsReachable BY DEF DayInv
<1> QED BY <1>1, DayInvHolds, PTL

\* Whoever reported began what they reported last.
LEMMA LatestBegan ==
  ASSUME DayInv, NEW t \in Techs, Reports(t) # {}
  PROVE  Began(Latest(t).order)
<1>1. LogInv(scn, log) BY DEF DayInv
<1>2. PICK m \in DOMAIN log : log[m].tech = t /\ Latest(t) = log[m] BY <1>1, LatestFound
<1>3. log[m].act \in {"start", "complete"} BY <1>1, EventFields DEF LogInv
<1>4. BeganIn(log, log[m].order)
  <2>1. CASE log[m].act = "start" BY <2>1 DEF BeganIn
  <2>2. CASE log[m].act = "complete" BY <2>2, <1>1 DEF LogInv, BeganIn
  <2> QED BY <1>3, <2>1, <2>2
<1> QED BY <1>1, <1>2, <1>4, Words

\* What a candidate has yet to begin is what the verifier compares with the
\* projection.
LEMMA AheadIsFuture ==
  ASSUME DayInv, ask # NoAsk, Current, ask.replan, NEW t \in Techs, Reports(t) # {},
         NEW i \in DOMAIN Candidate[t]
  PROVE  /\ Began(Candidate[t][i].order) <=> i <= Len(ask.fixed[t])
         /\ Candidate[t][i].order # Latest(t).order <=> ~Began(Candidate[t][i].order)
<1> DEFINE o == Candidate[t][i].order
           k == Len(ask.fixed[t])
<1>1. /\ FreshInv /\ k \in {0, 1} /\ (i <= k => Started(o)) /\ (i > k => ~Began(o))
  BY CandidateOrders
<1>2. /\ k \in Nat /\ Len(routes[t]) \in Nat /\ i \in 1 .. k + Len(routes[t])
      /\ o = Merged(t)[i].order
      /\ \A j \in 1 .. k : Merged(t)[j] = ask.fixed[t][j]
  BY CandidateSays
<1> HIDE DEF o, k
<1>3. Began(o) <=> i <= k
  <2>1. i <= k \/ i > k BY <1>2
  <2> QED BY <1>1, <2>1 DEF Started
<1>4. Began(Latest(t).order) BY LatestBegan
<1>5. ASSUME i <= k PROVE o = Latest(t).order
  <2>1. k = 1 /\ i = 1 BY <1>1, <1>2, <1>5
  <2>2. o = ask.fixed[t][1].order BY <1>2, <2>1
  <2>3. ask.fixed[t] # <<>> BY <2>1, EmptySeq DEF k
  <2>4. ask.fixed = FixedNow BY <1>1 DEF FreshInv
  <2> QED BY <2>2, <2>3, <2>4, FixedSays
<1>6. o # Latest(t).order <=> ~Began(o) BY <1>3, <1>4, <1>5
<1> QED BY <1>3, <1>6 DEF o, k

\* A published plan sends nobody on before the work in hand lets them.
THEOREM PlanFollowsWorkHolds == DaySpec => PlanFollowsWork
<1>1. ASSUME DayInv, [DayNext]_dayVars PROVE [PlanFollows]_dayVars
  <2> SUFFICES ASSUME plan' # plan PROVE PlanFollows
    BY DEF PlanFollows
  <2>1. Publish
    BY <1>1 DEF DayNext, dayVars, AskForPlan, AskForReplan, Solve, GiveUp, Reject, Start, Complete
  <2> DEFINE c == Candidate
  <2>2. /\ ask # NoAsk /\ Current /\ Verified(c, dropped) /\ plan'.routes = c
    BY <2>1 DEF Publish
  <2>3. /\ LogInv(scn, log) /\ scn \in ScenarioType /\ ask \in AskType
    BY <1>1, <2>2, ScenarioAssumption DEF DayInv, TypeOK, AskInv
  <2>4. ASSUME NEW t \in Techs, NEW i \in DOMAIN c[t] PROVE ~Completed(c[t][i].order)
    <3>1. c[t][i].order \in Open BY <1>1, <2>2, CandidateOrders
    <3> QED BY <3>1 DEF Open
  <2>5. ASSUME NEW t \in Techs, Reports(t) # {}, NEW ahead,
               ahead = {i \in DOMAIN c[t] : ~Began(c[t][i].order)}, ahead # {}
        PROVE  LET v == c[t][CHOOSE i \in ahead : \A j \in ahead : i <= j]
                   e == Latest(t)
                   left == IF e.act = "complete" THEN e.at
                           ELSE e.at + (IF e.est = 0 THEN scn.service[e.order] ELSE e.est)
               IN left + Travel(scn, scn.place[e.order], scn.place[v.order]) <= v.start
    <3> DEFINE i == CHOOSE i \in ahead : \A j \in ahead : i <= j
               v == c[t][i]
               e == Latest(t)
               left == IF e.act = "complete" THEN e.at
                       ELSE e.at + (IF e.est = 0 THEN scn.service[e.order] ELSE e.est)
               p == ProjectionAt(t, ask.time)
    <3>1. c[t] \in Seq(VisitType) BY <1>1, <2>2, CandidateSays
    <3>2. i \in ahead
      <4>1. ahead \in SUBSET Nat
        <5>1. DOMAIN c[t] = 1 .. Len(c[t]) BY <3>1, LenProperties
        <5> HIDE DEF c
        <5> QED BY <2>5, <5>1
      <4>2. \E x \in ahead : \A j \in ahead : x <= j BY <2>5, <4>1, HasMin
      <4> QED BY <4>2
    <3>3. i \in DOMAIN c[t] /\ v \in VisitType
      <4>1. i \in DOMAIN c[t] BY <2>5, <3>2
      <4> HIDE DEF i, c
      <4>2. DOMAIN c[t] = 1 .. Len(c[t]) BY <3>1, LenProperties
      <4> QED BY <3>1, <4>1, <4>2
    <3>4. ask.replan
      <4>1. ~ask.replan => log = <<>> BY <1>1, <2>2, CandidateOrders
      <4> QED BY <4>1, <2>5, EmptySeq DEF Reports
    <3>5. /\ e \in EventType /\ e.order \in Orders /\ e.act \in {"start", "complete"}
          /\ p.order = e.order /\ p.at = scn.place[e.order]
          /\ left = Projection(t).free /\ left <= p.free /\ left \in Nat /\ p.free \in Nat
      <4>1. ask.time \in Nat BY <2>3 DEF AskType
      <4>2. /\ e \in EventType /\ Projection(t).order = e.order
            /\ Projection(t).at = scn.place[e.order] /\ Projection(t).free \in Nat
            /\ Projection(t).free = IF e.act = "start" THEN AvailableAfter(e) ELSE e.at
        BY <2>3, <2>5, ProjectionSays
      <4>3. e.order \in Orders /\ e.act \in {"start", "complete"} BY <4>2 DEF EventType
      <4>4. /\ p.order = Projection(t).order /\ p.at = Projection(t).at /\ p.free \in Nat
            /\ Projection(t).free <= p.free
        BY <2>3, <2>5, <4>1, ProjectionAtSays
      <4>5. left = Projection(t).free BY <4>2, <4>3 DEF AvailableAfter
      <4> QED BY <4>2, <4>3, <4>4, <4>5
    <3> HIDE DEF left
    <3>6. ahead = {j \in DOMAIN c[t] : c[t][j].order # p.order}
      <4>1. \A j \in DOMAIN c[t] : c[t][j].order # p.order <=> ~Began(c[t][j].order)
        BY <1>1, <2>2, <2>5, <3>4, <3>5, AheadIsFuture
      <4> HIDE DEF c
      <4> QED BY <2>5, <4>1
    <3>7. p.free + Travel(scn, p.at, scn.place[v.order]) <= v.arrive
      <4>1. FollowsProjection(c) BY <2>2, <3>4 DEF Verified
      <4> HIDE DEF c
      <4> QED BY <2>5, <3>6, <4>1 DEF FollowsProjection
    <3>8. v.arrive <= v.start
      <4>1. VisitStands(scn, t, v) BY <2>2, <3>3 DEF Verified, RouteStands
      <4> QED BY <4>1 DEF VisitStands
    <3>9. /\ v.arrive \in Nat /\ v.start \in Nat
          /\ Travel(scn, scn.place[e.order], scn.place[v.order]) \in Nat
      <4>1. v.arrive \in Nat /\ v.start \in Nat /\ v.order \in Orders BY <3>3 DEF VisitType
      <4> QED BY <4>1, <3>5, <2>3, ScenarioFields
    <3> HIDE DEF v, e, p, i, c
    <3>10. left + Travel(scn, scn.place[e.order], scn.place[v.order]) <= v.start
      BY <3>5, <3>7, <3>8, <3>9
    <3> QED BY <3>10 DEF v, e, i, left
  <2> HIDE DEF c
  <2> QED BY <2>2, <2>4, <2>5 DEF PlanFollows
<1> QED BY <1>1, DayInvHolds, PTL DEF DaySpec, PlanFollowsWork

------------------------------------------------------------------------------
(* A solved replan passes the verifier.                                     *)

\* Where the technicians enter a replan that no report overtook.
LEMMA ReplanEntry ==
  ASSUME DayInv, ask # NoAsk, Current, ask.replan, NEW t \in Techs
  PROVE  /\ ask \in AskType /\ ask.fixed = FixedNow /\ ask.compared
         /\ entry[t] \in Entry /\ scn.from[t] <= entry[t].free /\ ask.time <= entry[t].free
         /\ Reports(t) # {} => /\ entry[t].at = Projection(t).at
                               /\ ProjectionAt(t, ask.time).free <= entry[t].free
         /\ Reports(t) = {} => entry[t].at = scn.home[t]
<1>1. ask \in AskType /\ FreshInv BY DEF DayInv, AskInv, Current
<1>2. ask.fixed = FixedNow /\ entry[t] = EntryAt(t, ask.fixed, ask.time) /\ ask.compared
  BY <1>1 DEF FreshInv
<1>3. PICK time \in Nat : time = ask.time BY <1>1 DEF AskType
<1>4. entry[t] = EntryAt(t, FixedNow, time) BY <1>2, <1>3
<1> QED BY <1>1, <1>2, <1>3, <1>4, EntrySays

\* The frozen visit of a technician is the service in hand, as it was planned.
LEMMA FixedVisit ==
  ASSUME DayInv, ask # NoAsk, Current, ask.replan, NEW t \in Techs, Len(ask.fixed[t]) # 0
  PROVE  \E i \in DOMAIN plan.routes[t], n \in DOMAIN log :
           LET v == plan.routes[t][i] IN
             /\ plan # NoPlan /\ v \in VisitType /\ VisitStands(scn, t, v) /\ v.seq = i
             /\ ask.fixed[t] = <<[v EXCEPT !.seq = 1]>> /\ Len(ask.fixed[t]) = 1
             /\ InHand(log, n) /\ log[n].tech = t /\ log[n].order = v.order
             /\ Reports(t) # {} /\ Latest(t) = log[n]
             /\ v.start = log[n].start /\ v.finish = log[n].finish /\ v.source = log[n].source
<1>1. ask.fixed = FixedNow BY ReplanEntry
<1>2. ask.fixed[t] # <<>>
  <2>1. Len(<<>>) = 0 OBVIOUS
  <2> QED BY <2>1
<1>3. plan # NoPlan /\ ask.fixed[t] = Frozen(t) BY <1>1, <1>2 DEF FixedNow, Nothing
<1>4. /\ VisitsInv(scn, plan.routes) /\ BookedInv(log, plan) BY <1>3 DEF DayInv
<1>5. PICK i \in DOMAIN plan.routes[t], n \in DOMAIN log :
        /\ InHand(log, n) /\ log[n].tech = t /\ log[n].order = plan.routes[t][i].order
        /\ Reports(t) # {} /\ Latest(t) = log[n]
        /\ Frozen(t) = <<[plan.routes[t][i] EXCEPT !.seq = 1]>>
  BY <1>2, <1>3, FrozenSays
<1> DEFINE v == plan.routes[t][i]
<1>6. v \in VisitType /\ VisitStands(scn, t, v) /\ v.seq = i
  <2>1. plan.routes[t] \in Seq(VisitType) BY <1>4 DEF VisitsInv
  <2>2. v \in VisitType BY <2>1, LenProperties, ElementOfSeq
  <2> QED BY <2>2, <1>4 DEF VisitsInv
<1>7. PICK j \in DOMAIN plan.routes[t] :
        LET u == plan.routes[t][j] IN
          /\ u.order = log[n].order /\ u.start = log[n].start /\ u.finish = log[n].finish
          /\ u.source = log[n].source
  BY <1>4, <1>5 DEF BookedInv, Booked
<1>8. j = i BY <1>4, <1>5, <1>7 DEF VisitsInv
<1>9. Len(<<[v EXCEPT !.seq = 1]>>) = 1 OBVIOUS
<1> QED BY <1>3, <1>5, <1>6, <1>7, <1>8, <1>9

\* A visit that the solver added waits for the planning time and for the way from
\* where the last report leaves the technician.
LEMMA NewVisitsWait ==
  ASSUME DayInv, ask # NoAsk, Current, ask.replan, NoShortcut(scn), NEW t \in Techs,
         NEW i \in DOMAIN Candidate[t], i > Len(ask.fixed[t])
  PROVE  LET v == Candidate[t][i] IN
           /\ ask.time <= v.start
           /\ Reports(t) # {} =>
                ProjectionAt(t, ask.time).free
                  + Travel(scn, Projection(t).at, scn.place[v.order]) <= v.arrive
<1> DEFINE k == Len(ask.fixed[t])
           r == routes[t]
           e == entry[t]
           v == Candidate[t][i]
           p == ProjectionAt(t, ask.time)
<1>1. /\ TypeOK /\ scn \in ScenarioType /\ RouteInv(scn, t, r, e) /\ ReachedFromEntry(scn, r, e)
      /\ LogInv(scn, log)
  BY ScenarioAssumption DEF DayInv, TypeOK, SolverInv
<1>2. /\ k \in Nat /\ Len(r) \in Nat /\ i \in 1 .. k + Len(r)
      /\ v.order = Merged(t)[i].order /\ v.arrive = Merged(t)[i].arrive
      /\ v.start = Merged(t)[i].start
  BY CandidateSays
<1>3. PICK j \in 1 .. Len(r) : i = k + j
  <2>1. i > k OBVIOUS
  <2> HIDE DEF k, r
  <2>2. i - k \in 1 .. Len(r) /\ i = k + (i - k) BY <1>2, <2>1
  <2> QED BY <2>2
<1>4. /\ r[j] \in VisitType /\ v.order = r[j].order /\ v.arrive = r[j].arrive
      /\ v.start = r[j].start
  BY <1>2, <1>3, CandidateSays
<1>5. j \in DOMAIN r
  <2>1. r \in Seq(VisitType) BY <1>1 DEF TypeOK
  <2> QED BY <2>1, LenProperties
<1>6. e.free <= v.arrive /\ e.free + Travel(scn, e.at, scn.place[v.order]) <= v.arrive
  BY <1>1, <1>4, <1>5 DEF ReachedFromEntry
<1>7. v.arrive <= v.start BY <1>1, <1>4, <1>5 DEF RouteInv, VisitInTime
<1>8. /\ v.arrive \in Nat /\ v.start \in Nat /\ v.order \in Orders BY <1>4 DEF VisitType
<1>9. /\ ask \in AskType /\ e \in Entry /\ ask.time <= e.free
      /\ Reports(t) # {} => e.at = Projection(t).at /\ p.free <= e.free
  BY ReplanEntry
<1>10. /\ e.free \in Nat /\ e.at \in Points /\ ask.time \in Nat
       /\ Travel(scn, e.at, scn.place[v.order]) \in Nat
  BY <1>1, <1>8, <1>9, ScenarioFields DEF Entry, AskType
<1>11. Reports(t) # {} => p.free \in Nat BY <1>1, <1>10, ProjectionAtSays
<1> HIDE DEF v, e, p
<1>12. ask.time <= v.start BY <1>6, <1>7, <1>8, <1>9, <1>10
<1>13. Reports(t) # {} => p.free + Travel(scn, Projection(t).at, scn.place[v.order]) <= v.arrive
  BY <1>6, <1>8, <1>9, <1>10, <1>11
<1> QED BY <1>12, <1>13 DEF v, p

LEMMA SolvedCovers ==
  ASSUME DayInv, ask # NoAsk, Current, ask.replan, done
  PROVE  Covers(Open, Candidate, dropped)
<1> DEFINE c == Candidate
<1>1. /\ LogInv(scn, log) /\ TypeOK /\ ask \in AskType BY DEF DayInv, AskInv
<1>2. /\ FreshInv /\ waiting = {} /\ PlacesIn(Open \ Served(ask.fixed)) /\ ask.fixed = FixedNow
  <2>1. FreshInv BY CandidateOrders
  <2> QED BY <2>1 DEF FreshInv
<1>3. ASSUME NEW t \in Techs
      PROVE  LET k == Len(ask.fixed[t]) IN
               /\ k \in Nat /\ Len(routes[t]) \in Nat /\ DOMAIN c[t] = 1 .. k + Len(routes[t])
               /\ DOMAIN ask.fixed[t] = 1 .. k /\ DOMAIN routes[t] = 1 .. Len(routes[t])
               /\ \A i \in 1 .. k : c[t][i].order = ask.fixed[t][i].order
               /\ \A i \in 1 .. Len(routes[t]) : c[t][k + i].order = routes[t][i].order
  <2> DEFINE k == Len(ask.fixed[t])
             n == Len(routes[t])
             m == Merged(t)
  <2>1. /\ k \in Nat /\ n \in Nat /\ DOMAIN c[t] = 1 .. k + n
        /\ \A i \in 1 .. k + n : c[t][i].order = m[i].order
        /\ \A i \in 1 .. k : m[i] = ask.fixed[t][i]
        /\ \A i \in 1 .. n : m[k + i].order = routes[t][i].order
    BY CandidateSays
  <2>2. /\ DOMAIN ask.fixed[t] = 1 .. k /\ DOMAIN routes[t] = 1 .. n
    <3>1. ask.fixed[t] \in Seq(VisitType) /\ routes[t] \in Seq(VisitType)
      BY <1>1 DEF AskType, TypeOK
    <3> QED BY <3>1, LenProperties
  <2> HIDE DEF c, m, k, n
  <2>3. \A i \in 1 .. k : c[t][i].order = ask.fixed[t][i].order BY <2>1
  <2>4. \A i \in 1 .. n : k + i \in 1 .. k + n BY <2>1
  <2>5. \A i \in 1 .. n : c[t][k + i].order = routes[t][i].order BY <2>1, <2>4
  <2> QED BY <2>1, <2>2, <2>3, <2>5 DEF k, n
<1>4. ASSUME NEW t \in Techs, NEW i \in DOMAIN c[t]
      PROVE  LET k == Len(ask.fixed[t])
                 o == c[t][i].order
             IN /\ o \in Open /\ (i <= k \/ i > k)
                /\ i <= k => o \in Served(ask.fixed) /\ i = 1 /\ k = 1 /\ Started(o)
                             /\ Reports(t) # {} /\ o = Latest(t).order
                /\ i > k => /\ o \in (Open \ Served(ask.fixed)) \ (waiting \cup dropped)
                            /\ \E j \in DOMAIN routes[t] : i = k + j /\ routes[t][j].order = o
  <2> DEFINE k == Len(ask.fixed[t])
             o == c[t][i].order
             n == Len(routes[t])
  <2>1. /\ o \in Open /\ k \in {0, 1}
        /\ i <= k => o \in Served(ask.fixed) /\ Started(o)
        /\ i > k => o \in Open \ (Served(ask.fixed) \cup waiting \cup dropped)
    BY CandidateOrders
  <2>2. /\ k \in Nat /\ n \in Nat /\ i \in 1 .. k + n
        /\ DOMAIN routes[t] = 1 .. n
        /\ \A j \in 1 .. k : c[t][j].order = ask.fixed[t][j].order
        /\ \A j \in 1 .. n : c[t][k + j].order = routes[t][j].order
    BY <1>3
  <2>3. k = 1 => Reports(t) # {} /\ ask.fixed[t][1].order = Latest(t).order
    <3>1. Len(<<>>) = 0 OBVIOUS
    <3>2. k = 1 => ask.fixed[t] # <<>> BY <3>1
    <3> QED BY <3>2, <1>2, FixedSays
  <2> HIDE DEF o, k, n, c
  <2>4. ASSUME i <= k PROVE i = 1 /\ k = 1 BY <2>1, <2>2, <2>4
  <2>5. ASSUME i <= k PROVE Reports(t) # {} /\ o = Latest(t).order
    BY <2>2, <2>3, <2>4, <2>5 DEF o
  <2>6. ASSUME i > k PROVE \E j \in DOMAIN routes[t] : i = k + j /\ routes[t][j].order = o
    <3>1. i - k \in 1 .. n /\ i = k + (i - k) BY <2>2, <2>6
    <3> QED BY <3>1, <2>2 DEF o
  <2>7. i <= k \/ i > k BY <2>2
  <2> QED BY <2>1, <2>4, <2>5, <2>6, <2>7 DEF o, k
<1> HIDE DEF c
<1>5. ASSUME NEW t \in Techs, NEW u \in Techs, NEW i \in DOMAIN c[t], NEW j \in DOMAIN c[u],
             c[t][i].order = c[u][j].order
      PROVE  t = u /\ i = j
  <2> DEFINE k == Len(ask.fixed[t])
             l == Len(ask.fixed[u])
             o == c[t][i].order
  <2>1. (i <= k \/ i > k) /\ (j <= l \/ j > l) BY <1>4
  <2>2. i <= k <=> o \in Served(ask.fixed) BY <1>4, <2>1
  <2>3. j <= l <=> o \in Served(ask.fixed) BY <1>4, <1>5, <2>1
  <2>4. CASE i <= k
    <3>1. /\ i = 1 /\ Reports(t) # {} /\ o = Latest(t).order
          /\ j = 1 /\ Reports(u) # {} /\ o = Latest(u).order /\ Started(o)
      BY <1>4, <1>5, <2>2, <2>3, <2>4
    <3>2. PICK m \in DOMAIN log : log[m].tech = t /\ Latest(t) = log[m] BY <1>1, <3>1, LatestFound
    <3>3. PICK n \in DOMAIN log : log[n].tech = u /\ Latest(u) = log[n] BY <1>1, <3>1, LatestFound
    <3>4. ~CompletedIn(log, o) BY <1>1, <3>1, Words DEF Started
    <3>5. log[m].act \in {"start", "complete"} /\ log[n].act \in {"start", "complete"}
      BY <1>1, EventFields DEF LogInv
    <3>6. log[m].act = log[n].act BY <3>1, <3>2, <3>3, <3>4, <3>5 DEF CompletedIn
    <3>7. m = n
      <4>1. log[m].order = log[n].order BY <3>1, <3>2, <3>3
      <4> QED BY <1>1, <3>6, <4>1 DEF LogInv
    <3> QED BY <3>1, <3>2, <3>3, <3>7
  <2>5. CASE i > k
    <3>1. i > k /\ j > l
      <4>1. ~(j <= l) BY <1>4, <2>3, <2>5
      <4> QED BY <2>1, <2>5, <4>1
    <3>2. PICK x \in DOMAIN routes[t] : i = k + x /\ routes[t][x].order = o BY <1>4, <3>1
    <3>3. PICK y \in DOMAIN routes[u] : j = l + y /\ routes[u][y].order = o
      BY <1>4, <1>5, <3>1
    <3>4. t = u /\ x = y BY <1>2, <3>2, <3>3 DEF PlacesIn, Placed
    <3> QED BY <3>2, <3>3, <3>4
  <2> QED BY <2>1, <2>4, <2>5
<1>6. ASSUME NEW o \in Served(c) PROVE o \in Open /\ o \notin dropped
  <2>1. PICK t \in Techs : o \in OrdersOf(c[t]) BY <1>6 DEF Served
  <2>2. PICK i \in DOMAIN c[t] : o = c[t][i].order BY <2>1 DEF OrdersOf
  <2>3. dropped \subseteq Open \ Served(ask.fixed) BY <1>2 DEF PlacesIn, Placed
  <2>4. i <= Len(ask.fixed[t]) \/ i > Len(ask.fixed[t]) BY <1>4
  <2> QED BY <1>4, <2>2, <2>3, <2>4
<1>7. ASSUME NEW o \in Open, o \notin dropped PROVE o \in Served(c)
  <2>1. CASE o \in Served(ask.fixed)
    <3>1. PICK t \in Techs : o \in OrdersOf(ask.fixed[t]) BY <2>1 DEF Served
    <3>2. PICK i \in DOMAIN ask.fixed[t] : o = ask.fixed[t][i].order BY <3>1 DEF OrdersOf
    <3>3. i \in DOMAIN c[t] /\ c[t][i].order = o
      <4> DEFINE k == Len(ask.fixed[t])
                 n == Len(routes[t])
      <4>1. k \in Nat /\ n \in Nat /\ DOMAIN c[t] = 1 .. k + n /\ i \in 1 .. k
            /\ c[t][i].order = o
        BY <1>3, <3>2
      <4> HIDE DEF k, n
      <4> QED BY <4>1
    <3>4. o \in OrdersOf(c[t]) BY <3>3 DEF OrdersOf
    <3> QED BY <3>4 DEF Served
  <2>2. CASE o \notin Served(ask.fixed)
    <3>1. o \in (Open \ Served(ask.fixed)) \ (waiting \cup dropped) BY <1>2, <1>7, <2>2
    <3>2. PICK t \in Techs : \E i \in DOMAIN routes[t] : routes[t][i].order = o
      BY <1>2, <3>1 DEF PlacesIn, Placed
    <3>3. PICK i \in DOMAIN routes[t] : routes[t][i].order = o BY <3>2
    <3> DEFINE k == Len(ask.fixed[t])
               n == Len(routes[t])
    <3>4. /\ k \in Nat /\ n \in Nat /\ DOMAIN c[t] = 1 .. k + n /\ i \in 1 .. n
          /\ c[t][k + i].order = o
      BY <1>3, <3>3
    <3> HIDE DEF k, n
    <3>5. k + i \in DOMAIN c[t] BY <3>4
    <3>6. o \in OrdersOf(c[t]) BY <3>4, <3>5 DEF OrdersOf
    <3> QED BY <3>6 DEF Served
  <2> QED BY <2>1, <2>2
<1>8. dropped \subseteq Open BY <1>2 DEF PlacesIn, Placed
<1>9. Served(c) \cap dropped = {} /\ Served(c) \cup dropped = Open BY <1>6, <1>7, <1>8
<1> QED BY <1>5, <1>9 DEF Covers, c

LEMMA SolvedRoute ==
  ASSUME DayInv, ask # NoAsk, Current, ask.replan, SolvedReturns, SolvedLegs, NEW t \in Techs
  PROVE  LET c == Candidate[t] IN
           /\ RouteStands(scn, t, c, Origin(t, c), Pinned(c))
           /\ DerivedStands(scn, c, DerivedFrom(t, c), Pinned(c))
<1> DEFINE c == Candidate[t]
           m == Merged(t)
           f == ask.fixed[t]
           k == Len(f)
           r == routes[t]
           e == entry[t]
           n == Len(r)
<1>1. /\ TypeOK /\ scn \in ScenarioType /\ RouteInv(scn, t, r, e) /\ LogInv(scn, log)
  BY ScenarioAssumption DEF DayInv, TypeOK, SolverInv
<1>2. /\ c \in Seq(VisitType) /\ k \in Nat /\ n \in Nat
      /\ Len(c) = k + n /\ DOMAIN c = 1 .. k + n /\ DOMAIN m = DOMAIN c
      /\ \A i \in DOMAIN c :
           /\ m[i] \in VisitType
           /\ c[i].order = m[i].order /\ c[i].seq = m[i].seq /\ c[i].arrive = m[i].arrive
           /\ c[i].start = m[i].start /\ c[i].finish = m[i].finish
           /\ c[i].leg = IF i = 1 /\ Pinned(m) THEN m[i].leg
                         ELSE Travel(scn, SpotBefore(scn, m, i, DerivedFrom(t, m)),
                                     scn.place[m[i].order])
           /\ c[i].late = Lateness(scn, m[i].order, m[i].finish)
      /\ \A i \in 1 .. k : m[i] = f[i]
      /\ \A i \in 1 .. n :
           /\ r[i] \in VisitType
           /\ m[k + i].order = r[i].order /\ m[k + i].seq = r[i].seq + k
           /\ m[k + i].arrive = r[i].arrive /\ m[k + i].start = r[i].start
           /\ m[k + i].finish = r[i].finish /\ m[k + i].leg = r[i].leg
           /\ m[k + i].late = r[i].late
  BY CandidateSays
<1>3. m \in Seq(VisitType) /\ Len(m) = k + n
  <2>1. ask \in AskType BY ReplanEntry
  <2> QED BY <1>1, <2>1, MergedSays
<1>4. r \in Seq(VisitType) /\ DOMAIN r = 1 .. n BY <1>1, LenProperties DEF TypeOK
<1>5. \A i \in DOMAIN r : /\ r[i].seq = i /\ VisitInTime(scn, t, r, i)
                          /\ r[i].finish <= Last(r).finish
  BY <1>1 DEF RouteInv
<1>6. m # <<>> => ReturnStands(scn, t, Last(m)) BY DEF SolvedReturns
<1>7. \A i \in 2 .. Len(m) : LegStands(scn, m[i - 1], m[i]) BY DEF SolvedLegs
<1>8. k # 0 =>
        \E v \in VisitType :
          /\ VisitStands(scn, t, v) /\ f = <<[v EXCEPT !.seq = 1]>> /\ k = 1
          /\ Reports(t) # {} /\ Latest(t).order = v.order
  BY FixedVisit
<1>9. \A i \in DOMAIN c : i > k => c[i].order \notin Served(ask.fixed)
  BY CandidateOrders
<1>10. r # <<>> => EntryStands(scn, r[1], e) BY <1>1 DEF RouteInv
<1>11. /\ e \in Entry /\ scn.from[t] <= e.free
       /\ Reports(t) # {} => e.at = Projection(t).at /\ ProjectionAt(t, ask.time).free <= e.free
       /\ Reports(t) = {} => e.at = scn.home[t]
       /\ Reports(t) # {} => ProjectionAt(t, ask.time).free \in Nat
  <2>1. ask \in AskType BY ReplanEntry
  <2>2. ask.time \in Nat BY <2>1 DEF AskType
  <2> QED BY <1>1, <2>2, ReplanEntry, ProjectionAtSays
<1> HIDE DEF c, m, k, r, e, n
<1>12. (c = <<>> <=> m = <<>>) /\ (c # <<>> <=> k + n > 0)
  BY <1>2, <1>3, EmptySeq
<1>13. Pinned(c) <=> Pinned(m)
  <2>1. CASE c = <<>> BY <2>1, <1>12 DEF Pinned
  <2>2. CASE c # <<>>
    <3>1. 1 \in DOMAIN c BY <2>2, <1>2, <1>12
    <3>2. c[1].order = m[1].order BY <3>1, <1>2
    <3> QED BY <2>2, <3>2, <1>12 DEF Pinned
  <2> QED BY <2>1, <2>2
<1>14. Origin(t, c) = Origin(t, m) /\ DerivedFrom(t, c) = Origin(t, m)
       /\ DerivedFrom(t, m) = Origin(t, m)
  BY <1>13 DEF Origin, DerivedFrom
<1>15. ASSUME NEW i \in DOMAIN c, i <= k
       PROVE  c[i].seq = i /\ VisitStands(scn, t, c[i])
  <2>1. k # 0 BY <1>2, <1>15
  <2>2. PICK v \in VisitType :
          /\ VisitStands(scn, t, v) /\ f = <<[v EXCEPT !.seq = 1]>> /\ k = 1
    BY <1>8, <2>1
  <2>3. i = 1 BY <1>2, <1>15, <2>2
  <2>4. m[1] = f[1] BY <1>2, <2>2
  <2>5. m[1] = [v EXCEPT !.seq = 1] BY <2>2, <2>4
  <2>6. /\ m[1].order = v.order /\ m[1].seq = 1 /\ m[1].arrive = v.arrive
        /\ m[1].start = v.start /\ m[1].finish = v.finish
    BY <2>2, <2>5 DEF VisitType
  <2>7. /\ c[1].order = v.order /\ c[1].seq = 1 /\ c[1].arrive = v.arrive
        /\ c[1].start = v.start /\ c[1].finish = v.finish
        /\ c[1].late = Lateness(scn, v.order, v.finish)
    BY <1>2, <1>15, <2>3, <2>6
  <2> QED BY <2>2, <2>3, <2>7 DEF VisitStands
<1>16. ASSUME NEW i \in DOMAIN c, i > k
       PROVE  \E j \in 1 .. n : i = k + j
  <2>1. i - k \in 1 .. n /\ i = k + (i - k) BY <1>2, <1>16
  <2> QED BY <2>1
<1>17. ASSUME NEW i \in DOMAIN c, i > k
       PROVE  c[i].seq = i /\ VisitStands(scn, t, c[i])
  <2>1. PICK j \in 1 .. n : i = k + j BY <1>16, <1>17
  <2>2. /\ c[i].order = r[j].order /\ c[i].seq = r[j].seq + k /\ c[i].arrive = r[j].arrive
        /\ c[i].start = r[j].start /\ c[i].finish = r[j].finish
        /\ c[i].late = Lateness(scn, r[j].order, r[j].finish)
    BY <1>2, <2>1
  <2>3. r[j].seq = j /\ VisitInTime(scn, t, r, j) /\ r[j].finish <= Last(r).finish
    BY <1>4, <1>5, <2>1
  <2>4. r[j].finish <= LatestReturn(scn, t)
    <3>1. n \in 1 .. n /\ m # <<>> BY <1>2, <1>12, <2>1
    <3>2. Last(m) = m[k + n] /\ Last(r) = r[n] BY <1>3 DEF Last, n
    <3>3. Last(m).finish = Last(r).finish /\ Last(m).order = Last(r).order /\ Last(r) \in VisitType
      BY <1>2, <3>1, <3>2
    <3>4. Last(r).finish + Travel(scn, scn.place[Last(r).order], scn.home[t])
            <= LatestReturn(scn, t)
      BY <1>6, <3>1, <3>3 DEF ReturnStands
    <3>5. Last(r).finish \in Nat /\ Last(r).order \in Orders BY <3>3 DEF VisitType
    <3>6. /\ Travel(scn, scn.place[Last(r).order], scn.home[t]) \in Nat
          /\ LatestReturn(scn, t) \in Nat
      BY <1>1, <3>5, ScenarioFields
    <3>7. r[j].finish \in Nat
      <4>1. r[j] \in VisitType BY <1>2, <2>1
      <4> QED BY <4>1 DEF VisitType
    <3> QED BY <2>3, <3>4, <3>5, <3>6, <3>7
  <2>5. c[i].seq = i BY <1>2, <2>1, <2>2, <2>3
  <2>6. VisitStands(scn, t, c[i]) BY <2>2, <2>3, <2>4 DEF VisitStands, VisitInTime
  <2> QED BY <2>5, <2>6
<1>18. \A i \in DOMAIN c : c[i].seq = i /\ VisitStands(scn, t, c[i])
  <2>1. \A i \in DOMAIN c : i <= k \/ i > k BY <1>2
  <2> QED BY <2>1, <1>15, <1>17
<1>19. ASSUME NEW i \in DOMAIN c, i > 1 PROVE LegStands(scn, c[i - 1], c[i])
  <2>1. i \in 2 .. Len(m) /\ i - 1 \in DOMAIN c /\ i # 1 BY <1>2, <1>3, <1>19
  <2>2. LegStands(scn, m[i - 1], m[i]) BY <1>7, <2>1
  <2>3. /\ c[i].order = m[i].order /\ c[i].arrive = m[i].arrive /\ c[i].start = m[i].start
        /\ c[i - 1].order = m[i - 1].order /\ c[i - 1].finish = m[i - 1].finish
        /\ c[i].leg = Travel(scn, scn.place[m[i - 1].order], scn.place[m[i].order])
    BY <1>2, <2>1 DEF SpotBefore
  <2> QED BY <2>2, <2>3 DEF LegStands
<1>20. ASSUME c # <<>> PROVE ReturnStands(scn, t, Last(c))
  <2>1. Last(c) = c[k + n] /\ Last(m) = m[k + n] /\ k + n \in DOMAIN c
    BY <1>2, <1>3, <1>12, <1>20 DEF Last
  <2>2. Last(c).finish = Last(m).finish /\ Last(c).order = Last(m).order BY <1>2, <2>1
  <2> QED BY <1>6, <1>12, <1>20, <2>2 DEF ReturnStands
<1>21. ASSUME c # <<>> PROVE Pinned(c) \/ EntryStands(scn, c[1], Origin(t, c))
  <2>1. 1 \in DOMAIN c BY <1>2, <1>12, <1>21
  <2>2. CASE k # 0
    <3>1. PICK v \in VisitType : f = <<[v EXCEPT !.seq = 1]>> /\ k = 1 BY <1>8, <2>2
    <3>2. c[1].order = f[1].order BY <1>2, <2>1, <3>1
    <3>3. 1 \in DOMAIN f BY <3>1
    <3>4. c[1].order \in OrdersOf(ask.fixed[t]) BY <3>2, <3>3 DEF OrdersOf
    <3> QED BY <1>21, <3>4 DEF Pinned
  <2>3. CASE k = 0
    <3> DEFINE p == ProjectionAt(t, ask.time)
               g == Origin(t, c)
    <3>1. c[1].order \notin Served(ask.fixed) BY <1>2, <1>9, <2>1, <2>3
    <3>2. ~Pinned(c) /\ ~Pinned(m)
      BY <1>13, <3>1 DEF Pinned, Served
    <3>3. g = IF Reports(t) # {} THEN [at |-> Projection(t).at, free |-> p.free]
              ELSE HomeEntry(scn)[t]
      BY <3>2 DEF Origin
    <3>4. g.at = e.at /\ g.free <= e.free /\ g.free \in Nat
      <4>1. CASE Reports(t) # {} BY <3>3, <4>1, <1>11
      <4>2. CASE Reports(t) = {}
        <5>1. g.at = scn.home[t] /\ g.free = scn.from[t] BY <3>3, <4>2 DEF HomeEntry
        <5>2. scn.from[t] \in Nat BY <1>1, ScenarioFields
        <5> QED BY <4>2, <5>1, <5>2, <1>11
      <4> QED BY <4>1, <4>2
    <3>5. 1 \in 1 .. n /\ k + 1 = 1 /\ r # <<>>
      <4>1. 1 \in 1 .. n /\ k + 1 = 1 BY <1>2, <2>1, <2>3
      <4>2. 1 \in DOMAIN r BY <4>1, <1>4
      <4>3. 1 \notin DOMAIN <<>> OBVIOUS
      <4> QED BY <4>1, <4>2, <4>3
    <3>6. /\ m[k + 1].order = r[1].order /\ m[k + 1].arrive = r[1].arrive /\ r[1] \in VisitType
      BY <1>2, <3>5
    <3>7. c[1].order = r[1].order /\ c[1].arrive = r[1].arrive
      BY <1>2, <2>1, <3>5, <3>6
    <3>8. c[1].leg = Travel(scn, g.at, scn.place[c[1].order])
      <4>1. SpotBefore(scn, m, 1, DerivedFrom(t, m)) = Origin(t, c).at
        BY <1>14 DEF SpotBefore
      <4> QED BY <1>2, <2>1, <3>2, <4>1
    <3>9. r[1].leg = Travel(scn, e.at, scn.place[r[1].order]) /\ e.free + r[1].leg <= r[1].arrive
      BY <1>10, <3>5 DEF EntryStands
    <3>10. c[1].leg = r[1].leg BY <3>4, <3>7, <3>8, <3>9
    <3>11. r[1].leg \in Nat /\ r[1].arrive \in Nat BY <3>6 DEF VisitType
    <3>12. e.free \in Nat BY <1>11 DEF Entry
    <3> HIDE DEF g
    <3>13. g.free + c[1].leg <= c[1].arrive BY <3>4, <3>7, <3>9, <3>10, <3>11, <3>12
    <3> QED BY <3>8, <3>13 DEF EntryStands, g
  <2> QED BY <2>2, <2>3
<1>22. RouteStands(scn, t, c, Origin(t, c), Pinned(c))
  BY <1>18, <1>19, <1>20, <1>21 DEF RouteStands
<1>23. DerivedStands(scn, c, DerivedFrom(t, c), Pinned(c))
  <2> DEFINE d == DerivedFrom(t, c)
             pinned == Pinned(c)
  <2>1. ASSUME NEW i \in DOMAIN c
        PROVE  [c[i] EXCEPT !.leg = IF i = 1 /\ pinned THEN c[i].leg
                                    ELSE Travel(scn, SpotBefore(scn, c, i, d),
                                                scn.place[c[i].order]),
                            !.late = Lateness(scn, c[i].order, c[i].finish)] = c[i]
    <3>1. c[i] \in VisitType BY <1>2, ElementOfSeq
    <3>2. c[i].late = Lateness(scn, c[i].order, c[i].finish) BY <1>2
    <3>3. ~(i = 1 /\ pinned) =>
            c[i].leg = Travel(scn, SpotBefore(scn, c, i, d), scn.place[c[i].order])
      <4>1. SpotBefore(scn, c, i, d) = SpotBefore(scn, m, i, DerivedFrom(t, m))
        <5>1. CASE i = 1 BY <5>1, <1>14 DEF SpotBefore
        <5>2. CASE i # 1
          <6>1. i - 1 \in DOMAIN c BY <1>2, <5>2
          <6> QED BY <1>2, <5>2, <6>1 DEF SpotBefore
        <5> QED BY <5>1, <5>2
      <4> HIDE DEF d
      <4> QED BY <1>2, <1>13, <4>1
    <3> HIDE DEF d, pinned
    <3> QED BY <3>1, <3>2, <3>3 DEF VisitType
  <2> HIDE DEF d, pinned
  <2>2. Normalized(scn, c, d, pinned) = [i \in DOMAIN c |-> c[i]] BY <2>1 DEF Normalized
  <2>3. c = [i \in DOMAIN c |-> c[i]] BY <1>2
  <2> QED BY <2>2, <2>3 DEF DerivedStands, d, pinned
<1> QED BY <1>22, <1>23 DEF c

LEMMA SolvedStarted ==
  ASSUME DayInv, ask # NoAsk, Current, ask.replan, NoShortcut(scn)
  PROVE  /\ StartedKept(Candidate) /\ FollowsStarted(Candidate)
         /\ FollowsProjection(Candidate) /\ AfterCutoff(Candidate)
<1> DEFINE c == Candidate
<1>1. /\ LogInv(scn, log) /\ BookedInv(log, plan) /\ ask.fixed = FixedNow
      /\ plan # NoPlan => VisitsInv(scn, plan.routes)
  <2>1. FreshInv BY CandidateOrders
  <2> QED BY <2>1 DEF DayInv, FreshInv
<1>2. ASSUME NEW t \in Techs, NEW i \in DOMAIN c[t]
      PROVE  /\ Len(ask.fixed[t]) \in {0, 1} /\ i \in Nat /\ 1 <= i
             /\ c[t][i].order = Merged(t)[i].order /\ c[t][i].seq = Merged(t)[i].seq
  <2> DEFINE k == Len(ask.fixed[t])
             n == Len(routes[t])
  <2>1. /\ k \in Nat /\ n \in Nat /\ i \in 1 .. k + n
        /\ c[t][i].order = Merged(t)[i].order /\ c[t][i].seq = Merged(t)[i].seq
    BY CandidateSays
  <2>2. k \in {0, 1} BY CandidateOrders
  <2> HIDE DEF c, k, n
  <2>3. i \in Nat /\ 1 <= i BY <2>1
  <2> QED BY <2>1, <2>2, <2>3 DEF k
<1>3. ASSUME NEW t \in Techs, NEW i \in DOMAIN c[t], i > Len(ask.fixed[t])
      PROVE  /\ ask.time <= c[t][i].start
             /\ Reports(t) # {} =>
                  ProjectionAt(t, ask.time).free
                    + Travel(scn, Projection(t).at, scn.place[c[t][i].order]) <= c[t][i].arrive
  BY <1>3, NewVisitsWait
\* What is in hand is the frozen visit, in the first place of its route.
<1>4. ASSUME NEW o, Started(o)
      PROVE  LET t == StartOf(o).tech IN
               /\ t \in Techs /\ Reports(t) # {} /\ Latest(t) = StartOf(o)
               /\ Len(ask.fixed[t]) = 1 /\ 1 \in DOMAIN c[t]
               /\ c[t][1].order = o /\ c[t][1].start = StartOf(o).start
               /\ c[t][1].finish = StartOf(o).finish /\ c[t][1].source = StartOf(o).source
               /\ PlannedSeq(o) \in Nat /\ 1 <= PlannedSeq(o)
  <2>1. PICK n \in DOMAIN log : InHand(log, n) /\ log[n].order = o BY <1>1, <1>4, Words
  <2> DEFINE t == log[n].tech
             k == Len(ask.fixed[t])
  <2>2. StartOf(o) = log[n] BY <1>1, <2>1, Words DEF InHand
  <2>3. t \in Techs BY <1>1, EventFields DEF LogInv
  <2>4. plan # NoPlan /\ Booked(plan, log[n]) /\ VisitsInv(scn, plan.routes)
    BY <1>1, <2>1 DEF BookedInv
  <2> HIDE DEF t
  <2>5. PICK i \in DOMAIN plan.routes[t] : plan.routes[t][i].order = o
    BY <2>1, <2>4 DEF Booked, t
  <2>6. ask.fixed[t] # <<>>
    <3>1. PICK j \in DOMAIN plan.routes[t] : Frozen(t) = <<[plan.routes[t][j] EXCEPT !.seq = 1]>>
      BY <1>4, <2>3, <2>4, <2>5, FrozenSays
    <3>2. ask.fixed[t] = <<[plan.routes[t][j] EXCEPT !.seq = 1]>>
      BY <1>1, <2>3, <2>4, <3>1 DEF FixedNow
    <3> QED BY <3>2
  <2>7. k # 0
    <3>1. ask \in AskType BY <2>3, ReplanEntry
    <3>2. ask.fixed[t] \in Seq(VisitType) BY <2>3, <3>1 DEF AskType
    <3> QED BY <2>6, <3>2, EmptySeq
  <2>8. PICK j \in DOMAIN plan.routes[t], m \in DOMAIN log :
          LET v == plan.routes[t][j] IN
            /\ v \in VisitType /\ v.seq = j
            /\ ask.fixed[t] = <<[v EXCEPT !.seq = 1]>> /\ k = 1
            /\ InHand(log, m) /\ log[m].tech = t /\ log[m].order = v.order
            /\ Reports(t) # {} /\ Latest(t) = log[m]
            /\ v.start = log[m].start /\ v.finish = log[m].finish /\ v.source = log[m].source
    BY <2>3, <2>7, FixedVisit
  <2> DEFINE v == plan.routes[t][j]
  <2>9. m = n
    <3>1. m <= n /\ n <= m BY <1>1, <2>1, <2>8 DEF LogInv, t
    <3>2. m \in Nat /\ n \in Nat BY <1>1, EventFields DEF LogInv
    <3> QED BY <3>1, <3>2
  <2>10. i = j BY <2>1, <2>3, <2>4, <2>5, <2>8, <2>9 DEF VisitsInv
  <2>11. /\ 1 \in DOMAIN c[t] /\ c[t][1].order = Merged(t)[1].order
         /\ c[t][1].start = Merged(t)[1].start /\ c[t][1].finish = Merged(t)[1].finish
         /\ c[t][1].source = Merged(t)[1].source
         /\ Merged(t)[1] = ask.fixed[t][1]
    <3>1. /\ k \in Nat /\ Len(routes[t]) \in Nat /\ DOMAIN c[t] = 1 .. k + Len(routes[t])
          /\ \A x \in 1 .. k : Merged(t)[x] = ask.fixed[t][x]
          /\ \A x \in DOMAIN c[t] :
               /\ c[t][x].order = Merged(t)[x].order /\ c[t][x].start = Merged(t)[x].start
               /\ c[t][x].finish = Merged(t)[x].finish /\ c[t][x].source = Merged(t)[x].source
      BY <2>3, CandidateSays
    <3>2. k = 1 BY <2>8
    <3> HIDE DEF c, k
    <3>3. 1 \in DOMAIN c[t] /\ 1 \in 1 .. k BY <3>1, <3>2
    <3> QED BY <3>1, <3>3
  <2>12. ask.fixed[t][1] = [v EXCEPT !.seq = 1] BY <2>8
  <2>13. /\ c[t][1].order = v.order /\ c[t][1].start = v.start /\ c[t][1].finish = v.finish
         /\ c[t][1].source = v.source
    BY <2>8, <2>11, <2>12 DEF VisitType
  <2>14. PlannedSeq(o) = j
    <3>1. \A x \in DOMAIN plan.routes[t] : plan.routes[t][x].order = o => x = j
      BY <2>3, <2>4, <2>5, <2>10 DEF VisitsInv
    <3>2. (CHOOSE x \in DOMAIN plan.routes[t] : plan.routes[t][x].order = o) = j
      BY <2>5, <3>1
    <3>3. StartOf(o).tech = t BY <2>2 DEF t
    <3> QED BY <2>8, <3>2, <3>3 DEF PlannedSeq
  <2>15. j \in Nat /\ 1 <= j
    <3>1. plan.routes[t] \in Seq(VisitType) BY <2>3, <2>4 DEF VisitsInv
    <3>2. j \in 1 .. Len(plan.routes[t]) BY <2>8, <3>1, LenProperties
    <3> QED BY <3>2
  <2>16. StartOf(o).tech = t BY <2>2 DEF t
  <2>17. Latest(t) = StartOf(o) /\ Reports(t) # {} /\ Len(ask.fixed[t]) = 1
    BY <2>2, <2>8, <2>9
  <2> HIDE DEF c, k
  <2>18. /\ 1 \in DOMAIN c[t] /\ c[t][1].order = o /\ c[t][1].start = StartOf(o).start
         /\ c[t][1].finish = StartOf(o).finish /\ c[t][1].source = StartOf(o).source
    BY <2>1, <2>2, <2>8, <2>9, <2>11, <2>13
  <2>19. PlannedSeq(o) \in Nat /\ 1 <= PlannedSeq(o) BY <2>14, <2>15
  <2> QED BY <2>3, <2>16, <2>17, <2>18, <2>19
<1> HIDE DEF c
<1>5. StartedKept(c)
  <2>1. ASSUME NEW o \in Open, Started(o)
        PROVE  \E i \in DOMAIN c[StartOf(o).tech] :
                 LET v == c[StartOf(o).tech][i] IN
                   /\ v.order = o
                   /\ v.start = StartOf(o).start /\ v.finish = StartOf(o).finish
                   /\ v.source = StartOf(o).source
    BY <1>4, <2>1
  <2> QED BY <2>1 DEF StartedKept
<1>6. ASSUME NEW t \in Techs, NEW S, S \subseteq DOMAIN c[t], S # {}
      PROVE  (CHOOSE i \in S : \A j \in S : i <= j) \in S
  <2>1. S \in SUBSET Nat BY <1>2, <1>6
  <2> QED BY <1>6, <2>1, HasMin
<1>7. FollowsStarted(c)
  <2> SUFFICES ASSUME NEW o \in Open, Started(o), NEW t, t = StartOf(o).tech, NEW after,
                      after = {i \in DOMAIN c[t] : c[t][i].seq > PlannedSeq(o)}, after # {}
               PROVE  LET v == c[t][CHOOSE i \in after : \A j \in after : i <= j]
                      IN ProjectionAt(t, ask.time).free
                           + Travel(scn, scn.place[o], scn.place[v.order]) <= v.arrive
    BY DEF FollowsStarted
  <2> DEFINE i == CHOOSE i \in after : \A j \in after : i <= j
  <2>1. /\ t \in Techs /\ Reports(t) # {} /\ Latest(t) = StartOf(o) /\ Len(ask.fixed[t]) = 1
        /\ PlannedSeq(o) \in Nat /\ 1 <= PlannedSeq(o)
    BY <1>4
  <2>2. i \in after BY <1>6, <2>1
  <2> HIDE DEF i
  <2>3. i \in DOMAIN c[t] /\ c[t][i].seq > PlannedSeq(o) BY <2>2
  <2>4. i # 1
    <3> SUFFICES ASSUME i = 1 PROVE FALSE
      OBVIOUS
    <3>1. Merged(t)[1] = ask.fixed[t][1]
      <4>1. 1 \in 1 .. Len(ask.fixed[t]) BY <2>1
      <4> QED BY <2>1, <4>1, CandidateSays
    <3>2. PICK v \in VisitType : ask.fixed[t] = <<[v EXCEPT !.seq = 1]>>
      <4>1. Len(ask.fixed[t]) # 0 BY <2>1
      <4>2. PICK x \in DOMAIN plan.routes[t], n \in DOMAIN log :
              LET v == plan.routes[t][x] IN
                /\ plan # NoPlan /\ v \in VisitType /\ VisitStands(scn, t, v) /\ v.seq = x
                /\ ask.fixed[t] = <<[v EXCEPT !.seq = 1]>> /\ Len(ask.fixed[t]) = 1
                /\ InHand(log, n) /\ log[n].tech = t /\ log[n].order = v.order
                /\ Reports(t) # {} /\ Latest(t) = log[n]
                /\ v.start = log[n].start /\ v.finish = log[n].finish /\ v.source = log[n].source
        BY <2>1, <4>1, FixedVisit
      <4> QED BY <4>2
    <3>3. ask.fixed[t][1].seq = 1 BY <3>2 DEF VisitType
    <3>4. c[t][i].seq = 1 BY <1>2, <2>1, <2>3, <3>1, <3>3
    <3> QED BY <2>1, <2>3, <3>4
  <2>5. i > Len(ask.fixed[t]) BY <1>2, <2>1, <2>3, <2>4
  <2>6. ProjectionAt(t, ask.time).free
          + Travel(scn, Projection(t).at, scn.place[c[t][i].order]) <= c[t][i].arrive
    BY <1>3, <2>1, <2>3, <2>5
  <2>7. Projection(t).at = scn.place[o]
    <3>1. Latest(t).order = o
      <4>1. Began(o) BY DEF Started
      <4>2. StartOf(o).order = o BY <1>1, <4>1, EventFound DEF Began, StartOf
      <4> QED BY <2>1, <4>2
    <3> QED BY <3>1 DEF Projection
  <2> QED BY <2>6, <2>7 DEF i
<1>8. FollowsProjection(c)
  <2> SUFFICES ASSUME NEW t \in Techs, Reports(t) # {}, NEW future,
                      future = {i \in DOMAIN c[t] :
                                  c[t][i].order # ProjectionAt(t, ask.time).order},
                      future # {}
               PROVE  LET p == ProjectionAt(t, ask.time)
                          v == c[t][CHOOSE i \in future : \A j \in future : i <= j]
                      IN p.free + Travel(scn, p.at, scn.place[v.order]) <= v.arrive
    BY DEF FollowsProjection
  <2> DEFINE i == CHOOSE i \in future : \A j \in future : i <= j
  <2>1. i \in future BY <1>6
  <2> HIDE DEF i
  <2>2. /\ ProjectionAt(t, ask.time).order = Latest(t).order
        /\ ProjectionAt(t, ask.time).at = Projection(t).at
    BY DEF ProjectionAt, Projection
  <2>3. i \in DOMAIN c[t] /\ c[t][i].order # Latest(t).order BY <2>1, <2>2
  <2>4. i > Len(ask.fixed[t])
    <3>1. ~(i <= Len(ask.fixed[t])) BY <2>3, AheadIsFuture DEF c
    <3>2. Len(ask.fixed[t]) \in {0, 1} /\ i \in Nat BY <1>2, <2>3
    <3> QED BY <3>1, <3>2
  <2> QED BY <1>3, <2>2, <2>3, <2>4 DEF i
<1>9. AfterCutoff(c)
  <2>1. ASSUME NEW t \in Techs, NEW i \in DOMAIN c[t]
        PROVE  Began(c[t][i].order) \/ ask.time <= c[t][i].start
    <3>1. CASE i <= Len(ask.fixed[t])
      <4>1. Started(c[t][i].order) BY <3>1, CandidateOrders DEF c
      <4> QED BY <4>1 DEF Started
    <3>2. CASE i > Len(ask.fixed[t]) BY <1>3, <3>2
    <3>3. i <= Len(ask.fixed[t]) \/ i > Len(ask.fixed[t]) BY <1>2
    <3> QED BY <3>1, <3>2, <3>3
  <2> QED BY <2>1 DEF AfterCutoff
<1> QED BY <1>5, <1>7, <1>8, <1>9 DEF c

\* What the solver makes of a replan that no report overtook, the verifier lets
\* stand, for any scenario without shortcuts.
THEOREM SolvedStandsHolds == DaySpec => []SolvedStands
<1>1. ASSUME DayInv, SolvedReplan, plan # NoPlan, SolvedReturns, SolvedLegs, NoShortcut(scn)
      PROVE  Verified(Candidate, dropped)
  <2>1. /\ ask # NoAsk /\ ask.replan /\ done /\ Current /\ LocksKept(scn, Open, dropped)
    BY <1>1 DEF SolvedReplan
  <2>2. Covers(Open, Candidate, dropped) BY <1>1, <2>1, SolvedCovers
  <2>3. \A t \in Techs :
          /\ RouteStands(scn, t, Candidate[t], Origin(t, Candidate[t]), Pinned(Candidate[t]))
          /\ DerivedStands(scn, Candidate[t], DerivedFrom(t, Candidate[t]), Pinned(Candidate[t]))
    BY <1>1, <2>1, SolvedRoute
  <2>4. SameMetrics
    <3>1. FreshInv BY <1>1, <2>1, CandidateOrders
    <3>2. ask.compared BY <2>1, <3>1 DEF FreshInv
    <3> QED BY <1>1, <3>2 DEF SameMetrics
  <2>5. ask.seen = Len(log) BY <2>1 DEF Current
  <2>6. /\ StartedKept(Candidate) /\ FollowsStarted(Candidate)
        /\ FollowsProjection(Candidate) /\ AfterCutoff(Candidate)
    BY <1>1, <2>1, SolvedStarted
  <2> QED BY <2>1, <2>2, <2>3, <2>4, <2>5, <2>6 DEF Verified
<1>2. DayInv => SolvedStands BY <1>1 DEF SolvedStands
<1> QED BY <1>2, DayInvHolds, PTL
=============================================================================

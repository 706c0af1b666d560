----------------------------- MODULE MCFieldDay ------------------------------
EXTENDS FieldDay

MCOrders == {1, 2, 3}
MCTechs == {1, 2}
MCPoints == {"H", "A"}

MCTravel(far) == [p \in MCPoints \X MCPoints |-> IF p[1] = p[2] THEN 0 ELSE far]

MCDay(orders, able, opens, lock, to, far) ==
  [active |-> orders, place |-> <<"A", IF far = 1 THEN "H" ELSE "A", "A">>,
   service |-> <<IF far = 1 THEN 2 ELSE 1, 1, 1>>,
   opens |-> opens, closes |-> <<2, 4, 4>>, reported |-> <<0, 0, 0>>,
   due |-> <<4, 4, 4>>, urgency |-> <<1, 1, 1>>, able |-> able, lock |-> lock,
   home |-> <<"H", "H">>, from |-> <<0, 0>>, to |-> <<to, to>>, extra |-> <<0, 0>>,
   travel |-> MCTravel(far)]

(* Two technicians share a morning; one has three orders, one of them locked;  *)
(* two orders far from home, the second too late to be home in time.           *)
MCScenarios ==
  {MCDay({1, 2}, <<{1, 2}, {1, 2}, {1}>>, <<0, 0, 0>>, <<0, 0, 0>>, 5, 1),
   MCDay({1, 2, 3}, <<{1}, {1}, {1}>>, <<0, 0, 0>>, <<0, 1, 0>>, 6, 1),
   MCDay({1, 2}, <<{1}, {1}, {1}>>, <<0, 3, 0>>, <<0, 0, 0>>, 5, 2)}
==============================================================================

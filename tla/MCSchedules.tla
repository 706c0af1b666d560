----------------------------- MODULE MCSchedules -----------------------------
(* Small days: two technicians, three orders at two sites, two matrices, one  *)
(* of them neither symmetric nor metric, windows of one or several minutes.    *)
EXTENDS Integers, Sequences, FiniteSets

MCOrders == {1, 2, 3}
MCTechs == {1, 2}
MCPoints == {"H", "A", "B"}

Metric == [p \in MCPoints \X MCPoints |-> IF p[1] = p[2] THEN 0 ELSE 1]
Skewed == [p \in MCPoints \X MCPoints |->
            IF p[1] = p[2] THEN 0
            ELSE IF p = <<"H", "B">> \/ p = <<"A", "H">> THEN 4
            ELSE 1]

Day(travel, service, closes, due, able, lock, extra) ==
  [active |-> MCOrders, place |-> <<"A", "B", "A">>, service |-> service,
   opens |-> <<1, 0, 2>>, closes |-> closes, reported |-> <<0, 2, 0>>,
   due |-> due, urgency |-> <<1, 1, 0>>, able |-> able, lock |-> lock,
   home |-> <<"H", "H">>, from |-> <<0, 1>>, to |-> <<5, 4>>, extra |-> <<extra, 1>>,
   travel |-> travel]

MCScenarios ==
  {Day(travel, service, closes, due, able, lock, extra) :
     travel \in {Metric, Skewed},
     service \in {<<1, 1, 1>>, <<2, 1, 2>>},
     closes \in {<<1, 4, 4>>, <<5, 5, 5>>},
     due \in {<<3, 3, 3>>, <<5, 4, 2>>},
     able \in {<<{1, 2}, {1, 2}, {2}>>, <<{1}, {1, 2}, {}>>},
     lock \in {<<0, 0, 0>>, <<0, 2, 0>>},
     extra \in {0, 3}}
==============================================================================

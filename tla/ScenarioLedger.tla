--------------------------- MODULE ScenarioLedger ---------------------------
(***************************************************************************)
(* What the versions of one scenario promise (README.md and spec.md: data  *)
(* revisions D and plan versions V are immutable, a V is bound to the D it *)
(* was made from, nothing is published over a state that has moved).       *)
(*                                                                         *)
(* Here nobody works on old readings: a plan is made and published in one  *)
(* step, from the data, the active plan and the execution facts of that    *)
(* very moment, what was executed is never undone, and a key publishes     *)
(* once.                                                                   *)
(***************************************************************************)
EXTENDS Integers, Sequences

CONSTANTS Orders, Data, InitialData, PublicationKeys, NoKey

VARIABLES
  head,   \* data revision, its snapshot, the active plan
  plans   \* versions: revision and snapshot of each, the plan it replaced, its key

vars == <<head, plans>>

NoPlan == 0
D000 == [data |-> InitialData, status |-> [o \in Orders |-> "PENDING"]]

Init ==
  /\ head = [rev |-> 0, snapshot |-> D000, active |-> NoPlan]
  /\ plans = <<>>

Revise(snapshot, active) ==
  head' = [rev |-> head.rev + 1, snapshot |-> snapshot, active |-> active]

Edit(d) == Revise([head.snapshot EXCEPT !.data = d], head.active) /\ UNCHANGED plans

\* Only while nothing has been executed.
Reset ==
  /\ head.snapshot.status = D000.status
  /\ Revise(D000, NoPlan)
  /\ UNCHANGED plans

Progress(o, from, to) ==
  /\ head.snapshot.status[o] = from
  /\ Revise([head.snapshot EXCEPT !.status[o] = to], head.active)
  /\ UNCHANGED plans

Start(o) == head.active # NoPlan /\ Progress(o, "PENDING", "STARTED")
CompleteOrder(o) == Progress(o, "STARTED", "COMPLETED")

Add(rev, snapshot, k) ==
  /\ k # NoKey => \A n \in DOMAIN plans : plans[n].key # k
  /\ plans' = Append(plans, [rev |-> rev, snapshot |-> snapshot, over |-> head.active, key |-> k])

Publish(k) ==
  /\ Add(head.rev, head.snapshot, k)
  /\ head' = [head EXCEPT !.active = Len(plans) + 1]

\* An earlier version with its data, as long as that undoes no execution.
Restore(n, k) ==
  /\ plans[n].snapshot.status = head.snapshot.status
  /\ Add(head.rev + 1, plans[n].snapshot, k)
  /\ Revise(plans[n].snapshot, Len(plans) + 1)

Next ==
  \/ \E d \in Data : Edit(d)
  \/ Reset
  \/ \E o \in Orders : Start(o) \/ CompleteOrder(o)
  \/ \E k \in PublicationKeys \cup {NoKey} : Publish(k) \/ \E n \in DOMAIN plans : Restore(n, k)

Spec == Init /\ [][Next]_vars
=============================================================================

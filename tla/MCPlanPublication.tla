------------------------- MODULE MCPlanPublication -------------------------
(* PlanPublication for TLC: requests are interchangeable.                  *)
EXTENDS PlanPublication, TLC

AnyRequest == Permutations(Requests)
=============================================================================

-------------------------- MODULE MCRiskComparison --------------------------
(* RiskComparison for TLC: request threads are interchangeable.            *)
EXTENDS RiskComparison, TLC

CONSTANTS k1, k2

Interchangeable == Permutations(Threads)

\* The analyses others had made of a plan before: none, or a failed one and its
\* successful retry.
Retried == << [status |-> "FAILED", by |-> Others], [status |-> "COMPLETED", by |-> Others] >>
Earlier == {<<>>, Retried}

\* Bound: a third analysis is made of the second plan only, and nobody dies then.
ThirdOfOnePlan ==
  /\ After # Before => Len(analyses[Before]) < MaxAnalyses
  /\ Len(analyses[After]) = MaxAnalyses => count.restarts = 0
=============================================================================

--------------------------- MODULE MCExperiments ---------------------------
(* Experiments for TLC: all requests are identical, threads and            *)
(* experiments are interchangeable.                                        *)
EXTENDS Experiments, TLC

SameInputs == [e \in Exps |-> "inputs"]
Interchangeable == Permutations(Workers) \cup Permutations(Exps)
=============================================================================

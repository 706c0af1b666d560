--------------------------- MODULE MCRuntimeJobs ---------------------------
(* RuntimeJobs for TLC: threads are interchangeable.                       *)
EXTENDS RuntimeJobs, TLC

Threads == Permutations(Workers)
=============================================================================

------------------------- MODULE MCEmergencyIntake -------------------------
(* EmergencyIntake for TLC: r1 and r2 report the same order, each under a  *)
(* key of its own.                                                         *)
EXTENDS EmergencyIntake

CONSTANTS r1, r2, i1, i2, w1, w2

Keys == [r \in Requests |-> IF r = r1 THEN i1 ELSE i2]
Described == [r \in Requests |-> "reported"]

\* A job has one thread at a time and any idle thread may take it: naming the
\* thread after the job loses no interleaving.
ThreadPerJob == \A w \in Workers : work[w].req \in {NoReq, IF w = w1 THEN r1 ELSE r2}

\* Bound: only the lease of r1 runs out.
OneStalls == rows[r2].lease > -1
=============================================================================

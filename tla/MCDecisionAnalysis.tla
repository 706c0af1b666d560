------------------------- MODULE MCDecisionAnalysis -------------------------
(* DecisionAnalysis for TLC: j1 asks for an analysis and j2 retries one, on *)
(* two threads, disturbed in one of three ways: by a synchronous request,   *)
(* by lost leases and cancellations, or by the end of the service.          *)
EXTENDS DecisionAnalysis

CONSTANTS w1, w2, j1, j2, c1

\* A job has one thread at a time and any idle thread may take it: naming the
\* thread after the job loses no interleaving.
ThreadPerJob == \A w \in Workers : thread[w].job \in {NoJob, IF w = w1 THEN j1 ELSE j2}

Called == \E c \in Callers : proc[c] # <<>>
Lost == \E j \in Jobs : rows[j].lease < 0 \/ rows[j].status \in {"CANCEL_REQUESTED", "CANCELLED"}
Served == ~process.stopping /\ process.restarts = 0

\* Bounds: one disturbance at a time, and the service ends in the first
\* attempt of its jobs.
NotBoth == ~(Called /\ Lost)
EndsUndisturbed ==
  ~Served' => ~Called' /\ ~Lost' /\ (Served => \A j \in Jobs : rows[j].gen <= 1)
=============================================================================

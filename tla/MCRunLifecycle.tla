--------------------------- MODULE MCRunLifecycle ---------------------------
(* Values for model-checking RunLifecycle on a small instance. *)
EXTENDS RunLifecycle, TLC

CONSTANTS w1, w2, a1, a2, t1, t2

MCWorkers  == {w1, w2}
MCRequests == {a1, a2}
MCReports  == {t1, t2}

\* Which worker takes a task, which request slot carries a decision and how a
\* report is worded make no difference to what may happen next.
WorkerSymmetry  == Permutations(MCWorkers)
RequestSymmetry == Permutations(MCRequests) \cup Permutations(MCReports)

=============================================================================

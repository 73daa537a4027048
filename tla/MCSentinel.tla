----------------------------- MODULE MCSentinel -----------------------------
(* Bounds for model checking Sentinel: two threads take turns at three        *)
(* environments over two slots, so that slots are reused, full, and fought   *)
(* over, and an environment is stepped by one thread and then by the other.  *)
EXTENDS Sentinel, TLC

CONSTANTS t1, t2, e1, e2, e3

MCThreads == {t1, t2}
MCEnvs    == {e1, e2, e3}

\* Threads and environments are interchangeable.
Symmetry == Permutations(MCThreads) \cup Permutations(MCEnvs)
=============================================================================

--------------------------- MODULE MCArenaRegistry ---------------------------
(* Bounds for model checking ArenaRegistry: environments that start, end and  *)
(* free each other's pointers on three threads; more of them than slots, and    *)
(* few enough addresses that they are reused.                                *)
EXTENDS ArenaRegistry, TLC

CONSTANTS t1, t2, t3, e1, e2, e3, a1, a2, a3, a4

MCThreads == {t1, t2, t3}
MCEnvs    == {e1, e2, e3}
MCAddrs   == {a1, a2, a3, a4}

\* Threads, environments and addresses are interchangeable.
Symmetry == Permutations(MCThreads) \cup Permutations(MCEnvs) \cup Permutations(MCAddrs)
=============================================================================

----------------------------- MODULE MCWatchdog -----------------------------
(* Bounds for model checking Watchdog: one worker thread, environments that  *)
(* come and go in its slots, and the watchdog thread polling meanwhile.      *)
EXTENDS Watchdog

CONSTANTS t1, e1, e2

MCThreads == {t1}
MCEnvs    == {e1, e2}
=============================================================================

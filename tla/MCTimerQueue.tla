---------------------------- MODULE MCTimerQueue ----------------------------
(* Bounds for model checking TimerQueue: two objects, so that one can be split *)
(* from the other, each with up to two timers, on two levels.                *)
EXTENDS TimerQueue

CONSTANTS o1, o2, rot, burn, l1, l2
MCObjs   == {o1, o2}
MCFuncs  == {rot, burn}
MCLevels == {l1, l2}
MCDelays == {0, 1, 2}

\* Objects, timeout functions and levels are interchangeable.
Symmetry == Permutations(MCObjs) \cup Permutations(MCFuncs) \cup Permutations(MCLevels)
=============================================================================

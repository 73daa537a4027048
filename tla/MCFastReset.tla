----------------------------- MODULE MCFastReset -----------------------------
(* Bounds for model checking FastReset: levels the hero commutes between and *)
(* handles that are taken and restored in any order.                         *)
EXTENDS FastReset, TLC

CONSTANTS s1, s2, f1, f2
MCSnaps  == {s1, s2}
MCFds    == {f1, f2}
Symmetry == Permutations(MCSnaps) \cup Permutations(MCFds)
=============================================================================

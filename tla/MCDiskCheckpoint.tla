--------------------------- MODULE MCDiskCheckpoint ---------------------------
(* Bounds for model checking DiskCheckpoint and in it FastReset: handles that *)
(* are taken and restored in any order, and processes one after the other.   *)
EXTENDS DiskCheckpoint, TLC

CONSTANTS s1, s2, f1, f2
MCSnaps  == {s1, s2}
MCFds    == {f1, f2}
Symmetry == Permutations(MCSnaps) \cup Permutations(MCFds)
=============================================================================

---------------------------- MODULE MCCheckpoint ----------------------------
(* Bounds for model checking Checkpoint and Travel: food, a lamp and a box,  *)
(* one monster, two levels.                                                  *)
EXTENDS Checkpoint, TLC

CONSTANTS food, lamp, box, pet, l1, l2
MCObjs   == {food, lamp, box}
MCFoods  == {food}
MCLamps  == {lamp}
MCBoxes  == {box}
MCMons   == {pet}
MCLevels == {l1, l2}

Symmetry == Permutations(MCLevels)
=============================================================================

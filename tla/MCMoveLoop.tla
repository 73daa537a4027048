------------------------------ MODULE MCMoveLoop ------------------------------
(* Bounds for model checking MoveLoop: a vault guard and two other monsters,  *)
(* one of which can always be the successor of the other, and a normal speed  *)
(* that the heaviest load halves.                                             *)
EXTENDS MoveLoop

CONSTANTS g, m1, m2
MCMons    == {g, m1, m2}
MCGuards  == {g}
MCRations == {0, 2}
MCSpeeds  == {3}
MCLoads   == 0 .. 4
=============================================================================

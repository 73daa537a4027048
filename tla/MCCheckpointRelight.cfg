\* A new hero starts with the lamp, and may put it down burning;
\* no monster is there to take it.
CONSTANTS
  food = food
  lamp = lamp
  box = box
  pet = pet
  l1 = l1
  l2 = l2
  Null = Null
  Wild = Wild
  Abandoned = Abandoned
  Objs <- MCObjs
  Foods <- MCFoods
  Lamps <- MCLamps
  Boxes <- MCBoxes
  Mons = {}
  Levels <- MCLevels
  Kit <- MCLamps
  DiskMayFail = FALSE
SPECIFICATION Spec
SYMMETRY Symmetry
INVARIANTS LightsSane
\* Everything may have been destroyed.
CHECK_DEADLOCK FALSE

\* A new hero starts with the food, so its id is that of an object in the kit.
CONSTANTS
  food = food
  lamp = lamp
  box = box
  pet = pet
  l1 = l1
  l2 = l2
  Null = Null
  Wild = Wild
  Abandoned = Abandoned
  Objs <- MCObjs
  Foods <- MCFoods
  Lamps <- MCLamps
  Boxes <- MCBoxes
  Mons <- MCMons
  Levels <- MCLevels
  Kit <- MCFoods
  DiskMayFail = TRUE
SPECIFICATION Spec
SYMMETRY Symmetry
INVARIANTS TypeOK NoDangling MealCanResume LightsSane
PROPERTIES ResumeIsExact SaveLeavesGame
\* Everything may have been destroyed.
CHECK_DEADLOCK FALSE

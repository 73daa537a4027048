\* Two objects, two timeout functions, two levels, three turns.
CONSTANTS
  o1 = o1
  o2 = o2
  rot = rot
  burn = burn
  Off = Off
  Objs <- MCObjs
  Funcs <- MCFuncs
  Delays <- MCDelays
  l1 = l1
  l2 = l2
  Levels <- MCLevels
  MaxTime = 3
SPECIFICATION Spec
SYMMETRY Symmetry
INVARIANTS TypeOK TimedCountsTimers TimersFollowObjects
PROPERTIES RunClearsOverdue ImplementsDeadlines
\* The last turn may have passed.
CHECK_DEADLOCK FALSE

\* A handle taken inside a level change and restored after it.
CONSTANTS
  s1 = s1
  s2 = s2
  f1 = f1
  f2 = f2
  Snaps <- MCSnaps
  Levels = {1, 2}
  Endgame = {}
  Fds <- MCFds
  MaxClock = 5
  MaxFaults = 1
  NoSnap = NoSnap
SPECIFICATION Spec
SYMMETRY Symmetry
INVARIANT RestoreKeepsLevelChange
\* The game may be over and every handle be unused.
CHECK_DEADLOCK FALSE

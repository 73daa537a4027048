\* Three levels, the last in the endgame, two processes.
CONSTANTS
  s1 = s1
  s2 = s2
  f1 = f1
  f2 = f2
  Snaps <- MCSnaps
  Levels = {1, 2, 3}
  Endgame = {3}
  Fds <- MCFds
  MaxClock = 5
  MaxFaults = 1
  MaxProcesses = 2
  HandleClock = 4
  Mixed = FALSE
  NoSnap = NoSnap
SPECIFICATION DSpec
SYMMETRY Symmetry
INVARIANTS FilesMatchFlags FilesHoldOwnPast NoFakeDeath TapeFollowsGame HandleFindsPrefix
\* The game may be over and every handle be unused.
CHECK_DEADLOCK FALSE

\* Two environments, two files.
CONSTANTS
  e1 = e1
  e2 = e2
  Null = Null
  Envs <- MCEnvs
  Offsets <- MCOffsets
  Total = 4
  MaxRead = 2
SPECIFICATION Spec
INVARIANTS OpenedOnce LibraryUsable ReadsOwnFile
PROPERTIES StartsReturn
\* Every game may have ended.
CHECK_DEADLOCK FALSE

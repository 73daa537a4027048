\* A panic while an environment starts on a thread that has stepped another.
CONSTANTS
  t1 = t1
  t2 = t2
  e1 = e1
  e2 = e2
  e3 = e3
  None = None
  Threads <- MCThreads
  Envs <- MCEnvs
  Cap = 2
  MaxBeats = 1
SPECIFICATION Spec
SYMMETRY Symmetry
INVARIANT PanicInOwnSlot
CHECK_DEADLOCK FALSE

\* One worker, two environments, two slots.
CONSTANTS
  t1 = t1
  e1 = e1
  e2 = e2
  None = None
  Dog = Dog
  Threads <- MCThreads
  Envs <- MCEnvs
  Cap = 2
  MaxBeats = 2
SPECIFICATION WSpec
INVARIANTS AbortMeansStall DeathIsReported
PROPERTIES HangIsReported
\* The process may have ended.
CHECK_DEADLOCK FALSE

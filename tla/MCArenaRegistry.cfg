\* Three threads, three environments, four addresses, two slots.
CONSTANTS
  t1 = t1
  t2 = t2
  t3 = t3
  e1 = e1
  e2 = e2
  e3 = e3
  a1 = a1
  a2 = a2
  a3 = a3
  a4 = a4
  Null = Null
  Threads <- MCThreads
  Envs <- MCEnvs
  Addrs <- MCAddrs
  Cap = 2
SPECIFICATION Spec
SYMMETRY Symmetry
INVARIANTS LiveArenasListed ForeignFreeCaught BlocksReturned
\* Every environment may have ended.
CHECK_DEADLOCK FALSE

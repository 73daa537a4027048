\* Two threads, three environments of two steps each, two slots.
CONSTANTS
  t1 = t1
  t2 = t2
  e1 = e1
  e2 = e2
  e3 = e3
  None = None
  Threads <- MCThreads
  Envs <- MCEnvs
  Cap = 2
  MaxBeats = 2
SPECIFICATION Spec
SYMMETRY Symmetry
INVARIANTS SlotExclusive SlotDescribesOwner StepCountsBeats FaultNamesEnv FullMeansFull
PROPERTIES ImplementsRegistry
\* Every environment may have ended.
CHECK_DEADLOCK FALSE

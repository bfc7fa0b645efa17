SPECIFICATION FairSpec
CONSTANTS
  MaxFaults = 1
  i1 = i1
  i2 = i2
  t1 = t1
  t2 = t2
  Ingests <- MCIngests
  Tasks <- MCTasks
INVARIANTS
  AlertedOnce
PROPERTIES
  SilenceAnnounced
  Settles

SPECIFICATION Spec
CONSTANTS
  MaxReports = 3
  MaxBuffered = 2
  FlushBatch = 2
  Times <- MCTimes
  ClockStepsBack = TRUE
  c1 = c1
  c2 = c2
  Calls <- MCCalls
  NoCall = NoCall
SYMMETRY MCSymmetry
INVARIANTS
  DeliveredIsStored

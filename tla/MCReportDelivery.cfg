SPECIFICATION FairSpec
CONSTANTS
  MaxReports = 3
  MaxBuffered = 1
  FlushBatch = 2
  Times <- MCTimes
  ClockStepsBack = FALSE
  c1 = c1
  c2 = c2
  Calls <- MCCalls
  NoCall = NoCall
INVARIANTS
  DeliveredIsStored
  OldestFirst
  FollowedUpOnce
PROPERTIES
  ImplementsLog
  SubmitReturns

SPECIFICATION Spec
CONSTANTS
  FailAfter = 2
  RecoverAfter = 2
  MaxReports = 4
  MaxFaults = 1
  t1 = t1
  t2 = t2
  Tasks <- MCTasks
SYMMETRY MCSymmetry
INVARIANTS
  FollowsResults
  IncidentFollowsState
  EnoughIsConfirmed
  ToldWhatIsConfirmed
  SilenceEndsWithOutage

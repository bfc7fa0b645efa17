SPECIFICATION FairSpec
CONSTANTS
  Probes = {"c", "p"}
  Canaries = {"c"}
  Kinds = {"good", "mute", "crashing", "untestable"}
  MaxVersion = 2
  MaxStarts = 2
  MaxAttempts = 2
  MaxWindow = 1
  Soak = 1
  MaxBox = 1
  MaxAdmin = 2
  MaxFaults = 1
INVARIANTS
  CanGoBack
PROPERTIES
  NotTriedAgain
  PromotesWhatRuns
  BadGoesAway
  CanaryStageEnds

SPECIFICATION FairSpec
CONSTANTS
  Kinds = {"good", "crashing", "stuck"}
  KeepPreUpgrade = 3
  MaxUpgrades = 2
  MaxRestarts = 2
  MaxRows = 2
  MaxFaults = 1
INVARIANTS
  WayBack
  RunsOnItsSchema
  ServesWhatWasBackedUp
  NothingLost
PROPERTIES
  EndsServing
CHECK_DEADLOCK FALSE

SPECIFICATION Spec
CONSTANTS
  Kinds = {"stuck"}
  KeepPreUpgrade = 3
  MaxUpgrades = 1
  MaxRestarts = 2
  MaxRows = 0
  MaxFaults = 0
INVARIANTS
  ThatBackupIsThere
CHECK_DEADLOCK FALSE

SPECIFICATION FairConfigSpec
CONSTANTS
  Checks = {"gateway", "switch", "printer"}
  First = {"gateway", "switch"}
  FirstLink <- MCFirstLink
  Secretive = {"printer"}
  NoCheck = "none"
  Editors = {1, 2}
  MaxEdits = 2
  MaxRestarts = 1
  MaxFailures = 1
INVARIANTS
  LinksLeadUp
  OutageIsNamed
  EnabledHasSecret
PROPERTIES
  Converges
  ShownAsItIs
CHECK_DEADLOCK FALSE

SPECIFICATION Spec
CONSTANTS
  RuleSets <- MCOneRuleSet
  Channels <- MCChannels
  Care = {"quiet", "overlap"}
  MaxIncidents = 1
  MaxTime = 3
  MaxFaults = 0
INVARIANTS
  WokenHearItIsOver
CHECK_DEADLOCK FALSE

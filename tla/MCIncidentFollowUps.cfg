SPECIFICATION FairSpec
CONSTANTS
  RuleSets <- MCRuleSets
  Channels <- MCChannels
  Care = {}
  MaxIncidents = 1
  MaxTime = 2
  MaxFaults = 1
INVARIANTS
  NoMoreThanAsked
  StopsWhenOver
PROPERTIES
  NobodyForgotten

SPECIFICATION FairSpec
CONSTANTS
  MaxCommands = 1
  Users = {"u1"}
  Polls = {"p1", "p2"}
  MaxFaults = 2
INVARIANTS
  ResultOnItsWay
PROPERTIES
  ImplementsCommandLog
  CommandsArrive
  ResultsArrive

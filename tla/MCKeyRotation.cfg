SPECIFICATION FairSpec
CONSTANTS
  Probes = {"p1", "p2"}
  Enrolled = {"p1"}
  MaxKeys = 3
  MaxBox = 1
  Retention = 1
  MaxEnrolls = 1
  MaxFaults = 1
INVARIANTS
  NobodyCutOff
  BacklogReadable
  AnnouncedKeyKept
PROPERTIES
  RotationEnds
  EveryoneFollows
CONSTRAINT Uncrossed
CHECK_DEADLOCK FALSE

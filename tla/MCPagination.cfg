CONSTANTS
  n1 = n1
  n2 = n2
  n3 = n3
  News <- ThreeNews
  Matching <- ThreeNews
  Absent = Absent
  None = None
  Starts <- SomeStarts
  PerPages = {1, 2}
  MaxTime = 2
  MaxShown = 3
SPECIFICATION FairSpec
INVARIANTS
  MissedByCountOnly
  RepeatsByCreationOnly
PROPERTIES
  WalkEnds

SPECIFICATION FairSpec
CHECK_DEADLOCK FALSE
CONSTANT
  MaxRuns = 2
INVARIANTS
  TypeOK
  ServesOnlyComplete
  SupersedesEarlierRuns
PROPERTIES
  Recovers
  StopsWhenSignalled

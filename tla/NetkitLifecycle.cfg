SPECIFICATION FairSpec
CHECK_DEADLOCK FALSE
CONSTANTS
  Procs <- TwoProcs
  p1 = p1
  p2 = p2
  NoPair = NoPair
INVARIANTS
  PairsMatch
  ServesWhole
  InspectsOwnPair
  EndsClean
PROPERTIES
  LeavesOthersAlone
  ReleasesInReverse
  StopsWhenSignalled

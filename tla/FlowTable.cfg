SPECIFICATION FairSpec
CONSTANTS
  k1 = k1
  k2 = k2
  Keys <- MCKeys
  Word = 16
  Milli = 2
  MaxAge = 1
  TickPeriod = 2
  MaxClock = 6
  LastStamp = 2
  MaxObserved = 3
  ClockMayFail = TRUE
INVARIANTS
  TypeOK
  NoPacketCountsTwice
  RemovesTheDisplayedEntry
PROPERTIES
  CalcLatencyIsAtomic
  PrunesOnlyOldUnlessRaced
  PrunesAllUnlessFresh
  Drains
  WindsDown

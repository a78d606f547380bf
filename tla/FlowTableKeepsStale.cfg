SPECIFICATION Spec
CONSTANTS
  k1 = k1
  k2 = k2
  Keys <- MCKeys
  Word = 16
  Milli = 2
  MaxAge = 1
  TickPeriod = 2
  MaxClock = 7
  LastStamp = 3
  MaxObserved = 2
  ClockMayFail = FALSE
PROPERTY
  PrunesAllOld

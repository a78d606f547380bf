SPECIFICATION EndlessSpec
CONSTANTS
  c1 = c1
  c2 = c2
  k1 = k1
  CPUs <- OneCPU
  Keys <- OneFlow
  Word = 16
  Capacity = 1
  Milli = 1
  MaxAge = 0
  TickPeriod = 1
  ClockMayFail = FALSE
  MaxClock = 1
  LastStamp = 1
  MaxPackets = 3
PROPERTIES
  StopsWhenCancelled
  AllMatched

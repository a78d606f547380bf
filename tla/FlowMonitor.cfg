SPECIFICATION Spec
CONSTANTS
  c1 = c1
  c2 = c2
  k1 = k1
  CPUs <- TwoCPUs
  Keys <- OneFlow
  Word = 16
  Capacity = 2
  Milli = 1
  MaxAge = 0
  TickPeriod = 1
  ClockMayFail = FALSE
  MaxClock = 2
  LastStamp = 1
  MaxPackets = 3
INVARIANT
  NegativeOnlyAcrossCPUs
PROPERTIES
  DrivesTheTable
SYMMETRY CPUSymmetry

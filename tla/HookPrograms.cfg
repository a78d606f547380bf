SPECIFICATION Spec
CHECK_DEADLOCK FALSE
CONSTANTS
  CPUs = {c1, c2}
  Frames <- MCFrames
  Slots = 2
  MaxOwed = 3
  Queues = {q1, q2}
  Word = 4
  MaxPackets = 5
  Pids <- MCPids
  Signals = {9, 15}
  UInt = 16
  MaxKills = 3
INVARIANTS
  HooksTypeOK
  PrintsWhatPassed
  CountsEveryPacket
  TracesSigkills
PROPERTIES
  
  StopsWhenInterrupted
  LoadersReleaseInReverse

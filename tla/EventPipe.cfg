SPECIFICATION FairSpec
CONSTANTS
  c1 = c1
  c2 = c2
  load = load
  CPUs <- MCCPUs
  Payloads <- MCPayloads
  Capacity = 2
  MaxClock = 2
  MaxStamped = 4
INVARIANTS
  TypeOK
  DeliversInOutputOrder
  OrderedPerCPU
PROPERTY
  AllDelivered

SPECIFICATION RequestSpec
CONSTANTS
  c1 = c1
  c2 = c2
  Downstream = {c1, c2}
  MaxTime = 4
  CPUCount = 2
  EventCount = 2
  ChannelCapacity = 1
  CountWord = 3
  Instances <- SomeInstances
INVARIANTS
  PausedWithinCalls
  TotalsAddUp
PROPERTIES
  StopRunEnds
CHECK_DEADLOCK FALSE

\* Requests, their drains, the flush loop and Stop, in every interleaving.
CONSTANTS
  r1 = r1  r2 = r2  r3 = r3
  Producers <- TwoRequests
  Consumers <- TwoAndLoop
  Size = 2
  Word = 64
  MaxRetries = 2
  Zero = Zero
  Torn = Torn
  FlushLoop = FlushLoop
  FlushThreshold = 1
  ChannelCapacity = 1
SPECIFICATION FairSpec
VIEW WithoutData
CHECK_DEADLOCK FALSE
INVARIANTS
  PositionsOwnedOnce
  CallsAccounted
PROPERTIES
  PushedIsReported
  StopReturns
  EveryPushReturns

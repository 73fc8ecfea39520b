\* Finding: overlapping calls of PopAll count a request twice.
CONSTANTS
  r1 = r1  r2 = r2  r3 = r3
  Producers <- ThreeRequests
  Consumers <- ThreeAndLoop
  Size = 2
  Word = 64
  MaxRetries = 2
  Zero = Zero
  Torn = Torn
  FlushLoop = FlushLoop
  FlushThreshold = 1
  ChannelCapacity = 1
SPECIFICATION Spec
VIEW WithoutData
CHECK_DEADLOCK FALSE
SYMMETRY Symmetric
INVARIANTS
  NoRequestCountedTwice

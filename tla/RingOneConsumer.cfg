\* The use the comments of ringbuffer.go prescribe: one consumer.  Five
\* data in four slots: batches of several slots, and a slot used again.
CONSTANTS
  Producers = {p1, p2, p3, p4, p5}
  Consumers = {flushLoop}
  Size = 4
  Word = 64
  MaxRetries = 1
  Zero = Zero
  Torn = Torn
SPECIFICATION Spec
VIEW WithoutDeadLocals
SYMMETRY Symmetric
INVARIANT InOrderOnce
PROPERTY ImplementsChannel

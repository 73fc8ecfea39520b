\* Connections may fail, two at once.  No symmetry: WaiterServed is temporal.
CONSTANTS
  Threads = {t1, t2, t3}
  Clients = {k1, k2}
  MaxPool = 2
  MaxCalls = 2
  None = None
SPECIFICATION FairSpec
INVARIANTS
  NeverShared
PROPERTY WaiterServed
CHECK_DEADLOCK FALSE

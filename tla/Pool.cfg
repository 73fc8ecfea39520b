\* Failing constructors and connections, deadlines, spurious wakeups.  No
\* symmetry: WaiterServed is temporal.
CONSTANTS
  Threads = {t1, t2, t3, t4}
  Clients = {k1, k2, k3}
  MinPool = 1
  MaxPool = 2
  MaxCalls = 2
  None = None
SPECIFICATION FairSpec
INVARIANTS
  CurrCountsClients
  OneOwner
  NoLostWakeup
PROPERTY WaiterServed
CHECK_DEADLOCK FALSE

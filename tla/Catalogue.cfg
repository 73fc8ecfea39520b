\* Two goroutines to a hotel call, one failure, restart and eviction.
SPECIFICATION Spec
CONSTANTS
  k1 = k1
  k2 = k2
  k3 = k3
  Keys = {k1, k2, k3}
  Unreviewed = {k3}
  Unpriced = {k3}
  Scenarios <- SomeScenarios
  UserScenarios <- SomeUsers
  Names = {"ann"}
  MaxGoroutines = 2
  MaxFailures = 1
  MaxRestarts = 1
  MaxEvictions = 1
  None = None
INVARIANTS
  CacheHoldsDocuments
  AnswersExact
  FailsForAReason

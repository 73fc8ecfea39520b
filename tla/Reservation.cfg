\* Concurrent calls, evictions, a crash and an error nobody looks at.
CONSTANTS
  Requests = {q1, q2, q3}
  Checks = {c1}
  LastNight = 2
  Rooms = {1, 2}
  Capacity = 3
  Booked = 1
  MaxCrashes = 1
  MaxFailures = 1
  Miss = Miss
SPECIFICATION Spec
SYMMETRY Symmetric
CHECK_DEADLOCK FALSE
INVARIANTS
  NoOverbooking
  CacheCoversStore
  NoSpuriousRefusal

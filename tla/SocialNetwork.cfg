SPECIFICATION SocialSpec
CONSTANTS
  Users = {0, 1, 2, 3}
  Calls = {1, 2, 3, 4}
  MaxFailures = 1
  MayRestart = {"social-graph-redis", "user-timeline-redis", "home-timeline-redis"}
  Span = 2
  MaxClock = 1
  MaxSetBacks = 1
  Scenarios <- MCScenarios
INVARIANTS
  IdsDistinct
  AccountsAgree
  EdgesAgree
  RedisMirrorsDocuments
  ReadsSucceed
  PageExact
  FollowersServed

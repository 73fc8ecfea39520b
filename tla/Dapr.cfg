SPECIFICATION FairSpec
CONSTANTS
  Calls <- MCCalls
  Names <- MCNames
  Deliveries <- MCDeliveries
  Workers <- MCWorkers
  Procs = {1, 2, 3, 4, 11, 12, 21, 22, 31, 32, 33, 34}
  PipeWorkers <- MCPipeWorkers
  StageOf <- MCStageOf
  FramesOf <- MCFramesOf
  PostTime <- MCPostTime
  Scenarios <- MCScenarios
  MaxTry = 3
  MaxTimelineLen = 2
  Outstand = 3
INVARIANTS EditsKept TimelinesServed NothingMissing RatingsAgree
PROPERTY UpdatesEnd
CHECK_DEADLOCK FALSE

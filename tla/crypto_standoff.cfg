SPECIFICATION PSpec
CONSTANTS
  Workers <- MCWorkers
  Lanes <- MCLanes
  Role <- MCRole
  FrameJobs <- MCFrameJobs
  JobRing = 4
  ResultRing = 8
  Batch = 2
  Depth = 4
  WorkCap = 64
  HashCap = 1
  CompletionBatch = 4
  InboundTotal = 6
  InboundPerLane = 2
  OwedBatch = 2
  HotTurns = 0
  Backlog = 6
  Arrivals = 0
INVARIANT NoStandoff
CHECK_DEADLOCK FALSE

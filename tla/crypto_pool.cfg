SPECIFICATION PSpec
CONSTANTS
  Workers <- MCWorkers
  Lanes <- MCLanes
  Role <- MCRole
  FrameJobs <- MCFrameJobs
  JobRing = 5
  ResultRing = 2
  Batch = 2
  Depth = 3
  WorkCap = 4
  HashCap = 1
  CompletionBatch = 2
  InboundTotal = 3
  InboundPerLane = 2
  OwedBatch = 1
  HotTurns = 0
  Backlog = 1
  Arrivals = 2
INVARIANTS
  AccountsAgree
  NoLostWake
  NoStrandedWork
CHECK_DEADLOCK FALSE
PROPERTIES
  
  DropJoins

SPECIFICATION FairSpec
CONSTANTS
  Cluster = FALSE
  Reqs = {r1, r2}
  Batch = batch
  Capacity = 1
  MaxTasks = 1
  DrainMax = 2
  StatsCap = 1
  StatsMax = 2
  MaxPolls = 1
INVARIANTS
  DrainedAtExit
  ReceiversOutliveSenders
  BatchIsFinished
PROPERTIES
  ShutdownCompletes

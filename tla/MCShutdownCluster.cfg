SPECIFICATION FairSpec
CONSTANTS
  Cluster = TRUE
  Reqs = {r1, r2}
  Batch = batch
  Capacity = 1
  MaxTasks = 1
  DrainMax = 2
  StatsCap = 1
  StatsMax = 2
  MaxPolls = 1
PROPERTY
  UpsertWorkersExit
CHECK_DEADLOCK FALSE

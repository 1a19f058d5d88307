SPECIFICATION SuiteSpec
CONSTANTS
  Job = {"j1", "j2", "j3"}
  Coll = {"c"}
  Setting = {"s1", "s2"}
  Invalid = {"s2"}
  Capacity = 2
  MaxTasks = 2
  DrainMax = 2
  MaxFaults = 1
  NumDocs = 3
  PageSize = 1
  BodyCap = 1
  MaxWrites = 2
  CanFail = TRUE
INVARIANTS
  AnswersAreOwn
  ExportExact
PROPERTIES
  EveryRequestEnds
  PendingIsStored
  CacheHeals

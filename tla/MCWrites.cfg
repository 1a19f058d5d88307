SPECIFICATION SuiteSpec
CONSTANTS
  Names = {"c1", "c2"}
  Nodes = {"n1", "n2"}
  Admins = {"a1", "a2"}
  Callers = {"p1", "p2"}
  Poller = "poller"
  CacheMax = 1
  MaxAdmin = 3
  MaxCalls = 3
  MaxRows = 2
  MaxFaults = 1
  Single = {"j1", "j2", "j3"}
  Ticket = {"j3"}
  Bulk = {"b1"}
  Coll = {"c1"}
  DocId = {"d1", "d2"}
  MaxTs = 2
  Capacity = 2
  MaxTasks = 2
  DrainMax = 2
  BulkLen = 3
  ChunkSize = 2
  MaxErrors = 1
  MaxPanics = 1
INVARIANTS
  ConfigurationsLive
  
  StatisticsExact
  
  VectorsMatch

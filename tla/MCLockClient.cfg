SPECIFICATION SuiteSpec
CONSTANTS
  t1 = t1
  t2 = t2
  u1 = u1
  p1 = p1
  p2 = p2
  Task <- MCTask
  Proc = {p1, p2}
  procOf <- MCProcOf
  Nobody = Nobody
  MaxTries = 2
  MaxReleases = 1
  MaxRounds = 1
  MaxRestarts = 1
INVARIANTS
  HolderIsOwner
PROPERTIES
  ImplementsLock

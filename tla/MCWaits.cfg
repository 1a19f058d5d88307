SPECIFICATION FairSuiteSpec
CONSTANTS
  Key = {k1, k2}
  Proc = {p1, p2, p3}
  Inst = {i1, i2, i3}
  None = none
  Parts = {"locks", "client", "talk", "models"}
  Call = {c1, c2}
  Post = {r1}
  MaxDrops = 1
  Loader = {l1, l2, l3}
  Model = {a, b}
  Untrusted = {b}
  MaxSize = 1
  CanFail = FALSE
  Thread = {}
  MaxSlots = 1
INVARIANTS
  Registered
  
  OneLoadAtATime
PROPERTIES
  ImplementsLock
  NobodyWaitsForEver

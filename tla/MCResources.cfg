SPECIFICATION SuiteSpec
CONSTANTS
  Key = {}
  Proc = {}
  Inst = {}
  None = none
  Parts = {"slots", "models", "metrics"}
  Call = {}
  Post = {}
  MaxDrops = 0
  Loader = {l1, l2, l3}
  Model = {a, b}
  Untrusted = {}
  MaxSize = 1
  CanFail = TRUE
  Thread = {t1, t2, t3, t4, t5}
  MaxSlots = 2
INVARIANTS
  SlotsConserved
  NoSleepBesideFreeSlot
  ModelsAccounted
  MinutesKept
SYMMETRY Loaders

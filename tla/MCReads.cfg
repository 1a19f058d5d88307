SPECIFICATION SuiteSpec
CONSTANTS
  Comparison = {"a", "b"}
  Prefixed = {}
  MaxLen = 6
  NumParents = 2
  NumChildren = 3
  Coll = {11, 12}
  MetaValue = {21, 22, 23, 24}
  Fractional = {23}
  Other = {22}
  Missing = 20
  Zero = 21
  Limit = 1
  MaxWrites = 1
INVARIANTS
  PrecedenceKept
  
  PagesComplete
  JoinsExact
PROPERTIES
  FreshCandidates

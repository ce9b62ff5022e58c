SPECIFICATION Spec
CONSTANTS
  Nil = Nil
  WIDTH = 1000
  HEIGHT = 600
  Alike <- MCAlike
  Overlap <- MCOverlap
  Pages <- MCPages
  PAGE_PLANS = 2
  REGION_PLANS = 2
CHECK_DEADLOCK FALSE
INVARIANTS
  TypeOK
  NothingLeftToMerge
  CropsAreApart
  AcceptedRegionsAreKept

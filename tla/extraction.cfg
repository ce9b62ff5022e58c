SPECIFICATION Spec
CONSTANTS
  Nil = Nil
  Similarity <- MCSimilarity
  ADVANTAGE = 500
  Files <- MCFiles
  RouteOrder <- MCRouteOrder
  Readings <- MCReadings
  RegionCounts = {0, 1, 3}
  PLANS = 4
  MAX_CANDIDATES = 3
  COMPLEX = 3
CHECK_DEADLOCK FALSE
INVARIANTS
  TypeOK
  PagesAreValid
  RejectedOcrIsNotAccepted
  NothingAcceptedIsPassedOver
  FallbacksAreReported
PROPERTIES
  ComplexPagesReadRegions

SPECIFICATION Spec
CONSTANTS
  Nil = Nil
  Inputs <- MCInputs
  Budgets <- MCBudgets
  FixedSize = 5
  Overlap = 2
  MinChars = 4
  ALLOW_NEEDS_REVIEW = FALSE
CHECK_DEADLOCK FALSE
INVARIANTS
  TypeOK
  NothingIsDropped
  ChunksFitTheBudget
  ChunksAreSections
  InReadingOrder

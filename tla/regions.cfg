SPECIFICATION Spec
CONSTANTS
  Nil = Nil
  WIDTH = 1000
  HEIGHT = 600
  Layouts <- MCLayouts
CHECK_DEADLOCK FALSE
INVARIANTS
  TypeOK
  WordsAreRead
  RootsAreComponents
  ColumnsInOrder
  LinesFollowKeys

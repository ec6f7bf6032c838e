SPECIFICATION Spec
CONSTANTS
  Shapes <- SomeShapes
  Edges <- SomeEdges
  Sizes = {0, 2}
  VectorSize = 2
  Int32Max = 3
  MaxRows = 4
  MaxResults = 2
INVARIANTS
  TypeOK
  RowsNumbered
  ListsDisjoint
  NothingLeftBehind
CHECK_DEADLOCK FALSE

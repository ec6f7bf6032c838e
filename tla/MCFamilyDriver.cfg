SPECIFICATION Spec
CONSTANTS
  Shapes <- SomeShapes
  MaxRows = 2
  MaxCalls = 3
INVARIANTS
  TypeOK
  NoMisuse
  NothingLeaks
  AnswersOwnRows
CHECK_DEADLOCK FALSE

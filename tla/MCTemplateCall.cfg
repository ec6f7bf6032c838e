SPECIFICATION Spec
CONSTANTS
  Null = Null
  Absent = Absent
  EdgeTables <- SmallEdgeTables
  VertexTables <- SomeVertexTables
  LineTables <- SmallLineTables
  PointLists <- SmallPointLists
  Calls <- AllCalls
INVARIANTS
  TypeOK
  EmptyExactly
  VerticesAreTheEnds
  DegreesAgree
  NearestOfEachPoint
  SidesAsDocumented
PROPERTIES
  BoundTextsRun

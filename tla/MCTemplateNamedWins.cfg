SPECIFICATION Spec
CONSTANTS
  Null = Null
  Absent = Absent
  EdgeTables <- SmallEdgeTables
  VertexTables <- SomeVertexTables
  LineTables <- SmallLineTables
  PointLists <- SmallPointLists
  Calls <- BothWays
INVARIANT PositionalWins

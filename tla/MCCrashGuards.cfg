SPECIFICATION FairSpec
CONSTANTS
  Vertices <- VertexIds
  None = None
  Guarded = {"CHINESE_POSTMAN", "BICONNECTED_COMPONENTS", "SLOAN_ORDERING"}
  Queries <- EdgeQueries
INVARIANTS
  TypeOK
  CrashesAloneAnswered
  ForestFollowsRows
PROPERTIES
  GuardEnds
CHECK_DEADLOCK FALSE

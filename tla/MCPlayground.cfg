SPECIFICATION FairSpec
CONSTANTS
  Datasets = {"sample", "workshop"}
  Default = "sample"
  Dynamic = {"workshop"}
  Edges = {"e1", "e2"}
  Tasks = {1, 2}
  MaxMade = 2
  Readers <- AllReaders
INVARIANTS
  TypeOK
  NeverOverlaps
  QueriesRunOnCurrent
  IdleIsUsable
  OneSelectionWhenCalm
  MapIsFreshWhenCalm
PROPERTIES
  BusyEnds
  OpensAgain

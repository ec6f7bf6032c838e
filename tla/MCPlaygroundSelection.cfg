SPECIFICATION Spec
CONSTANTS
  Datasets = {"sample", "workshop"}
  Default = "sample"
  Dynamic = {"workshop"}
  Edges = {"e1", "e2"}
  Tasks = {1, 2}
  MaxMade = 2
  Readers <- Pickers
INVARIANT OneSelection

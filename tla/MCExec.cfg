SPECIFICATION Spec
CONSTANTS
  c1 = c1
  c2 = c2
  c3 = c3
  q1 = q1
  q2 = q2
  Null = Null
  Threads = {t1, t2}
  Calls = {c1, c2}
  Contexts = {q1, q2}
  CtxOf <- TwoQueries
  NoRows = {}
  Polling = {c1}
  VectorSize = 2
  MaxInputs = 2
  MaxRows = 3
  Nesting = TRUE
INVARIANTS
  TypeOK
  OwnLiveInputs
PROPERTIES
  RoutingCallSpec
SYMMETRY Symmetry
CHECK_DEADLOCK FALSE

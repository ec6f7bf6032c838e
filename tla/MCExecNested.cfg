SPECIFICATION Spec
CONSTANTS
  c1 = c1
  c2 = c2
  c3 = c3
  q1 = q1
  q2 = q2
  Null = Null
  Threads = {t1, t2}
  Calls = {c1, c2, c3}
  Contexts = {q1, q2}
  CtxOf <- TwoCallsInOneQuery
  NoRows = {}
  Polling = {c1, c2, c3}
  VectorSize = 1
  MaxInputs = 1
  MaxRows = 1
  Nesting = TRUE
INVARIANTS
  InterruptsAreExact
SYMMETRY Symmetry
CHECK_DEADLOCK FALSE

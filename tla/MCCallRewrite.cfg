SPECIFICATION Spec
CONSTANTS
  t1 = t1
  t2 = t2
  NULL = NULL
  Texts = {t1, t2}
  Specs <- SpecTables
  Plain <- PlainValues
  Odd <- OddValues
  MaxExtras <- ExtrasOf
  MaxEmpty = 1
  DirectCalls <- OutsideCalls
SYMMETRY Symmetry
CHECK_DEADLOCK FALSE
INVARIANTS
  TypeOK
  InputsArrive
  StrictNulls
  CheckedFirst
  ErrorsAreTheCallers
  ParametersArrive
  OneRowPerPair
  Unambiguous

CONSTANTS
  Formulas <- MCFormulas
  Columns <- MCColumns
  Atoms = 2
SPECIFICATION Spec
INVARIANTS
  ScanIsLongestMatch
  ParsesGrammar
  WellTypedSelects
  DeMorgan
CHECK_DEADLOCK FALSE

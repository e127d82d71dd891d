CONSTANTS
  IdOf <- MCIdOf
  Order <- MCOrder
  Names <- MCNames
  Unsupported = {"s"}
  Tables <- MCTables
  Overwrites = {TRUE, FALSE}
  MaxRuns = 2
SPECIFICATION Spec
INVARIANTS
  TypeOK
PROPERTIES
  ImplementsAtomTable
  RefusedMergeKeepsOutput
CHECK_DEADLOCK FALSE

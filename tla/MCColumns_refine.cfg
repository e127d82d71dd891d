CONSTANTS
  a = a
  b = b
  id = id
  null = null
  Names <- MCNames
  Reserved <- MCReserved
  Data = {3}
  Null = null
  OncePerRow = TRUE
  MaxRows = 3
  MaxRepeats = 0
SPECIFICATION Spec
INVARIANTS
  TypeOK
  Aligned
PROPERTY ImplementsRowTable
CHECK_DEADLOCK FALSE

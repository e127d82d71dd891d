CONSTANTS
  Cells <- MCCells
  Particles = 2
  StencilLimit = 100
SPECIFICATION Spec
INVARIANTS
  TypeOK
  FindsAllNeighbors
  FindsEachOnce
  DeltaMatchesImage
CHECK_DEADLOCK FALSE

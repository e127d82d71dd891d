CONSTANTS
  Cells <- MCSmall
  Particles = 1
  StencilLimit = 100
SPECIFICATION Spec
INVARIANT
  RefusesSmallCell
CHECK_DEADLOCK FALSE

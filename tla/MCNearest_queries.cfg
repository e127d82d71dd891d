CONSTANTS
  MaxSize = 3
  Worlds <- MCWorlds
  Probes <- MCProbes
  BucketSize = 1
  DepthLimit = 4
  Prepares = 2
SPECIFICATION Spec
INVARIANTS TypeOK HeapHoldsSmallest FindsNearest

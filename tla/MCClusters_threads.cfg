CONSTANTS
  x = x
  y = y
  z = z
  a = a
  b = b
  Threads = {t1, t2}
  Transitions = {x, y, z}
  Clusters = {a, b}
  Distance <- MCDistance
  Target <- MCTarget
  Nobody = Nobody
  MaxCalls = 5
SPECIFICATION FairSpec
INVARIANTS
  TypeOK
  AssertionsHold
PROPERTIES
  ImplementsTransitionList
  MutexIsReleased
CHECK_DEADLOCK FALSE

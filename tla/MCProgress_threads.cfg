CONSTANTS
  t1 = t1
  t2 = t2
  t3 = t3
  Threads <- MCThree
  Total = 5
  StepPercent = 34
  MinInterval = 1
  Counts = {1, 2}
  Serial = FALSE
  MaxDone = 5
  MaxTime = 2
  Never = 99
  Relaxed = TRUE
SPECIFICATION FairSpec
INVARIANTS
  TypeOK
  ClaimInv
  OneLinePerStep
  NoEarlyNoFinalLine
PROPERTIES
  MarkMovesForward
  CallsReturn
CHECK_DEADLOCK FALSE

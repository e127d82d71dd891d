CONSTANTS
  t1 = t1
  t2 = t2
  t3 = t3
  Threads <- MCTwo
  Total = 4
  StepPercent = 25
  MinInterval = 2
  Counts = {1, 2}
  Serial = FALSE
  MaxDone = 4
  MaxTime = 3
  Never = 99
  Relaxed = FALSE
SPECIFICATION Spec
INVARIANT Paced
CHECK_DEADLOCK FALSE

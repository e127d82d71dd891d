CONSTANTS
  t1 = t1
  t2 = t2
  t3 = t3
  Threads <- MCOne
  Total = 12
  StepPercent = 10
  MinInterval = 2
  Counts = {1, 3}
  Serial = TRUE
  MaxDone = 13
  MaxTime = 5
  Never = 99
  Relaxed = TRUE
SPECIFICATION Spec
INVARIANTS
  Paced
  SerialMarkAhead
CHECK_DEADLOCK FALSE

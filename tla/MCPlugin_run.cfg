CONSTANTS
  Properties = {p, q}
  Columns <- MCColumns
  Counts = {0, 1, 3}
  MaxPuts = 2
  PageSize = 2
  MaxPages = 3
  Invocations <- MCInvocations
  Number <- MCNumber
  Lists <- MCLists
  Dumps <- MCDumps
  Machine <- MCMachine
  Widths <- MCWidths
  MaxSteps <- MCSteps
SPECIFICATION Spec
INVARIANTS TypeOK ExitAgrees OutputsComplete RunSeesWhatWasAsked PropertiesReadTheirData PoolDestroysOnce

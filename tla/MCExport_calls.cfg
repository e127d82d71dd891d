CONSTANTS
  null = null
  Names <- MCNames
  Reserved <- MCReserved
  Data = {3}
  Null = null
  OncePerRow = TRUE
  MaxRows = 3
  MaxRepeats = 0
  Calls <- MCCalls
  Buckets = {"fcc", "hcp"}
  StructureIds = {1, 4}
  Inputs <- MCInputs
  Fold <- MCFold
  RowCount = 3
  FlushRows = 2
SPECIFICATION ExportSpec
INVARIANTS
  ExportTypeOK
  LoadedInOrder
  FileIsComplete
  ThrowLeavesNoPartial
  BucketIdsDense
CHECK_DEADLOCK FALSE

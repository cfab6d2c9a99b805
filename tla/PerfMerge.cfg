SPECIFICATION Spec
CONSTANTS
  N = 2
  MaxInt64 = 1
  Inputs <- MCInputs
  Offsets <- MCOffsets
  KeepMetadataRecords = FALSE
  EOFWithData = FALSE
INVARIANTS Sorted Accounted EOFComplete OffsetOfClock BorrowValid

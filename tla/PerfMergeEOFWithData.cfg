SPECIFICATION Spec
CONSTANTS
  N = 2
  MaxInt64 = 1
  Inputs <- SmallInputs
  Offsets = {0}
  KeepMetadataRecords = FALSE
  EOFWithData = TRUE
INVARIANTS EOFComplete

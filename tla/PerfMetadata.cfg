SPECIFICATION Spec
CONSTANTS
  MaxReadValues = 2
  MaxCallchain = 2
  Attrs <- MCAttrs
  IDLists <- MCIDLists
  Names = {NoName, a, b}
  NoName = NoName
  None = None
  FormatLists <- MCFormatLists
  MaxAttrs = 2
  MaxIDs = 3
  MaxMetadata = 9
  Counts = {1, 3}
SYMMETRY Symmetry
INVARIANTS Indexed OrderFree FormatsAttached ReadsKernel
CHECK_DEADLOCK FALSE

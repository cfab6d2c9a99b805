SPECIFICATION Spec
CONSTANTS
  Targets <- MCTargets
  Custom <- MCCustom
  MaxImpliesTags = 2
  MaxOverlapTags = 1
  Packages <- MCPackages
  Outputs <- MCOutputs
  Hosts <- MCHosts
INVARIANTS Compiles WriterPresent Justified
CHECK_DEADLOCK FALSE

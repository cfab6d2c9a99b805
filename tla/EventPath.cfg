SPECIFICATION FairSpec
CONSTANTS
  maxMetadata = 32
  maxEvent = 44
  maxStructDepth = 2
  maxStructChildFields = 2
  MaxCalls = 6
  Fields <- MCFields
  Inputs <- MCInputs
  Tags = {TRUE}
  Levels = {4}
  Trees <- MCTrees
  BindInputs <- MCBindInputs
  GoStructs <- MCGoStructs
  WrittenStructs <- MCWrittenStructs
  GoValues <- MCGoValues
  MaxDepth = 2
  MaxItems = 5
  MaxTransitions = 10
  Events <- MCEvents
  HeaderMembers <- MCHeaderMembers
  MaxInt = 2147483647
  MaxFields = 8
  MaxArray = 2
  Number <- MCNumber
  Within <- MCWithin
  CommonNames = {"common_type", "common_pid", "common_x"}
  Tracepoints <- MCTracepoints
  FieldLines <- MCFieldLines
  LineRecords <- MCLineRecords
INVARIANTS TypeOK RoundTrip Bindable Bounded WellFormed ReadsTracepoint AcceptedDecodes RefusedTooLarge ScratchKept WriterTypechecks
PROPERTY Terminates
CHECK_DEADLOCK FALSE

------------------------------ MODULE Producer ------------------------------
(***************************************************************************)
(* What Builder and Schema share: the limits of the format, the level of   *)
(* the event set, and the event that is handed over.                       *)
(***************************************************************************)
EXTENDS WireFormat

CONSTANTS
  maxMetadata,      \* maxCount for the metadata's size
  maxEvent,         \* maxMetadataPayload
  maxStructDepth,
  maxStructChildFields,
  Levels            \* levels of the event set

ASSUME ProducerAssumption ==
  {maxMetadata, maxEvent, maxStructDepth, maxStructChildFields} \subseteq Nat

VARIABLES
  script,   \* history: the items that were added
  wire      \* the event, or <<>>

\* A producer stops when it has made an event.
Writing == wire = <<>>

\* ids: 0 none, 1 an activity ID, 2 a related one too.
Extensions(ids, metadata) ==
  (IF ids = 0 THEN <<>> ELSE <<Extension("activity", 16 * ids, TRUE)>>)
    \o <<Extension("metadata", MetadataSize(metadata), FALSE)>>

\* The items of one field that is not a struct.
FieldItems(e, kind, values) ==
  IF kind = "scalar" THEN <<Item("Value", e, values[1], 0, -1)>>
  ELSE <<Item("ArrayBegin", e, <<>>, Len(values), -1)>>
         \o [i \in DOMAIN values |-> Item("Value", e, values[i], 0, i - 1)]
         \o <<Item("ArrayEnd", e, <<>>, Len(values), -1)>>

StructItem(state) == Item(state, "struct", <<>>, 0, -1)
=============================================================================

------------------------------ MODULE Builder -------------------------------
(***************************************************************************)
(* eventheader.Builder (builder.go): one goroutine adds fields and structs *)
(* to an event, with mistakes, and encodes it. The child count of a struct *)
(* is patched into its definition when the struct ends. A rejected call    *)
(* (not reset yet, bad name or option, a limit) changes nothing and is no  *)
(* action.                                                                 *)
(***************************************************************************)
EXTENDS Producer

CONSTANTS
  MaxCalls,         \* bound on fields and structs begun or ended since Reset
  Fields,           \* encodings and array kinds tried
  Inputs(_),        \* values (one, or an array's) tried for each of them
  Tags              \* whether fields have tags

ASSUME BuilderAssumption == MaxCalls \in Nat /\ Tags \subseteq BOOLEAN

VARIABLES
  metadata, payload, structs, activity, active,   \* Builder's fields
  calls     \* calls made

builderVars == <<metadata, payload, structs, activity, active, calls>>

\* A frame: the definition to patch and the number of children so far.
Frame(at, n) == [formatIndex |-> at, children |-> n]

\* Mutant: the limit is off by one.
canAddChildOneMore == structs # <<>> => Last(structs).children <= maxStructChildFields

canAddChild == structs # <<>> => Last(structs).children # maxStructChildFields

\* Mutant: the child of a nested struct is counted once more in the outer one.
noteChildEverywhere(frames) ==
  [i \in DOMAIN frames |-> Frame(frames[i].formatIndex, frames[i].children + 1)]

noteChild(frames) ==
  IF frames = <<>> THEN frames
  ELSE [frames EXCEPT ![Len(frames)].children = @ + 1]

requireActive == active

Call ==
  /\ calls < MaxCalls
  /\ calls' = calls + 1

-----------------------------------------------------------------------------

Reset ==
  /\ calls' = 0
  /\ metadata' = <<>>
  /\ payload' = <<>>
  /\ structs' = <<>>
  /\ activity' = 0
  /\ active' = TRUE
  /\ script' = <<>>
  /\ UNCHANGED wire

SetActivity(ids) ==
  /\ requireActive
  /\ activity' = ids
  /\ UNCHANGED <<metadata, payload, structs, active, script, calls, wire>>

BeginStruct(tag) ==
  /\ Call
  /\ requireActive
  /\ Len(structs) < maxStructDepth
  /\ canAddChild
  /\ metadata' = Append(metadata, FieldDef("struct", "scalar", 0, 0, tag))
  /\ structs' = Append(noteChild(structs), Frame(Len(metadata) + 1, 0))
  /\ script' = Append(script, StructItem("StructBegin"))
  /\ UNCHANGED <<payload, activity, active, wire>>

EndStruct ==
  /\ Call
  /\ requireActive
  /\ structs # <<>>
  /\ Last(structs).children # 0
  /\ metadata' = [metadata EXCEPT ![Last(structs).formatIndex].children = Last(structs).children]
  /\ structs' = Front(structs)
  /\ script' = Append(script, StructItem("StructEnd"))
  /\ UNCHANGED <<payload, activity, active, wire>>

\* Mutant: a variable array without elements gets no count.
CountBytesUnlessEmpty(kind, n) == IF kind = "variable" /\ n # 0 THEN native16(n) ELSE <<>>

CountBytes(kind, n) == IF kind = "variable" THEN native16(n) ELSE <<>>

\* addScalar and addArray, with addField.
addField(e, kind, values, tag) ==
  /\ Call
  /\ requireActive
  /\ canAddChild
  /\ kind = "fixed" => values # <<>>
  /\ metadata' = Append(metadata,
       FieldDef(e, kind, IF kind = "fixed" THEN Len(values) ELSE 0, 0, tag))
  /\ payload' = payload \o CountBytes(kind, Len(values))
                  \o FlattenSeq([i \in DOMAIN values |-> encodeValue(e, values[i])])
  /\ structs' = noteChild(structs)
  /\ script' = script \o FieldItems(e, kind, values)
  /\ UNCHANGED <<activity, active, wire>>

Encodable ==
  /\ requireActive
  /\ structs = <<>>
  /\ MetadataSize(metadata) <= maxMetadata
  /\ MetadataSize(metadata) + Len(payload) <= maxEvent

encodeSegments(level) ==
  /\ Encodable
  /\ wire' = [level |-> level, exts |-> Extensions(activity, metadata),
               metadata |-> metadata, payload |-> payload]
  /\ UNCHANGED <<metadata, payload, structs, activity, active, script, calls>>

-----------------------------------------------------------------------------

BuilderInit ==
  /\ metadata = <<>> /\ payload = <<>> /\ structs = <<>>
  /\ activity = 0
  /\ active = FALSE
  /\ calls = 0

BuilderNext ==
  /\ Writing
  /\ \/ Reset
     \/ \E ids \in 0..2 : SetActivity(ids)
     \/ \E tag \in Tags : BeginStruct(tag)
     \/ EndStruct
     \/ \E f \in Fields, tag \in Tags :
          \E values \in Inputs(f) : addField(f[1], f[2], values, tag)
     \/ \E level \in Levels : encodeSegments(level)
=============================================================================

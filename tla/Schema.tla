------------------------------- MODULE Schema -------------------------------
(***************************************************************************)
(* Schema, Binding and Event (schema.go, binding.go, event.go): the second *)
(* way to make an event. NewSchema flattens a tree of field definitions    *)
(* into metadata and a plan of values, a Binding takes the values in plan  *)
(* order, and Write joins the metadata of its event with the payload of a  *)
(* binding. A refused call changes nothing and is no action.               *)
(***************************************************************************)
EXTENDS Producer

CONSTANTS
  Trees,              \* definition trees given to NewSchema
  BindInputs(_, _)    \* values tried for each kind, as a scalar and as an array

VARIABLES
  event,        \* the schema NewEvent was given, or NoSchema
  boundSchema, boundPayload, index,   \* Binding's fields
  bound         \* history: the values bound since Reset

bindingVars == <<event, boundSchema, boundPayload, index, bound>>

-----------------------------------------------------------------------------
(* The typed constructors. Kinds with one encoding are still told apart.   *)

encodingOf(kind) ==
  CASE kind \in {"int8", "uint8"} -> "value8"
    [] kind = "uint16" -> "value16"
    [] kind = "ipv4" -> "value32"
    [] kind \in {"string", "binary"} -> "string8"
    [] kind = "utf16" -> "string16"
    [] kind = "struct" -> "struct"

Definition(kind, children, tag) ==
  [kind |-> kind, arrayKind |-> "scalar", arrayCount |-> 0, countArgs |-> 0,
   arrayField |-> FALSE, children |-> children, tag |-> tag]

scalarField(kind, tag) == Definition(kind, <<>>, tag)
StructField(children, tag) == Definition("struct", children, tag)

\* count is the sequence of variadic arguments.
ArrayField(element, kind, count) ==
  [element EXCEPT
     !.arrayKind = kind,
     !.countArgs = IF element.arrayField THEN -1 ELSE Len(count),
     !.arrayField = TRUE,
     !.arrayCount = IF count = <<>> THEN @ ELSE Head(count)]

-----------------------------------------------------------------------------
(* NewSchema *)

minimumValueSize(kind) ==
  CASE kind \in {"int8", "uint8"} -> 1 [] kind = "ipv4" -> 4 [] OTHER -> 2

StructFits(def, depth) ==
  /\ ~def.arrayField
  /\ depth < maxStructDepth
  /\ Len(def.children) \in 1..maxStructChildFields

ArrayFits(def) ==
  CASE def.arrayKind = "scalar" -> ~def.arrayField /\ def.countArgs = 0
    [] def.arrayKind = "fixed" -> def.countArgs = 1 /\ def.arrayCount # 0
    [] def.arrayKind = "variable" -> def.countArgs = 0

ValuePlan(kind, arrayKind, arrayCount) ==
  [kind |-> kind, arrayKind |-> arrayKind, arrayCount |-> arrayCount]

Refused(acc) == [acc EXCEPT !.ok = FALSE]

\* Mutant: the count in front of a variable array is not part of the payload.
appendValueNoPrefix(acc, def) ==
  LET size == minimumValueSize(def.kind)
      count == CASE def.arrayKind = "scalar" -> 1
                 [] def.arrayKind = "fixed" -> def.arrayCount
                 [] OTHER -> 0
  IN  IF count > (maxEvent - acc.minPayload) \div size THEN Refused(acc)
      ELSE [acc EXCEPT
              !.metadata = Append(@, FieldDef(encodingOf(def.kind), def.arrayKind,
                 IF def.arrayKind = "fixed" THEN def.arrayCount ELSE 0, 0, def.tag)),
              !.plan = Append(@, ValuePlan(def.kind, def.arrayKind, def.arrayCount)),
              !.minPayload = @ + count * size]

\* The part of appendDefinition for a value; Go's division rounds to zero.
appendValue(acc, def) ==
  LET size == minimumValueSize(def.kind)
      before == acc.minPayload + IF def.arrayKind = "variable" THEN 2 ELSE 0
      count == CASE def.arrayKind = "scalar" -> 1
                 [] def.arrayKind = "fixed" -> def.arrayCount
                 [] OTHER -> 0
      room == IF maxEvent >= before THEN (maxEvent - before) \div size
              ELSE -((before - maxEvent) \div size)
  IN  IF count > room THEN Refused(acc)
      ELSE [acc EXCEPT
              !.metadata = Append(@, FieldDef(encodingOf(def.kind), def.arrayKind,
                 IF def.arrayKind = "fixed" THEN def.arrayCount ELSE 0, 0, def.tag)),
              !.plan = Append(@, ValuePlan(def.kind, def.arrayKind, def.arrayCount)),
              !.minPayload = before + count * size]

RECURSIVE appendDefinition(_, _, _)
appendDefinition(acc, def, depth) ==
  IF ~acc.ok THEN acc
  ELSE IF def.kind # "struct"
  THEN IF ArrayFits(def) THEN appendValue(acc, def) ELSE Refused(acc)
  ELSE IF ~StructFits(def, depth) THEN Refused(acc)
  ELSE FoldLeft(LAMBDA a, child : appendDefinition(a, child, depth + 1),
         [acc EXCEPT !.metadata =
            Append(@, FieldDef("struct", "scalar", 0, Len(def.children), def.tag))],
         def.children)

\* The tree is kept for the properties only.
NewSchema(fields) ==
  LET s == FoldLeft(LAMBDA a, def : appendDefinition(a, def, 0),
             [ok |-> TRUE, metadata |-> <<>>, plan |-> <<>>, minPayload |-> 0, tree |-> fields],
             fields)
      size == MetadataSize(s.metadata)
  IN  IF size > maxMetadata \/ size + s.minPayload > maxEvent THEN Refused(s) ELSE s

NoSchema == [ok |-> FALSE]

-----------------------------------------------------------------------------
(* Binding and Event *)

NewEvent(fields) ==
  /\ event = NoSchema
  /\ NewSchema(fields).ok
  /\ event' = NewSchema(fields)
  /\ UNCHANGED <<boundSchema, boundPayload, index, bound, script, wire>>

\* The schema of the binding need not be the schema of the event.
NewBinding(fields) ==
  /\ event # NoSchema
  /\ boundSchema = NoSchema
  /\ NewSchema(fields).ok
  /\ boundSchema' = NewSchema(fields)
  /\ UNCHANGED <<event, boundPayload, index, bound, script, wire>>

ResetBinding ==
  /\ boundPayload' = <<>>
  /\ index' = 0
  /\ bound' = <<>>
  /\ UNCHANGED <<event, boundSchema, script, wire>>

Plan == boundSchema.plan[index + 1]

check(kind, array, count) ==
  /\ boundSchema # NoSchema
  /\ index < Len(boundSchema.plan)
  /\ Plan.kind = kind
  /\ array <=> Plan.arrayKind # "scalar"
  /\ Plan.arrayKind = "fixed" => count = Plan.arrayCount

ValueBytes(kind, values) ==
  FlattenSeq([i \in DOMAIN values |-> encodeValue(encodingOf(kind), values[i])])

\* The bytes a value adds, with the count of a variable array.
Encoded(plan, values) ==
  (IF plan.arrayKind = "variable" THEN native16(Len(values)) ELSE <<>>)
    \o ValueBytes(plan.kind, values)

fits(bytes) ==
  MetadataSize(boundSchema.metadata) + Len(boundPayload) + Len(bytes) <= maxEvent

\* begin, and the typed writer that called it.
begin(kind, array, values) ==
  /\ check(kind, array, Len(values))
  /\ fits(Encoded(Plan, values))
  /\ boundPayload' = boundPayload \o Encoded(Plan, values)
  /\ index' = index + 1
  /\ bound' = Append(bound, values)
  /\ UNCHANGED <<event, boundSchema, script, wire>>

Complete == boundSchema # NoSchema /\ index = Len(boundSchema.plan)

Leaves(defs) ==
  LET RECURSIVE Count(_)
      Count(def) == IF def.kind # "struct" THEN 1
                    ELSE FoldSeq(LAMBDA child, n : n + Count(child), 0, def.children)
  IN  FoldSeq(LAMBDA def, n : n + Count(def), 0, defs)

\* What a decoder should report for the values of a tree, in its order.
RECURSIVE Meant(_, _)
Meant(defs, values) ==
  IF defs = <<>> THEN <<>>
  ELSE LET def == Head(defs)
           n == Leaves(<<def>>)
       IN  (IF def.kind = "struct"
            THEN <<StructItem("StructBegin")>>
                   \o Meant(def.children, SubSeq(values, 1, n))
                   \o <<StructItem("StructEnd")>>
            ELSE FieldItems(encodingOf(def.kind), def.arrayKind, values[1]))
           \o Meant(Tail(defs), SubSeq(values, n + 1, Len(values)))

\* Mutant: a complete binding of any schema is written.
OfEventAny == TRUE

\* A tree is given to NewSchema once: equal trees are one schema.
OfEvent == boundSchema = event

\* Event.Write to an enabled tracepoint, and the end of WriteIfEnabled. values are
\* those the binding was meant to have.
Write(ids, level, values) ==
  /\ event # NoSchema
  /\ OfEvent
  /\ Complete
  /\ wire' = [level |-> level,
              exts |-> Extensions(ids, event.metadata),
              metadata |-> event.metadata, payload |-> boundPayload]
  /\ script' = Meant(boundSchema.tree, values)
  /\ UNCHANGED bindingVars

SchemaInit ==
  /\ event = NoSchema /\ boundSchema = NoSchema
  /\ boundPayload = <<>> /\ index = 0 /\ bound = <<>>

Kinds == {"int8", "uint8", "uint16", "string", "utf16"}

SchemaNext ==
  /\ Writing
  /\ \/ \E fields \in Trees : NewEvent(fields) \/ NewBinding(fields)
     \/ ResetBinding
     \/ \E kind \in Kinds, array \in BOOLEAN :
          \E values \in BindInputs(kind, array) : begin(kind, array, values)
     \/ \E ids \in 0..2, level \in Levels : Write(ids, level, bound)
=============================================================================

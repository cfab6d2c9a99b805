------------------------------ MODULE GenWriter ------------------------------
(***************************************************************************)
(* The writers that eventheader-gen makes (generator.go): analyzeStruct    *)
(* turns the fields of a Go struct into fields of a schema, validated with *)
(* NewSchema itself, and the rendered writer binds a value field by field, *)
(* through scratch slices that it keeps from one call to the next where a  *)
(* field's type is not the type the binding takes. One action per          *)
(* statement of the rendered bind that can fail.                           *)
(***************************************************************************)
EXTENDS Schema

CONSTANTS
  GoStructs,           \* struct types given to the generator
  WrittenStructs,      \* the ones among them that are also written (a bound)
  GoValues(_)          \* values tried for a field

VARIABLES
  leaves,    \* the fields of the writer in the order they are bound, or NoWriter
  scratch,   \* of each field: the cells of its slice up to the capacity, and its length
  backing,   \* of each field: the elements its scratch slices refer to, up to the capacity
  attempt,   \* the value given to Write: what each field holds
  todo,      \* the next field to bind, 0 outside of Write
  refused    \* Write returned an error

writerVars == <<leaves, scratch, backing, attempt, todo, refused>>

NoWriter == <<[ok |-> FALSE]>>

-----------------------------------------------------------------------------
(* Go types (external: go/types). *)

Basic(name) == [t |-> "basic", name |-> name]
Named(name, type) == [t |-> "named", name |-> name, of |-> type]
SliceOf(type) == [t |-> "slice", of |-> type]
ArrayOf(n, type) == [t |-> "array", n |-> n, of |-> type]
StructOf(fields) == [t |-> "struct", fields |-> fields]
Pointer == [t |-> "pointer"]

RECURSIVE Underlying(_)
Underlying(type) == IF type.t = "named" THEN Underlying(type.of) ELSE type

ConvertibleTo(type, target) == Underlying(type) = Underlying(target)
AssignableTo(type, target) == type = target \/ (target.t # "named" /\ Underlying(type) = target)

isCollection(type) == Underlying(type).t \in {"slice", "array"}
Elem(type) == Underlying(type).of

-----------------------------------------------------------------------------
(* Analysis. A field of a struct type is [name, type, encoding, skip].       *)

Byte == Basic("uint8")
Unsupported == [ok |-> FALSE]

Field(kind, base, original) ==
  [ok |-> TRUE, kind |-> kind, children |-> <<>>, array |-> "scalar", count |-> 0,
   base |-> base, original |-> original, semantic |-> "", scratch |-> FALSE, backing |-> FALSE,
   direct |-> FALSE, elementWise |-> FALSE]

primitives == {"int8", "uint8", "uint16", "string"}

analyzePrimitive(type, encoding) ==
  LET name == Underlying(type).name
  IN  IF name \in primitives /\ encoding = "" THEN Field(name, Basic(name), type) ELSE Unsupported

\* Mutant: types with the same elements are passed, defined or not.
canPassUnderlying(type, semantic, base) ==
  /\ semantic # "binary-fixed"
  /\ ConvertibleTo(Elem(type), base)

\* Whether a slice of the field can be given to the binding as it is.
canPassArrayDirectly(type, semantic, base) ==
  /\ semantic # "binary-fixed"
  /\ AssignableTo(SliceOf(Elem(type)), SliceOf(base))

BytesField(type, kind, unit, semantic) ==
  [Field(kind, SliceOf(unit), type) EXCEPT
     !.semantic = semantic, !.scratch = ~canPassArrayDirectly(type, "", unit)]

needsElementWise(type, n) == ~ConvertibleTo(type, ArrayOf(n, Byte))

\* The field of an array or slice, given the field of its elements.
arrayOfBase(type, base) ==
  LET direct == canPassArrayDirectly(type, base.semantic, base.base)
      fixed == Underlying(type).t = "array"
  IN  IF base.kind = "struct" \/ base.array # "scalar" THEN Unsupported
      ELSE IF fixed /\ Underlying(type).n = 0 THEN Unsupported
      ELSE [base EXCEPT
              !.array = IF fixed THEN "fixed" ELSE "variable",
              !.count = IF fixed THEN Underlying(type).n ELSE 0,
              !.direct = direct,
              !.backing = ~direct /\ base.scratch /\ base.base.t = "slice",
              !.scratch = ~direct,
              !.original = type]

RECURSIVE analyzeType(_, _, _), analyzeStruct(_, _)

analyzeArray(type, encoding, depth) ==
  LET array == Underlying(type)
      slice == array.t = "slice"
      bytes == Underlying(array.of) = Byte
      base == analyzeType(array.of, IF encoding = "u8" /\ bytes THEN "" ELSE encoding, depth)
  IN  IF ~slice /\ bytes /\ encoding = "binary"
      THEN BytesField(type, "binary", Byte, "binary-fixed")
      ELSE IF slice /\ bytes /\ encoding # "u8"
      THEN IF encoding \in {"", "binary"} THEN BytesField(type, "binary", Byte, "binary")
           ELSE Unsupported
      ELSE IF slice /\ Underlying(array.of) = Basic("uint16") /\ encoding = "utf16"
      THEN BytesField(type, "utf16", Basic("uint16"), "utf16")
      ELSE IF ~slice /\ array.n = 4 /\ bytes /\ encoding = "ipv4"
      THEN [Field("ipv4", ArrayOf(4, Byte), type) EXCEPT
              !.semantic = "ipv4", !.elementWise = needsElementWise(type, 4)]
      ELSE IF ~base.ok THEN Unsupported ELSE arrayOfBase(type, base)

analyzeType(type, encoding, depth) ==
  LET under == Underlying(type)
      children == analyzeStruct(under.fields, depth + 1)
  IN  CASE under.t = "struct" ->
             IF encoding # "" THEN Unsupported
             ELSE IF ~children.ok THEN Unsupported
             ELSE IF children.fields = <<>> THEN Unsupported
             ELSE [Field("struct", under, type) EXCEPT !.children = children.fields]
        [] under.t \in {"slice", "array"} ->
             IF under.of.t = "pointer" THEN Unsupported ELSE analyzeArray(type, encoding, depth)
        [] under.t = "basic" -> analyzePrimitive(type, encoding)
        [] OTHER -> Unsupported

analyzeStruct(fields, depth) ==
  LET kept == SelectSeq(fields, LAMBDA f : ~f.skip)
      result == [i \in DOMAIN kept |-> analyzeType(kept[i].type, kept[i].encoding, depth)]
  IN  IF depth > maxStructDepth THEN Unsupported
      ELSE IF \E i, j \in DOMAIN kept : i # j /\ kept[i].name = kept[j].name THEN Unsupported
      ELSE IF \E i \in DOMAIN result : ~result[i].ok THEN Unsupported
      ELSE IF depth > 0 /\ Len(kept) > maxStructChildFields THEN Unsupported
      ELSE [ok |-> TRUE, fields |-> result]

\* The definition that schemaExpression renders, and that validateEventModel tries.
RECURSIVE runtimeDefinition(_)
runtimeDefinition(f) ==
  CASE f.kind = "struct" ->
         StructField([i \in DOMAIN f.children |-> runtimeDefinition(f.children[i])], FALSE)
    [] f.array = "fixed" -> ArrayField(scalarField(f.kind, FALSE), "fixed", <<f.count>>)
    [] f.array = "variable" -> ArrayField(scalarField(f.kind, FALSE), "variable", <<>>)
    [] OTHER -> scalarField(f.kind, FALSE)

RECURSIVE LeavesOf(_)
LeavesOf(fields) ==
  FlattenSeq([i \in DOMAIN fields |->
    IF fields[i].kind = "struct" THEN LeavesOf(fields[i].children) ELSE <<fields[i]>>])

-----------------------------------------------------------------------------
(* The rendered writer. A value is its bytes; an element of a []uint16 is    *)
(* two of them. <<>> is also the zero value of a cell.                        *)

unit(f) == IF f.base = SliceOf(Basic("uint16")) THEN 2 ELSE 1
Units(f, raw) == [i \in 1 .. Len(raw) \div unit(f) |-> SubSeq(raw, unit(f) * (i - 1) + 1, unit(f) * i)]
prefix(f) == IF f.array = "variable" THEN 2 ELSE 0

\* Mutant: every array of bytes counts as one of sixteen.
scratchElementWireSizeWide(f) == IF f.base.t = "array" THEN 16 ELSE fixedWidth(encodingOf(f.kind))

scratchElementWireSize(f) == IF f.base.t = "array" THEN 4 ELSE fixedWidth(encodingOf(f.kind))

\* Mutant: no size is checked before the scratch slices grow.
renderScratchValidationNone(f, values) == TRUE

\* What is checked of a field before anything is bound: its count and size. (The
\* check against 65535 is implied: an event has fewer bytes.)
renderScratchValidation(f, values) ==
  LET before(i) == prefix(f) + 2 * (i - 1) + Len(FlattenSeq(SubSeq(values, 1, i - 1)))
      length(v) == Len(v) \div unit(f)
  IN  CASE f.array = "scalar" -> length(values[1]) <= (maxEvent - 2) \div unit(f)
        [] f.array # "scalar" /\ (f.base.t = "slice" \/ f.base = Basic("string")) ->
             \A i \in DOMAIN values :
               /\ before(i) <= maxEvent - 2
               /\ length(values[i]) <= (maxEvent - before(i) - 2) \div unit(f)
        [] OTHER -> Len(values) <= (maxEvent - prefix(f)) \div scratchElementWireSize(f)

EmptyScratch == [cells |-> <<>>, length |-> 0]
InUse(s) == SubSeq(s.cells, 1, s.length)

\* Mutant: what is cut off keeps its contents.
renderScratchResizeKeep(s, n) ==
  IF Len(s.cells) < n THEN [cells |-> [i \in 1..n |-> <<>>], length |-> n]
  ELSE [s EXCEPT !.length = n]

renderScratchResize(s, n) ==
  IF Len(s.cells) < n THEN [cells |-> [i \in 1..n |-> <<>>], length |-> n]
  ELSE [cells |-> [i \in DOMAIN s.cells |-> IF i \in n + 1 .. s.length THEN <<>> ELSE s.cells[i]],
        length |-> n]

Fill(s, contents) ==
  [renderScratchResize(s, Len(contents)) EXCEPT
     !.cells = contents \o SubSeq(@, Len(contents) + 1, Len(@))]

\* Mutant: every element is copied to the start of the backing slice.
OffsetsZero(f, values) == [i \in DOMAIN values |-> 0]

\* Where the elements of each value are copied to in the backing slice.
Offsets(f, values) ==
  [i \in DOMAIN values |-> Len(FlattenSeq(SubSeq(values, 1, i - 1))) \div unit(f)]

\* The backing slice, reused when its capacity is enough. Later values overwrite.
FillBacking(f, old, values) ==
  LET count == Len(FlattenSeq(values)) \div unit(f)
      start == IF Len(old) < count THEN [j \in 1..count |-> <<>>] ELSE old
      offsets == Offsets(f, values)
      Copied(i, j) == j - offsets[i] \in DOMAIN Units(f, values[i])
  IN  [j \in DOMAIN start |->
         LET from == {i \in DOMAIN values : Copied(i, j)}
         IN  IF from = {} THEN start[j]
             ELSE Units(f, values[Max(from)])[j - offsets[Max(from)]]]

\* The contents that the scratch slice of a field gets: elements of the value, or
\* slices <<offset, length>> of the backing slice.
Contents(f, values) ==
  IF f.array = "scalar" THEN Units(f, values[1])
  ELSE IF f.backing
  THEN LET offsets == Offsets(f, values)
       IN  [i \in DOMAIN values |-> <<offsets[i], Len(values[i]) \div unit(f)>>]
  ELSE values

\* The value that the binding reads out of the scratch slice.
Passed(f, values, s, b) ==
  IF ~f.scratch THEN values
  ELSE IF f.array = "scalar" THEN <<FlattenSeq(InUse(s))>>
  ELSE IF f.backing
  THEN [i \in 1..s.length |->
          FlattenSeq(SubSeq(b, s.cells[i][1] + 1, s.cells[i][1] + s.cells[i][2]))]
  ELSE InUse(s)

-----------------------------------------------------------------------------
(* Actions. Write and WriteFunc differ in who asks whether the event is      *)
(* enabled; that is the provider's matter.                                    *)

EventFields(type) == analyzeStruct(type, 0)

EventSchema(type) ==
  LET a == EventFields(type)
  IN  IF a.ok THEN NewSchema([i \in DOMAIN a.fields |-> runtimeDefinition(a.fields[i])])
      ELSE NoSchema

\* The generator accepts the type, and the program makes a writer.
NewWriter(type) ==
  /\ leaves = NoWriter
  /\ EventSchema(type).ok
  /\ leaves' = LeavesOf(EventFields(type).fields)
  /\ scratch' = [i \in DOMAIN leaves' |-> EmptyScratch]
  /\ backing' = [i \in DOMAIN leaves' |-> <<>>]
  /\ event' = EventSchema(type)
  /\ boundSchema' = EventSchema(type)
  /\ UNCHANGED <<attempt, todo, refused, boundPayload, index, bound, script, wire>>

Attempts ==
  FoldLeft(LAMBDA acc, f : {Append(a, v) : a \in acc, v \in GoValues(f)}, {<<>>}, leaves)

Preflight(values) ==
  \A i \in DOMAIN leaves : leaves[i].scratch => renderScratchValidation(leaves[i], values[i])

\* bind, up to Reset.
StartWrite(values) ==
  /\ todo = 0
  /\ attempt' = values
  /\ IF Preflight(values)
     THEN /\ refused' = FALSE
          /\ todo' = 1
          /\ boundPayload' = <<>> /\ index' = 0 /\ bound' = <<>>
     ELSE /\ refused' = TRUE
          /\ UNCHANGED <<todo, boundPayload, index, bound>>
  /\ UNCHANGED <<leaves, scratch, backing, event, boundSchema, script, wire>>

\* renderBinding for one field.
BindField ==
  LET f == leaves[todo]
      values == attempt[todo]
      s == Fill(scratch[todo], Contents(f, values))
      b == FillBacking(f, backing[todo], values)
      given == Passed(f, values, s, b)
  IN
  /\ todo \in DOMAIN leaves
  /\ scratch' = IF f.scratch THEN [scratch EXCEPT ![todo] = s] ELSE scratch
  /\ backing' = IF f.backing THEN [backing EXCEPT ![todo] = b] ELSE backing
  /\ \/ /\ begin(f.kind, f.array # "scalar", given)
        /\ todo' = todo + 1
        /\ UNCHANGED refused
     \/ /\ ~fits(Encoded(Plan, given))
        /\ todo' = 0
        /\ refused' = TRUE
        /\ UNCHANGED <<event, boundSchema, boundPayload, index, bound, script, wire>>
  /\ UNCHANGED <<leaves, attempt>>

Emit(ids, level) ==
  /\ todo = Len(leaves) + 1
  /\ Write(ids, level, attempt)
  /\ todo' = 0
  /\ UNCHANGED <<leaves, scratch, backing, attempt, refused>>

WriterInit ==
  /\ leaves = NoWriter
  /\ scratch = <<>> /\ backing = <<>> /\ attempt = <<>>
  /\ todo = 0
  /\ refused = FALSE

WriterNext ==
  /\ Writing
  /\ \/ leaves = NoWriter /\ \E type \in GoStructs : NewWriter(type)
     \/ /\ leaves # NoWriter /\ todo = 0
        /\ \E type \in WrittenStructs : leaves = LeavesOf(EventFields(type).fields)
        /\ \E values \in Attempts : StartWrite(values)
     \/ BindField
     \/ \E ids \in 0..2, level \in Levels : Emit(ids, level)

-----------------------------------------------------------------------------
(* Properties *)

\* A generated writer refuses only a value that no event can hold: neither the
\* checks before the binding nor the binding itself turn away one that fits.
RefusedTooLarge ==
  refused =>
    MetadataSize(event.metadata)
      + FoldLeft(LAMBDA sum, i : sum + Len(Encoded(event.plan[i], attempt[i])), 0,
                 [i \in DOMAIN attempt |-> i]) > maxEvent

\* What a writer keeps between calls is bounded and current: a value too large for
\* an event never makes a scratch slice grow, and behind the value written last
\* nothing of an earlier one is left in the slice.
ScratchKept ==
  leaves # NoWriter => \A i \in DOMAIN leaves :
    LET s == scratch[i]
        width == IF leaves[i].array = "scalar" THEN unit(leaves[i])
                 ELSE Len(Encoded(ValuePlan(leaves[i].kind, "fixed", 1),
                            <<[j \in 1..fixedWidth(encodingOf(leaves[i].kind)) |-> 0]>>))
    IN  /\ Len(s.cells) * width + prefix(leaves[i]) <= maxEvent
        /\ Len(backing[i]) * unit(leaves[i]) <= maxEvent
        /\ \A j \in s.length + 1 .. Len(s.cells) : s.cells[j] = <<>>

\* The Go type that the binding's method takes.
Parameter(f) == IF f.array = "scalar" THEN f.base ELSE SliceOf(f.base)

\* The writer that is rendered for a type the generator accepts compiles: every
\* conversion in it is one that Go has, and what it hands to the binding, the
\* field itself or the scratch slice, has the type of the method's parameter.
WriterTypechecks ==
  leaves # NoWriter => \A i \in DOMAIN leaves :
    LET f == leaves[i]
        type == f.original
        sliced == SliceOf(Elem(type))
        Converted(from, to) == ConvertibleTo(from, to)
    IN  IF f.array # "scalar"
        THEN IF f.direct THEN AssignableTo(IF f.array = "fixed" THEN sliced ELSE type, Parameter(f))
             ELSE LET element == Elem(type) IN
                  CASE f.backing -> Converted(Elem(element), f.base.of)
                    [] ~f.backing /\ f.semantic = "binary-fixed" ->
                         AssignableTo(SliceOf(Elem(element)), f.base)
                    [] ~f.backing /\ f.elementWise ->
                         f.base = ArrayOf(Underlying(element).n, Byte) /\ Converted(Elem(element), Byte)
                    [] OTHER -> Converted(element, f.base)
        ELSE CASE f.scratch -> Converted(Elem(type), f.base.of)
               [] ~f.scratch /\ f.semantic = "binary-fixed" -> AssignableTo(sliced, f.base)
               [] ~f.scratch /\ f.elementWise ->
                    f.base = ArrayOf(Underlying(type).n, Byte) /\ Converted(Elem(type), Byte)
               [] ~f.scratch /\ f.semantic \in {"binary", "utf16"} -> AssignableTo(type, f.base)
               [] OTHER -> Converted(type, f.base)
=============================================================================

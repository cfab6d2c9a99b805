----------------------------- MODULE TraceFormat -----------------------------
(***************************************************************************)
(* tracefs: ParseFormat reads the description of a tracepoint line by line *)
(* (format.go, declaration.go) and Decode reads a record with it           *)
(* (decode.go). A declaration is its tokens, attributes removed. A number  *)
(* of a record is its bytes, the lowest first, with the kind that says     *)
(* whether the highest bit is a sign: all widths then fit TLC's integers.  *)
(***************************************************************************)
EXTENDS Integers, Sequences, SequencesExt, FiniteSetsExt

CONSTANTS
  MaxInt,      \* math.MaxInt
  MaxFields,   \* ParseOptions
  MaxArray,    \* DecodeOptions.MaxArrayElements
  Number,      \* the tokens that are numbers, and their values
  Within,      \* the words that contain another one: "ulong" has "long" in it
  CommonNames  \* the names that begin with common_

ASSUME TraceFormatAssumption ==
  /\ {MaxInt, MaxFields, MaxArray} \subseteq Nat \ {0}
  /\ \A t \in DOMAIN Number : Number[t] \in Nat

Bad == [ok |-> FALSE]

-----------------------------------------------------------------------------
(* parseDeclaration *)

Locations == {"__data_loc", "__rel_loc"}
isQualifier(t) == t \in {"const", "volatile", "__user"}
isNumber(t) == t \in DOMAIN Number
isIdentifier(t) == t \notin {"*", "[", "]"} \cup DOMAIN Number

\* A flexible array before the name is the spelling of dynamic arrays.
findNameToken(tokens) ==
  LET after == {i \in 3..Len(tokens) :
                  tokens[i - 2] = "[" /\ tokens[i - 1] = "]" /\ isIdentifier(tokens[i])}
      names == {i \in DOMAIN tokens : isIdentifier(tokens[i]) /\ ~isQualifier(tokens[i])}
  IN  IF after # {} THEN Min(after) ELSE IF names # {} THEN Max(names) ELSE 0

arrayStart(tokens, name) ==
  LET before == {i \in 1 .. name - 2 : tokens[i] = "[" /\ tokens[i + 1] = "]"}
  IN  IF name < Len(tokens) /\ tokens[name + 1] = "[" THEN name + 1
      ELSE IF before # {} THEN Min(before) ELSE 0

\* -1: no array, 0: a flexible one, -2: refused.
arrayLen(tokens, at) ==
  IF at = 0 THEN -1
  ELSE IF at + 1 > Len(tokens) THEN -2
  ELSE IF tokens[at + 1] = "]" THEN 0
  ELSE IF at + 2 > Len(tokens) THEN -2
  ELSE IF tokens[at + 2] # "]" \/ ~isNumber(tokens[at + 1]) THEN -2
  ELSE IF Number[tokens[at + 1]] = 0 THEN -2 ELSE Number[tokens[at + 1]]

containsWord(words, w) ==
  \E i \in DOMAIN words :
    words[i] = w \/ (words[i] \in DOMAIN Within /\ w \in Within[words[i]])

\* The sized aliases that occur: u8, __u16, int32_t and so on are one case each.
sizedAlias ==
  [u8 |-> <<"unsigned", 1>>, u16 |-> <<"unsigned", 2>>, s16 |-> <<"signed", 2>>,
   int32_t |-> <<"signed", 4>>, __u64 |-> <<"unsigned", 8>>]

integerKind(words) == IF containsWord(words, "unsigned") THEN "unsigned" ELSE "signed"

\* The kind and the width of a type.
classifyType(words, pointer, longSize) ==
  CASE pointer -> <<"unsigned", longSize>>
    [] ~pointer /\ Len(words) = 1 /\ words[1] \in DOMAIN sizedAlias -> sizedAlias[words[1]]
    [] OTHER ->
         IF words \in {<<"char">>, <<"signed", "char">>} THEN <<"char", 1>>
         ELSE IF words = <<"unsigned", "char">> THEN <<"unsigned", 1>>
         ELSE IF \E i \in 2..Len(words) : words[i - 1] = "long" /\ words[i] = "long"
         THEN <<integerKind(words), 8>>
         ELSE IF containsWord(words, "long") THEN <<integerKind(words), longSize>>
         ELSE IF containsWord(words, "short") THEN <<integerKind(words), 2>>
         ELSE IF words \in {<<"int">>, <<"signed">>, <<"signed", "int">>} THEN <<"signed", 4>>
         ELSE IF words \in {<<"unsigned">>, <<"unsigned", "int">>} THEN <<"unsigned", 4>>
         ELSE IF words = <<"float">> THEN <<"float", 4>>
         ELSE IF words = <<"double">> THEN <<"float", 8>>
         ELSE IF words = <<"bool">> THEN <<"bool", 1>>
         ELSE <<"opaque", 0>>

parseDeclaration(decl, longSize) ==
  LET locations == SelectSeq(decl, LAMBDA t : t \in Locations)
      tokens == SelectSeq(decl, LAMBDA t : t \notin Locations)
      name == findNameToken(tokens)
      n == arrayLen(tokens, arrayStart(tokens, name))
      words == SelectSeq(RemoveAt(tokens, name), LAMBDA t : isIdentifier(t) /\ ~isQualifier(t))
      type == classifyType(words, \E i \in 1 .. name - 1 : tokens[i] = "*", longSize)
  IN  IF Len(tokens) < 2 \/ name = 0 THEN Bad
      ELSE IF n = -2 THEN Bad
      ELSE [ok |-> TRUE, name |-> tokens[name], kind |-> type[1], width |-> type[2],
            arrayLen |-> n, location |-> IF locations = <<>> THEN "none" ELSE Last(locations),
            scalar |-> n = -1 /\ ~\E i \in DOMAIN words : words[i] \in {"struct", "union"}]

-----------------------------------------------------------------------------
(* ParseFormat *)

\* A line is [kind, valid, decl, props]; the properties of a field are pairs of a
\* key and a value, -1 for a value that cannot be read.
Line(kind) == [kind |-> kind, valid |-> TRUE, decl |-> <<>>, props |-> <<>>]
FieldLine(decl, props) == [Line("field") EXCEPT !.decl = decl, !.props = props]

\* A typedef or an enumeration has the width of the field's size.
withOpaqueWidth(f) ==
  IF f.kind = "opaque" /\ f.location = "none" /\ f.scalar /\ f.size \in {1, 2, 4, 8}
  THEN [f EXCEPT !.width = f.size, !.kind = IF f.signed = 1 THEN "signed" ELSE "unsigned"]
  ELSE f

\* Mutant: the declared width is compared and the length of the array is not.
sizeAgreesWidth(f) ==
  f.location = "none" /\ f.size # 0 /\ f.kind # "opaque" /\ f.arrayLen = -1 => f.width = f.size

sizeAgrees(f) ==
  f.location = "none" /\ f.size # 0 /\ f.kind # "opaque" =>
    CASE f.arrayLen = -1 -> f.width = f.size
      [] f.arrayLen = 0 -> TRUE
      [] OTHER -> f.arrayLen <= MaxInt \div f.width /\ f.width * f.arrayLen = f.size

\* signed is -1 without that property.
parseFieldLine(line, longSize) ==
  LET declared == parseDeclaration(line.decl, longSize)
      Of(key) == SelectSeq(line.props, LAMBDA p : p[1] = key)
      offset == Of("offset")[1][2]
      size == Of("size")[1][2]
      signed == IF Of("signed") = <<>> THEN -1 ELSE Of("signed")[1][2]
      f == withOpaqueWidth(
             [n \in DOMAIN declared \cup {"offset", "size", "signed"} |->
                CASE n = "offset" -> offset [] n = "size" -> size [] n = "signed" -> signed
                  [] OTHER -> declared[n]])
  IN  IF ~declared.ok \/ Of("malformed") # <<>> THEN Bad
      ELSE IF Len(Of("offset")) # 1 \/ Len(Of("size")) # 1 \/ Len(Of("signed")) > 1 THEN Bad
      ELSE IF offset \notin 0..MaxInt \/ size \notin 0..MaxInt THEN Bad
      ELSE IF Of("signed") # <<>> /\ signed \notin {0, 1} THEN Bad
      ELSE IF offset > MaxInt - size THEN Bad
      ELSE IF f.location # "none" /\ size \notin {2, 4} THEN Bad
      ELSE IF ~sizeAgrees(f) THEN Bad ELSE f

Once == {"format", "name", "ID", "print"}

\* Mutant: an empty line does not end the common fields.
endsCommonNever(s) == FALSE

\* An empty line after a field of the format section ends the common fields.
endsCommon(s) == "format" \in s.seen /\ (s.common # <<>> \/ s.fields # <<>>)

parseLine(s, line, longSize) ==
  LET f == parseFieldLine(line, longSize)
      user == s.user \/ f.name \notin CommonNames
  IN  IF ~s.ok THEN s
      ELSE CASE line.kind = "blank" -> IF endsCommon(s) THEN [s EXCEPT !.user = TRUE] ELSE s
             [] line.kind \in Once ->
                  IF line.kind \in s.seen \/ ~line.valid THEN Bad
                  ELSE [s EXCEPT !.seen = @ \cup {line.kind}]
             [] line.kind = "field" ->
                  IF "format" \notin s.seen THEN Bad
                  ELSE IF ~f.ok THEN Bad
                  ELSE IF Len(s.common) + Len(s.fields) >= MaxFields THEN Bad
                  ELSE IF user THEN [s EXCEPT !.user = TRUE, !.fields = Append(@, f)]
                  ELSE [s EXCEPT !.common = Append(@, f)]
             [] line.kind = "property" -> s
             [] OTHER -> Bad

\* FoldLeft, by the position: proofs follow the lines one by one.
OverLines(Step(_, _), first, lines) ==
  LET after[i \in 0..Len(lines)] ==
        IF i = 0 THEN first ELSE Step(after[i - 1], lines[i])
  IN  after[Len(lines)]

\* longSize is kept for Decode.
ParseFormat(lines, longSize) ==
  LET s == OverLines(LAMBDA acc, line : parseLine(acc, line, longSize),
             [ok |-> TRUE, seen |-> {}, user |-> FALSE, common |-> <<>>, fields |-> <<>>,
              longSize |-> longSize], lines)
  IN  IF ~s.ok THEN Bad ELSE IF {"name", "ID", "format"} \subseteq s.seen THEN s ELSE Bad

-----------------------------------------------------------------------------
(* Decode *)

Value(kind, what) == [ok |-> TRUE, kind |-> kind, value |-> what]

readUint(raw, order) == IF order = "little" THEN raw ELSE Reverse(raw)

\* Of the part of a number, two bytes.
Low16(number, at) == number[at] + 256 * number[at + 1]

indexNUL(data) ==
  LET nuls == {i \in DOMAIN data : data[i] = 0} IN IF nuls = {} THEN -1 ELSE Min(nuls) - 1

Slice(data, offset, size) == SubSeq(data, offset + 1, offset + size)

\* A value whose kind is signed is sign-extended from its width.
decodeScalar(f, raw, order) ==
  LET width == IF f.width = 0 THEN Len(raw) ELSE f.width
      kind == IF f.signed # -1 /\ f.kind \notin {"float", "bool"}
              THEN IF f.signed = 1 THEN "signed" ELSE "unsigned"
              ELSE IF f.kind = "char" THEN "signed" ELSE f.kind
      number == readUint(raw, order)
  IN  IF Len(raw) # width \/ width \notin {1, 2, 4, 8} THEN Bad
      ELSE Value(kind, IF kind = "bool" THEN \E i \in DOMAIN number : number[i] # 0 ELSE number)

decodeArray(f, raw, order) ==
  LET count == IF f.arrayLen = 0 THEN Len(raw) \div f.width ELSE f.arrayLen
      Element(i) == decodeScalar(f, Slice(raw, (i - 1) * f.width, f.width), order)
  IN  IF f.arrayLen = 0 /\ Len(raw) % f.width # 0 THEN Bad
      ELSE IF count > MaxArray \/ count > MaxInt \div f.width THEN Bad
      ELSE IF count * f.width # Len(raw) THEN Bad
      ELSE Value("array", [i \in 1..count |-> Element(i)])

decodeDirect(f, raw, order) ==
  IF f.kind = "opaque" THEN Value("binary", raw)
  ELSE IF f.kind = "char" /\ f.arrayLen >= 0
  THEN Value("text", IF indexNUL(raw) >= 0 THEN SubSeq(raw, 1, indexNUL(raw)) ELSE raw)
  ELSE IF f.arrayLen >= 0 THEN decodeArray(f, raw, order)
  ELSE decodeScalar(f, raw, order)

fieldBytes(f, data) ==
  LET size == IF f.size = 0 THEN Len(data) - f.offset ELSE f.size
  IN  IF f.offset > Len(data) THEN Bad
      ELSE IF size > Len(data) - f.offset THEN Bad
      ELSE [ok |-> TRUE, raw |-> Slice(data, f.offset, size)]

\* Mutant: a relative location counts from the descriptor.
relativeBaseStart(f) == f.offset

\* A relative location counts from the end of the descriptor.
relativeBase(f) == f.offset + f.size

\* A descriptor of two bytes is the offset of a string with its NUL; one of four
\* has the offset in its lower half and the length in the upper one.
decodeLocation(f, data, descriptor, order) ==
  LET number == readUint(descriptor, order)
      given == Low16(number, 1)
      base == IF f.location = "__rel_loc" THEN relativeBase(f) ELSE 0
      offset == given + base
      nul == indexNUL(SubSeq(data, offset + 1, Len(data)))
      length == IF Len(descriptor) = 2 THEN nul + 1 ELSE Low16(number, 3)
  IN  IF given > MaxInt - base THEN Bad
      ELSE IF offset > Len(data) THEN Bad
      ELSE IF Len(descriptor) = 2 /\ nul = -1 THEN Bad
      ELSE IF length > Len(data) - offset THEN Bad
      ELSE decodeDirect(f, Slice(data, offset, length), order)

\* A field that cannot be decoded has a diagnostic and no value.
decodeField(f, data, order) ==
  LET bytes == fieldBytes(f, data)
  IN  IF ~bytes.ok THEN Bad
      ELSE IF f.location # "none" THEN decodeLocation(f, data, bytes.raw, order)
      ELSE decodeDirect(f, bytes.raw, order)

decodeFields(formats, data, order) ==
  [i \in DOMAIN formats |-> decodeField(formats[i], data, order)]

\* perfdata passes the long size of the tracing data.
DecodeRecord(format, data, order, longSize) ==
  IF format.longSize # longSize THEN Bad
  ELSE [ok |-> TRUE, common |-> decodeFields(format.common, data, order),
        fields |-> decodeFields(format.fields, data, order)]
=============================================================================

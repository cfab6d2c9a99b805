-------------------------- MODULE TracepointProofs --------------------------
(***************************************************************************)
(* What ParseFormat accepts Decode reads, for every description and record *)
(***************************************************************************)
EXTENDS Tracepoint, SequenceTheorems, WellFoundedInduction, TLAPS

TracepointSpec == TracepointInit /\ [][TracepointNext]_tracepointVars

-----------------------------------------------------------------------------
(* Induction over sets of naturals *)

LEMMA LeastNatural ==
  ASSUME NEW T \in SUBSET Nat, T # {}
  PROVE  \E x \in T : \A y \in T : x <= y
<1> DEFINE R == OpToRel(<, Nat)
<1>1. IsWellFoundedOn(R, Nat)
  BY NatLessThanWellFounded
<1>2. \A x, y \in Nat : x < y => <<x, y>> \in R
  BY DEF OpToRel
<1> HIDE DEF R
<1>3. PICK x \in T : \A y \in T : <<y, x>> \notin R
  BY <1>1, WFMin
<1>4. \A y \in T : ~ (y < x)
  BY <1>2, <1>3
<1> QED BY <1>4

LEMMA SetInduction ==
  ASSUME NEW S \in SUBSET Nat, 0 \in S, \A n \in S : n + 1 \in S
  PROVE  S = Nat
<1> SUFFICES ASSUME Nat \ S # {} PROVE FALSE
  OBVIOUS
<1>1. PICK x \in Nat \ S : \A y \in Nat \ S : x <= y
  BY LeastNatural
<1>2. x # 0 /\ x - 1 \in Nat /\ x - 1 \notin Nat \ S
  BY <1>1
<1> QED BY <1>1, <1>2

-----------------------------------------------------------------------------
(* A field that was accepted *)

Widths == {1, 2, 4, 8}

\* What is known of the type of a declaration, and of a field.
Declared(d) ==
  /\ d.arrayLen \in Nat \cup {-1}
  /\ d.kind # "opaque" => d.width \in Widths

Accepted(f) ==
  /\ Declared(f)
  /\ f.offset \in Nat /\ f.size \in Nat
  /\ sizeAgrees(f)

LEMMA AliasType ==
  ASSUME NEW w \in DOMAIN sizedAlias
  PROVE  sizedAlias[w][2] \in Widths
BY DEF sizedAlias, Widths

LEMMA ClassifyType ==
  ASSUME NEW words, NEW pointer \in BOOLEAN, NEW longSize \in {4, 8}
  PROVE  LET type == classifyType(words, pointer, longSize)
         IN  type[1] # "opaque" => type[2] \in Widths
<1>1. CASE pointer
  BY <1>1 DEF classifyType, Widths
<1>2. CASE ~pointer /\ Len(words) = 1 /\ words[1] \in DOMAIN sizedAlias
  <2>1. classifyType(words, pointer, longSize) = sizedAlias[words[1]]
    BY <1>2 DEF classifyType
  <2> QED BY <1>2, <2>1, AliasType
<1>3. CASE ~pointer /\ ~(Len(words) = 1 /\ words[1] \in DOMAIN sizedAlias)
  BY <1>3 DEF classifyType, Widths
<1> QED BY <1>1, <1>2, <1>3

LEMMA ArrayLength ==
  ASSUME NEW tokens, NEW at
  PROVE  arrayLen(tokens, at) \in Nat \cup {-1, -2}
BY TraceFormatAssumption DEF arrayLen, isNumber

LEMMA ParseDeclaration ==
  ASSUME NEW decl, NEW longSize \in {4, 8}, parseDeclaration(decl, longSize).ok
  PROVE  Declared(parseDeclaration(decl, longSize))
<1> DEFINE tokens == SelectSeq(decl, LAMBDA t : t \notin Locations)
           name == findNameToken(tokens)
           n == arrayLen(tokens, arrayStart(tokens, name))
           words == SelectSeq(RemoveAt(tokens, name), LAMBDA t : isIdentifier(t) /\ ~isQualifier(t))
           pointer == \E i \in 1 .. name - 1 : tokens[i] = "*"
           type == classifyType(words, pointer, longSize)
           d == parseDeclaration(decl, longSize)
<1>1. d # Bad
  BY DEF Bad
<1>2. n # -2 /\ d.kind = type[1] /\ d.width = type[2] /\ d.arrayLen = n
  BY <1>1 DEF parseDeclaration
<1>3. n \in Nat \cup {-1, -2}
  BY ArrayLength
<1>4. type[1] # "opaque" => type[2] \in Widths
  BY ClassifyType
<1> QED BY <1>2, <1>3, <1>4 DEF Declared

LEMMA OpaqueWidth ==
  ASSUME NEW f, Declared(f), "kind" \in DOMAIN f, "width" \in DOMAIN f
  PROVE  LET g == withOpaqueWidth(f)
         IN  Declared(g) /\ g.offset = f.offset /\ g.size = f.size
BY DEF withOpaqueWidth, Declared, Widths

LEMMA ParseField ==
  ASSUME NEW line, NEW longSize \in {4, 8}, parseFieldLine(line, longSize).ok
  PROVE  Accepted(parseFieldLine(line, longSize))
<1> DEFINE declared == parseDeclaration(line.decl, longSize)
           Of(key) == SelectSeq(line.props, LAMBDA p : p[1] = key)
           offset == Of("offset")[1][2]
           size == Of("size")[1][2]
           signed == IF Of("signed") = <<>> THEN -1 ELSE Of("signed")[1][2]
           g == [n \in DOMAIN declared \cup {"offset", "size", "signed"} |->
                   CASE n = "offset" -> offset [] n = "size" -> size [] n = "signed" -> signed
                     [] OTHER -> declared[n]]
           f == withOpaqueWidth(g)
<1>1. parseFieldLine(line, longSize) # Bad
  BY DEF Bad
<1>2. /\ declared.ok /\ parseFieldLine(line, longSize) = f
      /\ offset \in 0..MaxInt /\ size \in 0..MaxInt /\ sizeAgrees(f)
  BY <1>1 DEF parseFieldLine
<1>3. Declared(declared)
  BY <1>2, ParseDeclaration
<1>4. {"kind", "width", "arrayLen"} \subseteq DOMAIN declared
  BY <1>2 DEF parseDeclaration, Bad
<1> HIDE DEF declared, offset, size, signed
<1>5. g.offset = offset /\ g.size = size
  OBVIOUS
<1>6. /\ g.kind = declared.kind /\ g.width = declared.width /\ g.arrayLen = declared.arrayLen
      /\ "kind" \in DOMAIN g /\ "width" \in DOMAIN g
  BY <1>4
<1> HIDE DEF g
<1>7. Declared(g)
  BY <1>3, <1>6 DEF Declared
<1>8. Declared(f) /\ f.offset = g.offset /\ f.size = g.size
  BY <1>6, <1>7, OpaqueWidth
<1>9. offset \in Nat /\ size \in Nat
  BY <1>2, TraceFormatAssumption
<1> QED BY <1>2, <1>5, <1>8, <1>9 DEF Accepted

-----------------------------------------------------------------------------
(* ParseFormat *)

Start(longSize) ==
  [ok |-> TRUE, seen |-> {}, user |-> FALSE, common |-> <<>>, fields |-> <<>>, longSize |-> longSize]

\* The state of ParseFormat after each line.
IsLineLoop(after, lines, longSize) ==
  after = [i \in 0..Len(lines) |->
             IF i = 0 THEN Start(longSize) ELSE parseLine(after[i - 1], lines[i], longSize)]

LEMMA LineLoopExists ==
  ASSUME NEW lines, Len(lines) \in Nat, NEW longSize
  PROVE  \E after : IsLineLoop(after, lines, longSize)
<1> DEFINE Upto(n, g) == g = [i \in 0..n |->
                           IF i = 0 THEN Start(longSize)
                           ELSE parseLine(g[i - 1], lines[i], longSize)]
           S == {n \in Nat : \E g : Upto(n, g)}
<1>1. 0 \in S
  <2>1. Upto(0, [i \in 0..0 |-> Start(longSize)])
    OBVIOUS
  <2> QED BY <2>1
<1>2. ASSUME NEW n \in S PROVE n + 1 \in S
  <2>1. PICK g : Upto(n, g)
    BY <1>2
  <2> DEFINE h == [i \in 0..(n + 1) |->
                     IF i = n + 1 THEN parseLine(g[n], lines[n + 1], longSize) ELSE g[i]]
  <2>2. \A i \in 0..n : h[i] = g[i]
    OBVIOUS
  <2>3. ASSUME NEW i \in 0..(n + 1)
        PROVE  h[i] = IF i = 0 THEN Start(longSize) ELSE parseLine(h[i - 1], lines[i], longSize)
    <3>1. CASE i = n + 1
      BY <2>2, <3>1
    <3>2. CASE i \in 0..n
      <4>1. g[i] = IF i = 0 THEN Start(longSize) ELSE parseLine(g[i - 1], lines[i], longSize)
        BY <2>1, <3>2
      <4>2. i # 0 => h[i - 1] = g[i - 1]
        BY <2>2, <3>2
      <4> QED BY <2>2, <3>2, <4>1, <4>2
    <3> QED BY <3>1, <3>2
  <2>4. Upto(n + 1, h)
    BY <2>3
  <2> HIDE DEF h, Upto
  <2>5. \E f : Upto(n + 1, f)
    BY <2>4
  <2> QED BY <2>5
<1>3. S \in SUBSET Nat
  OBVIOUS
<1> HIDE DEF S
<1>4. S = Nat
  BY <1>1, <1>2, <1>3, SetInduction
<1>5. Len(lines) \in S
  BY <1>4
<1> QED BY <1>5 DEF S, IsLineLoop

\* The fields of a format were all accepted.
AllAccepted(fields) == \E S : fields \in Seq(S) /\ \A f \in S : Accepted(f)

\* A state of ParseFormat, or an error.
Parsing(s) ==
  s.ok =>
    /\ s = [ok |-> s.ok, seen |-> s.seen, user |-> s.user, common |-> s.common,
            fields |-> s.fields, longSize |-> s.longSize]
    /\ AllAccepted(s.common) /\ AllAccepted(s.fields)

LEMMA AppendAccepted ==
  ASSUME NEW fields, AllAccepted(fields), NEW f, Accepted(f)
  PROVE  AllAccepted(Append(fields, f))
<1>1. PICK S : fields \in Seq(S) /\ \A g \in S : Accepted(g)
  BY DEF AllAccepted
<1> DEFINE T == S \cup {f}
<1>2. fields \in Seq(T) /\ f \in T /\ \A g \in T : Accepted(g)
  BY <1>1
<1> HIDE DEF T
<1>3. Append(fields, f) \in Seq(T)
  BY <1>2
<1> QED BY <1>2, <1>3 DEF AllAccepted

LEMMA ParseLine ==
  ASSUME NEW s, NEW line, NEW longSize \in {4, 8}, Parsing(s)
  PROVE  Parsing(parseLine(s, line, longSize))
<1> DEFINE f == parseFieldLine(line, longSize)
           next == parseLine(s, line, longSize)
           user == s.user \/ f.name \notin CommonNames
<1> SUFFICES ASSUME next.ok PROVE Parsing(next)
  BY DEF Parsing
<1>1. f.ok => Accepted(f)
  BY ParseField
<1> HIDE DEF f
<1>2. s.ok
  BY DEF parseLine
<1>3. next # Bad
  BY DEF Bad
<1>4. /\ s = [ok |-> s.ok, seen |-> s.seen, user |-> s.user, common |-> s.common,
              fields |-> s.fields, longSize |-> s.longSize]
      /\ AllAccepted(s.common) /\ AllAccepted(s.fields)
  BY <1>2 DEF Parsing
<1>5. \/ next = s
      \/ \E x : next = [s EXCEPT !.user = x] \/ next = [s EXCEPT !.seen = x]
      \/ f.ok /\ next = [s EXCEPT !.user = TRUE, !.fields = Append(s.fields, f)]
      \/ f.ok /\ next = [s EXCEPT !.common = Append(s.common, f)]
  <2>1. CASE line.kind = "blank"
    BY <1>2, <2>1 DEF parseLine, Once
  <2>2. CASE line.kind \in Once
    BY <1>2, <1>3, <2>2 DEF parseLine, Once
  <2>3. CASE line.kind = "field"
    <3>1. f.ok /\ next = IF user THEN [s EXCEPT !.user = TRUE, !.fields = Append(@, f)]
                         ELSE [s EXCEPT !.common = Append(@, f)]
      BY <1>2, <1>3, <2>3 DEF parseLine, Once, f
    <3> QED BY <3>1
  <2>4. CASE line.kind = "property"
    BY <1>2, <1>3, <2>4 DEF parseLine, Once
  <2>5. CASE line.kind \notin {"blank", "field", "property"} \cup Once
    BY <1>2, <1>3, <2>5 DEF parseLine
  <2> QED BY <2>1, <2>2, <2>3, <2>4, <2>5
<1>6. f.ok => AllAccepted(Append(s.fields, f)) /\ AllAccepted(Append(s.common, f))
  BY <1>1, <1>4, AppendAccepted
<1> HIDE DEF next
<1>7. ASSUME NEW x, next = [s EXCEPT !.user = x] \/ next = [s EXCEPT !.seen = x]
      PROVE  Parsing(next)
  BY <1>4, <1>7 DEF Parsing
<1>8. CASE f.ok /\ next = [s EXCEPT !.user = TRUE, !.fields = Append(s.fields, f)]
  BY <1>4, <1>6, <1>8 DEF Parsing
<1>9. CASE f.ok /\ next = [s EXCEPT !.common = Append(s.common, f)]
  BY <1>4, <1>6, <1>9 DEF Parsing
<1> QED BY <1>5, <1>7, <1>8, <1>9

LEMMA ParsedFormat ==
  ASSUME NEW lines, Len(lines) \in Nat, NEW longSize \in {4, 8}
  PROVE  Parsing(ParseFormat(lines, longSize))
<1> DEFINE after == CHOOSE g : IsLineLoop(g, lines, longSize)
           S == {n \in Nat : n <= Len(lines) => Parsing(after[n])}
<1>1. IsLineLoop(after, lines, longSize)
  BY LineLoopExists
<1>2. LET s == after[Len(lines)]
      IN  ParseFormat(lines, longSize)
            = IF ~s.ok THEN Bad ELSE IF {"name", "ID", "format"} \subseteq s.seen THEN s ELSE Bad
  BY DEF ParseFormat, OverLines, IsLineLoop, Start
<1> HIDE DEF after
<1>3. 0 \in S
  <2>1. after[0] = Start(longSize)
    BY <1>1 DEF IsLineLoop
  <2> DEFINE none == <<>>
  <2>2. none \in Seq({})
    OBVIOUS
  <2>3. AllAccepted(none)
    BY <2>2 DEF AllAccepted
  <2> QED BY <2>1, <2>3 DEF Parsing, Start
<1>4. ASSUME NEW n \in S PROVE n + 1 \in S
  <2> SUFFICES ASSUME n + 1 <= Len(lines) PROVE Parsing(after[n + 1])
    OBVIOUS
  <2>1. Parsing(after[n])
    BY <1>4
  <2>2. after[n + 1] = parseLine(after[n], lines[n + 1], longSize)
    BY <1>1 DEF IsLineLoop
  <2> QED BY <2>1, <2>2, ParseLine
<1> HIDE DEF S
<1>5. S = Nat
  BY <1>3, <1>4, SetInduction DEF S
<1>6. Parsing(after[Len(lines)])
  BY <1>5 DEF S
<1>7. Parsing(Bad)
  BY DEF Parsing, Bad
<1> QED BY <1>2, <1>6, <1>7

-----------------------------------------------------------------------------
(* Decode *)

LEMMA SliceLength ==
  ASSUME NEW data, NEW offset \in Nat, NEW size \in Nat
  PROVE  Len(Slice(data, offset, size)) = size
<1> DEFINE S == {data[i] : i \in offset + 1 .. offset + size}
<1>1. \A i \in offset + 1 .. offset + size : data[i] \in S
  OBVIOUS
<1> HIDE DEF S
<1>2. Len(SubSeq(data, offset + 1, offset + size)) = IF offset + 1 <= offset + size THEN size ELSE 0
  BY <1>1, SubSeqProperties
<1> QED BY <1>2 DEF Slice

Limited(f) == f.kind \notin {"opaque", "char"} /\ f.arrayLen > MaxArray

\* decodeDirect, given as many bytes as the field has.
LEMMA DirectDecodes ==
  ASSUME NEW f, Accepted(f), f.location = "none", f.size # 0, f.arrayLen # 0, ~Limited(f),
         NEW raw, Len(raw) = f.size, NEW order
  PROVE  decodeDirect(f, raw, order).ok
<1>0. \A kind, what : Value(kind, what).ok
  BY DEF Value
<1>1. CASE f.kind = "opaque"
  BY <1>0, <1>1 DEF decodeDirect
<1>2. CASE f.kind # "opaque" /\ f.arrayLen = -1
  <2>1. f.width \in Widths /\ f.width = f.size
    BY <1>2 DEF Accepted, Declared, sizeAgrees
  <2>2. decodeScalar(f, raw, order).ok
    BY <1>0, <2>1 DEF decodeScalar, Widths
  <2>3. decodeDirect(f, raw, order) = decodeScalar(f, raw, order)
    BY <1>2 DEF decodeDirect
  <2> QED BY <2>2, <2>3
<1>3. CASE f.kind = "char" /\ f.arrayLen # -1
  BY <1>0, <1>3 DEF decodeDirect, Accepted, Declared
<1>4. CASE f.kind \notin {"opaque", "char"} /\ f.arrayLen # -1
  <2>1. f.arrayLen \in Nat /\ f.width \in Widths
    BY <1>4 DEF Accepted, Declared
  <2>2. f.arrayLen <= MaxInt \div f.width /\ f.width * f.arrayLen = f.size
    BY <1>4, <2>1 DEF Accepted, sizeAgrees
  <2>3. f.arrayLen <= MaxArray
    BY <1>4, <2>1, TraceFormatAssumption DEF Limited
  <2>4. ~(f.arrayLen > MaxArray) /\ ~(f.arrayLen > MaxInt \div f.width)
    BY <2>1, <2>2, <2>3, TraceFormatAssumption DEF Widths
  <2>5. f.arrayLen * f.width = Len(raw)
    BY <2>1, <2>2 DEF Widths
  <2>6. decodeArray(f, raw, order).ok
    BY <1>0, <2>4, <2>5 DEF decodeArray
  <2>7. decodeDirect(f, raw, order) = decodeArray(f, raw, order)
    BY <1>4, <2>1 DEF decodeDirect
  <2> QED BY <2>6, <2>7
<1> QED BY <1>1, <1>2, <1>3, <1>4

LEMMA FieldDecodes ==
  ASSUME NEW f, Accepted(f), f.location = "none", f.size # 0, f.arrayLen # 0, ~Limited(f),
         NEW data, Len(data) \in Nat, f.size <= Len(data) - f.offset, NEW order
  PROVE  decodeField(f, data, order).ok
<1>1. f.offset \in Nat /\ f.size \in Nat
  BY DEF Accepted
<1> DEFINE raw == Slice(data, f.offset, f.size)
<1>2. Len(raw) = f.size
  BY <1>1, SliceLength
<1> HIDE DEF raw
<1>3. fieldBytes(f, data) = [ok |-> TRUE, raw |-> raw]
  BY <1>1 DEF fieldBytes, raw
<1>4. decodeField(f, data, order) = decodeDirect(f, raw, order)
  BY <1>3 DEF decodeField
<1> QED BY <1>2, <1>4, DirectDecodes

-----------------------------------------------------------------------------
(* The reader *)

\* The format was accepted, and what was decoded is of the sample that is kept.
ReaderInv ==
  /\ Parsing(format)
  /\ ordinary.ok =>
       /\ format.ok /\ Len(sample) \in Nat
       /\ \E order : ordinary.fields = decodeFields(format.fields, sample, order)

LEMMA KernelLinesLength ==
  ASSUME NEW members, Len(members) \in Nat, NEW common \in 0..Len(members)
  PROVE  Len(KernelLines(members, common)) \in Nat
<1> DEFINE Field(i) == FieldLine(members[i].decl,
                         <<<<"offset", OffsetOf(members, i)>>, <<"size", Extent(members[i])>>,
                           <<"signed", members[i].signed>>>>)
           n == Len(members) - common
           S == {Field(i) : i \in 1..Len(members)} \cup {Line("name"), Line("ID"), Line("format"), Line("blank"), Line("print")}
           first == <<Line("name"), Line("ID"), Line("format")>>
           second == [i \in 1..common |-> Field(i)]
           third == <<Line("blank")>>
           fourth == [i \in 1..n |-> Field(common + i)]
           fifth == <<Line("blank"), Line("print")>>
<1>1. {Line("name"), Line("ID"), Line("format"), Line("blank"), Line("print")} \subseteq S
  OBVIOUS
<1>2. n \in Nat /\ \A i \in 1..n : common + i \in 1..Len(members)
  OBVIOUS
<1>3. \A i \in 1..Len(members) : Field(i) \in S
  OBVIOUS
<1> HIDE DEF S, n, Field
<1>4. first \in Seq(S) /\ third \in Seq(S) /\ fifth \in Seq(S)
  BY <1>1
<1>5. second \in Seq(S)
  BY <1>3, IsASeq
<1>6. fourth \in Seq(S)
  BY <1>2, <1>3, IsASeq
<1>7. KernelLines(members, common) = first \o second \o third \o fourth \o fifth
  BY DEF KernelLines, n, Field
<1> HIDE DEF first, second, third, fourth, fifth
<1>8. first \o second \o third \o fourth \o fifth \in Seq(S)
  BY <1>4, <1>5, <1>6
<1> QED BY <1>7, <1>8, LenProperties

LEMMA OpenStep ==
  ASSUME NEW s, Len(s.lines) \in Nat, s.longSize \in {4, 8}, ReaderInv, OpenFormat(s)
  PROVE  ReaderInv'
<1>1. Parsing(format')
  BY ParsedFormat DEF OpenFormat
<1>2. ~format.ok
  BY DEF OpenFormat, NoFormat
<1> QED BY <1>1, <1>2 DEF ReaderInv, OpenFormat

LEMMA DecodeStep ==
  ASSUME NEW raw, Len(raw) \in Nat, NEW longSize, ReaderInv, DecodeOrdinary(raw, longSize)
  PROVE  ReaderInv'
<1>1. ordinary'.ok => ordinary'.fields = decodeFields(format.fields, raw, source.order)
  BY DEF DecodeOrdinary, DecodeRecord, Bad
<1> QED BY <1>1 DEF ReaderInv, DecodeOrdinary

LEMMA CutLength ==
  ASSUME NEW s, NEW cut \in Int, cut >= 1
  PROVE  Len(SubSeq(s, 1, cut)) \in Nat
<1> DEFINE S == {s[i] : i \in 1..cut}
<1>1. \A i \in 1..cut : s[i] \in S
  OBVIOUS
<1> HIDE DEF S
<1> QED BY <1>1, SubSeqProperties

LEMMA ReaderStep ==
  ASSUME ReaderInv, [TracepointNext]_tracepointVars
  PROVE  ReaderInv'
<1>1. CASE UNCHANGED tracepointVars
  BY <1>1 DEF ReaderInv, tracepointVars
<1>2. ASSUME NEW order \in {"little", "big"}, NEW longSize \in {4, 8},
             NEW tracepoint \in Tracepoints(longSize),
             OpenFormat(KernelSource(tracepoint, order, longSize))
      PROVE  ReaderInv'
  <2> DEFINE s == KernelSource(tracepoint, order, longSize)
  <2>1. /\ s.longSize = longSize
        /\ s.lines = KernelLines(tracepoint.members, tracepoint.common)
    BY DEF KernelSource
  <2>2. Len(s.lines) \in Nat
    BY <2>1, TracepointAssumption, KernelLinesLength
  <2> HIDE DEF s
  <2> QED BY <1>2, <2>1, <2>2, OpenStep DEF s
<1>3. ASSUME NEW order \in {"little", "big"}, NEW line \in FieldLines,
             OpenFormat(LineSource(line, order))
      PROVE  ReaderInv'
  <2>1. LineSource(line, order).longSize = 8 /\ Len(LineSource(line, order).lines) = 5
    BY DEF LineSource
  <2> QED BY <1>3, <2>1, OpenStep
<1>4. CASE ReadTracepoint
  <2>1. PICK longSize \in {4, 8} :
          \/ \E cut \in 1..Len(KernelRecord(source.members, source.order)) :
               DecodeOrdinary(SubSeq(KernelRecord(source.members, source.order), 1, cut), longSize)
          \/ \E raw \in LineRecords : DecodeOrdinary(raw, longSize)
    BY <1>4 DEF ReadTracepoint
  <2>2. ASSUME NEW cut \in 1..Len(KernelRecord(source.members, source.order)),
               DecodeOrdinary(SubSeq(KernelRecord(source.members, source.order), 1, cut), longSize)
        PROVE  ReaderInv'
    <3>1. cut \in Int /\ cut >= 1
      OBVIOUS
    <3> QED BY <2>2, <3>1, CutLength, DecodeStep
  <2>3. ASSUME NEW raw \in LineRecords, DecodeOrdinary(raw, longSize)
        PROVE  ReaderInv'
    <3>1. Len(raw) \in Nat
      BY TracepointAssumption
    <3> QED BY <2>3, <3>1, DecodeStep
  <2> QED BY <2>1, <2>2, <2>3
<1> QED BY <1>1, <1>2, <1>3, <1>4 DEF TracepointNext

\* ParseFormat and Decode agree for every description, however its lines came
\* about, and every record: a field of a fixed size that ParseFormat lets through
\* is decoded from a record that holds it, unless its array is over the limit.
THEOREM FormatsDecode == TracepointSpec => []AcceptedDecodes
<1>1. TracepointInit => ReaderInv
  BY DEF TracepointInit, ReaderInv, NoFormat, Bad, Parsing
<1>2. ReaderInv /\ [TracepointNext]_tracepointVars => ReaderInv'
  BY ReaderStep
<1>3. ReaderInv => AcceptedDecodes
  <2> SUFFICES ASSUME ReaderInv, ordinary.ok, NEW i \in DOMAIN format.fields,
                      format.fields[i].location = "none", format.fields[i].size # 0,
                      format.fields[i].arrayLen # 0, ~Limited(format.fields[i]),
                      format.fields[i].size <= Len(sample) - format.fields[i].offset
               PROVE  ordinary.fields[i].ok
    BY DEF AcceptedDecodes, Limited
  <2>1. format.ok /\ Len(sample) \in Nat /\ AllAccepted(format.fields)
    BY DEF ReaderInv, Parsing
  <2>2. PICK order : ordinary.fields = decodeFields(format.fields, sample, order)
    BY DEF ReaderInv
  <2>3. Accepted(format.fields[i])
    BY <2>1 DEF AllAccepted
  <2>4. ordinary.fields[i] = decodeField(format.fields[i], sample, order)
    BY <2>2 DEF decodeFields
  <2> QED BY <2>1, <2>3, <2>4, FieldDecodes
<1> QED BY <1>1, <1>2, <1>3, PTL DEF TracepointSpec
=============================================================================

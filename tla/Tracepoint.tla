----------------------------- MODULE Tracepoint -----------------------------
(***************************************************************************)
(* Records of tracepoints: what the kernel writes and how it describes it  *)
(* (external), and what a perfdata.Reader makes of the raw data of a       *)
(* sample with the format it has for the event (records.go). A source is a *)
(* tracepoint of the kernel, or lines that no kernel need have written.    *)
(***************************************************************************)
EXTENDS TraceFormat

CONSTANTS
  Tracepoints(_),   \* tracepoints of a kernel with the given sizeof(long)
  FieldLines,       \* lines of a single field, of any origin
  LineRecords       \* records read with such a field

ASSUME TracepointAssumption ==
  /\ \A longSize \in {4, 8} : \A tracepoint \in Tracepoints(longSize) :
       Len(tracepoint.members) \in Nat /\ tracepoint.common \in 0..Len(tracepoint.members)
  /\ LineRecords \subseteq Seq(0..255)

VARIABLES
  source,     \* the tracepoint that is read
  format,     \* what ParseFormat returned, or NoFormat
  sample,     \* the raw data of the sample that was read
  ordinary    \* what tracefs.Decode returned for it

tracepointVars == <<source, format, sample, ordinary>>

NoFormat == [ok |-> FALSE, seen |-> {}]
NoSample == <<>>

-----------------------------------------------------------------------------
(* The kernel. A member is [name, decl, signed, location, class, kind,      *)
(* elements]: its elements are numbers, lowest byte first, or the bytes of  *)
(* a text or structure.                                                     *)

Sum(s) == FoldSeq(LAMBDA n, total : n + total, 0, s)

Bytes(m, order) == FlattenSeq([i \in DOMAIN m.elements |-> readUint(m.elements[i], order)])

Extent(m) == IF m.location = "none" THEN Len(Bytes(m, "little")) ELSE 4

\* Where member i is, and where its dynamic data is, behind all members.
OffsetOf(members, i) == Sum([j \in 1 .. i - 1 |-> Extent(members[j])])
DynamicAt(members, i) ==
  OffsetOf(members, Len(members) + 1)
    + Sum([j \in 1 .. i - 1 |->
             IF members[j].location = "none" THEN 0 ELSE Len(Bytes(members[j], "little"))])

Descriptor(members, i) ==
  LET base == IF members[i].location = "__rel_loc" THEN OffsetOf(members, i) + 4 ELSE 0
  IN  <<DynamicAt(members, i) - base, 0, Len(Bytes(members[i], "little")), 0>>

\* The record of a tracepoint.
KernelRecord(members, order) ==
  LET fixed == [i \in DOMAIN members |->
                  IF members[i].location = "none" THEN Bytes(members[i], order)
                  ELSE readUint(Descriptor(members, i), order)]
      dynamic == [i \in DOMAIN members |->
                    IF members[i].location = "none" THEN <<>> ELSE Bytes(members[i], order)]
  IN  FlattenSeq(fixed) \o FlattenSeq(dynamic)

\* The description of a tracepoint; the first common members are the common ones.
KernelLines(members, common) ==
  LET Field(i) == FieldLine(members[i].decl,
                    <<<<"offset", OffsetOf(members, i)>>, <<"size", Extent(members[i])>>,
                      <<"signed", members[i].signed>>>>)
  IN  <<Line("name"), Line("ID"), Line("format")>>
        \o [i \in 1..common |-> Field(i)]
        \o <<Line("blank")>>
        \o [i \in 1 .. Len(members) - common |-> Field(common + i)]
        \o <<Line("blank"), Line("print")>>

\* A record as long as this has all of member i.
End(members, i) ==
  IF members[i].location = "none" THEN OffsetOf(members, i) + Extent(members[i])
  ELSE DynamicAt(members, i) + Len(Bytes(members[i], "little"))

\* What a reader should make of a member.
Meaning(m) ==
  LET bytes == Bytes(m, "little")
      One(number) == Value(m.kind, number)
  IN  CASE m.class = "text" ->
             Value("text", IF indexNUL(bytes) >= 0 THEN SubSeq(bytes, 1, indexNUL(bytes)) ELSE bytes)
        [] m.class = "binary" -> Value("binary", bytes)
        [] m.class = "bool" -> Value("bool", bytes # <<0>>)
        [] m.class = "scalar" -> One(m.elements[1])
        [] m.class = "array" -> Value("array", [i \in DOMAIN m.elements |-> One(m.elements[i])])

-----------------------------------------------------------------------------
(* The reader *)

KernelSource(tracepoint, order, longSize) ==
  [members |-> tracepoint.members, common |-> tracepoint.common, order |-> order,
   longSize |-> longSize, lines |-> KernelLines(tracepoint.members, tracepoint.common),
   meant |-> [i \in DOMAIN tracepoint.members |->
                [end |-> End(tracepoint.members, i), value |-> Meaning(tracepoint.members[i])]]]

LineSource(line, order) ==
  [members |-> <<>>, meant |-> <<>>, common |-> 0, order |-> order, longSize |-> 8,
   lines |-> <<Line("format"), Line("property"), Line("name"), Line("ID"), line>>]

\* parseTracingData.
OpenFormat(s) ==
  /\ format = NoFormat
  /\ source' = s
  /\ format' = ParseFormat(s.lines, s.longSize)
  /\ UNCHANGED <<sample, ordinary>>

\* The first part of decodeSample: the sample has raw data and the event a format.
DecodeOrdinary(raw, longSize) ==
  /\ format.ok
  /\ sample = NoSample
  /\ raw # <<>>
  /\ sample' = raw
  /\ ordinary' = DecodeRecord(format, raw, source.order, longSize)
  /\ UNCHANGED <<source, format>>

\* The field by which decodeSample knows an EventHeader event.
isEventHeader == format.ok /\ format.fields # <<>> /\ format.fields[1].name = "eventheader_flags"

ReadTracepoint ==
  /\ format.ok /\ ~isEventHeader
  /\ \E longSize \in {4, 8} :
       \/ /\ source.members # <<>>
          /\ \E cut \in 1..Len(KernelRecord(source.members, source.order)) :
               DecodeOrdinary(SubSeq(KernelRecord(source.members, source.order), 1, cut), longSize)
       \/ /\ source.members = <<>>
          /\ \E raw \in LineRecords : DecodeOrdinary(raw, longSize)

TracepointInit ==
  source = <<>> /\ format = NoFormat /\ sample = NoSample /\ ordinary = Bad

TracepointNext ==
  \/ /\ format = NoFormat
     /\ \E order \in {"little", "big"} :
       \/ \E longSize \in {4, 8} : \E tracepoint \in Tracepoints(longSize) :
            OpenFormat(KernelSource(tracepoint, order, longSize))
       \/ \E line \in FieldLines : OpenFormat(LineSource(line, order))
  \/ ReadTracepoint

-----------------------------------------------------------------------------
(* Properties *)

\* A tracepoint is read as the kernel wrote it, in either byte order and with
\* either size of long: its format is accepted, the common fields are told from
\* the others, and in a record that was cut short just the fields that are not
\* whole have a diagnostic, while all others keep their values.
ReadsTracepoint ==
  source # <<>> /\ source.members # <<>> =>
    LET Read(i) == IF i <= source.common THEN ordinary.common[i]
                   ELSE ordinary.fields[i - source.common]
    IN  /\ format.ok
        /\ Len(format.common) = source.common
        /\ Len(format.fields) = Len(source.meant) - source.common
        /\ ordinary.ok => \A i \in DOMAIN source.meant :
             Read(i) = IF source.meant[i].end <= Len(sample) THEN source.meant[i].value ELSE Bad

\* ParseFormat and Decode agree: a field of a fixed size that ParseFormat lets
\* through is decoded from every record that holds it, unless its array is
\* longer than Decode's limit.
AcceptedDecodes ==
  ordinary.ok => \A i \in DOMAIN format.fields :
    LET f == format.fields[i]
        limited == f.kind \notin {"opaque", "char"} /\ f.arrayLen > MaxArray
    IN  /\ f.location = "none" /\ f.size # 0 /\ f.arrayLen # 0 /\ ~limited
        /\ f.size <= Len(sample) - f.offset
        => ordinary.fields[i].ok
=============================================================================

---------------------------- MODULE PerfMetadata ----------------------------
(***************************************************************************)
(* What a perfdata.Reader learns from metadata and how it reads records    *)
(* with it (attr.go, tracing.go, open.go, records.go). Open of a seek-mode *)
(* file adds the attributes, then the features in the order of their       *)
(* indexes; while reading, attributes, tracing data and features may also  *)
(* come as records, between the records of the kernel. An error is the     *)
(* reader's end: Open returns it, Next keeps it in terminal.               *)
(***************************************************************************)
EXTENDS PerfRecords

CONSTANTS
  Attrs,      \* attributes: sampleType, readFormat, sampleIDAll, clock, format
  IDLists,    \* sequences of perf IDs that come with an attribute
  Names,      \* event names of EVENT_DESC, NoName among them
  FormatLists,   \* sequences of format IDs that tracing data holds
  NoName, None,   \* distinct from every name, clock and format
  MaxAttrs, MaxIDs, MaxMetadata,   \* Limits; metadata is counted in items
  Counts      \* counters and call chain lengths of samples

ASSUME MetadataAssumption ==
  /\ \A attr \in Attrs : attr.sampleIDAll \in BOOLEAN
  /\ IDLists \cup FormatLists \subseteq Seq(Nat)
  /\ NoName \in Names
  /\ {MaxAttrs, MaxIDs, MaxMetadata} \subseteq Nat
  /\ Counts \subseteq Nat

VARIABLES
  reader,   \* the fields of Reader below
  phase,    \* Open's progress in a seek-mode file, then "reading"
  last,     \* the record of the kernel that Next returned, and as what
  offered   \* history: the attributes whose layout was compared

vars == <<reader, phase, last, offered>>

-----------------------------------------------------------------------------
(* addDescriptor *)

NewReader ==
  [attrs |-> <<>>, byID |-> <<>>, formats |-> {}, metadata |-> 0, clock |-> None,
   layoutSet |-> FALSE, sampleIDOffset |-> 0, suffixLayoutSet |-> FALSE, suffixMask |-> {},
   suffixIDAll |-> FALSE, noSampleIDAll |-> FALSE, err |-> "none"]

Error(r, why) == [r EXCEPT !.err = why]

\* Mutant: a layout with an identifier does not have to be one for all.
suffixAgreesLoose(r, suffix) == r.suffixMask = suffix \/ "IDENTIFIER" \in suffix

suffixAgrees(r, suffix) ==
  r.suffixMask = suffix \/ (r.suffixIDAll /\ "IDENTIFIER" \in suffix)

layoutAgrees(r, attr) ==
  /\ r.layoutSet => r.sampleIDOffset = sampleLookupOffset(attr.sampleType)
  /\ IF attr.sampleIDAll
     THEN /\ ~r.noSampleIDAll
          /\ r.suffixLayoutSet => suffixAgrees(r, suffixOf(attr.sampleType))
     ELSE ~r.suffixLayoutSet

withLayout(r, attr) ==
  LET suffix == suffixOf(attr.sampleType)
      common == [r EXCEPT !.layoutSet = TRUE,
                          !.sampleIDOffset = sampleLookupOffset(attr.sampleType)]
  IN  IF ~attr.sampleIDAll THEN [common EXCEPT !.noSampleIDAll = TRUE]
      ELSE [common EXCEPT
              !.suffixIDAll = (r.suffixLayoutSet => @) /\ "IDENTIFIER" \in suffix,
              !.suffixLayoutSet = TRUE,
              !.suffixMask = suffix]

\* The options that attrsCompatible compares: all but the clock ID and the period.
attrsCompatible(a, b) == [a EXCEPT !.clock = None] = [b EXCEPT !.clock = None]

IDsOf(ids) == {ids[i] : i \in DOMAIN ids}

\* Mutant: IDs of two descriptors are taken for those of the first.
owningAny(r, ids) ==
  LET owners == {r.byID[id] : id \in IDsOf(ids) \cap DOMAIN r.byID}
  IN  IF owners = {} THEN {} ELSE {CHOOSE d \in owners : \A e \in owners : d <= e}

\* The descriptors that have one of the IDs already.
owning(r, ids) == {r.byID[id] : id \in IDsOf(ids) \cap DOMAIN r.byID}

addID(r, d, id) ==
  IF r.err # "none" \/ id \in IDsOf(r.attrs[d].ids) THEN r
  ELSE IF Cardinality(DOMAIN r.byID) >= MaxIDs THEN Error(r, "limit")
  ELSE [r EXCEPT !.attrs[d].ids = Append(@, id),
                 !.byID = [i \in DOMAIN @ \cup {id} |-> IF i = id THEN d ELSE r.byID[i]]]

\* The index of the descriptor is known; its new IDs are added in their order.
addIDs(r, d, ids) ==
  LET after[i \in 0..Len(ids)] == IF i = 0 THEN r ELSE addID(after[i - 1], d, ids[i])
  IN  after[Len(ids)]

addOwned(r, attr, name, ids) ==
  LET owners == owning(r, ids)
      d == CHOOSE e \in owners : TRUE
      old == r.attrs[d].name
  IN
  IF \E e \in owners : ~attrsCompatible(r.attrs[e].attr, attr) THEN Error(r, "invalid")
  ELSE IF Cardinality(owners) > 1 THEN Error(r, "invalid")
  ELSE IF owners = {}
  THEN IF Len(r.attrs) >= MaxAttrs THEN Error(r, "limit")
       ELSE addIDs([r EXCEPT !.attrs =
                      Append(@, [attr |-> attr, name |-> name, ids |-> <<>>, format |-> FALSE])],
                   Len(r.attrs) + 1, ids)
  ELSE IF name = NoName THEN addIDs(r, d, ids)
  ELSE IF old \notin {NoName, name} THEN Error(r, "invalid")
  ELSE addIDs([r EXCEPT !.attrs[d].name = name], d, ids)

\* attr.clock is the ID of the clock if the attribute uses one.
addDescriptor(r, attr, name, ids) ==
  IF r.err # "none" THEN r
  ELSE IF attr.clock # None /\ r.clock \notin {None, attr.clock} THEN Error(r, "clock")
  ELSE LET clocked == [r EXCEPT !.clock = IF attr.clock = None THEN @ ELSE attr.clock]
       IN  IF ~layoutAgrees(r, attr) THEN Error(clocked, "layout")
           ELSE addOwned(withLayout(clocked, attr), attr, name, ids)

-----------------------------------------------------------------------------
(* Features *)

\* Mutant: the limit is compared with what was there before.
addMetadataLate(r, n) ==
  IF r.metadata > MaxMetadata THEN Error(r, "limit") ELSE [r EXCEPT !.metadata = @ + n]

addMetadata(r, n) ==
  IF r.metadata + n > MaxMetadata THEN Error(r, "limit") ELSE [r EXCEPT !.metadata = @ + n]

attachFormats(r) ==
  IF r.err # "none" THEN r
  ELSE [r EXCEPT !.attrs = [d \in DOMAIN @ |->
          IF r.attrs[d].attr.format = None THEN @[d]
          ELSE [r.attrs[d] EXCEPT !.format = r.attrs[d].attr.format \in r.formats]]]

addFormat(r, id) ==
  IF r.err # "none" THEN r
  ELSE IF id \in r.formats THEN Error(r, "invalid")
  ELSE [r EXCEPT !.formats = @ \cup {id}]

\* The formats of a tracing-data block; it ends by attaching them.
parseTracingData(r, ids) ==
  LET after[i \in 0..Len(ids)] ==
        IF i = 0 THEN addMetadata(r, 1) ELSE addFormat(after[i - 1], ids[i])
  IN  attachFormats(after[Len(ids)])

\* An EVENT_DESC of one entry; more entries are more calls of addDescriptor.
parseEventDesc(r, attr, name, ids) ==
  LET counted == addMetadata(r, 1 + Len(ids))
  IN  IF counted.err # "none" THEN counted ELSE addDescriptor(counted, attr, name, ids)

\* readIDs refuses more IDs than there is room for, known ones included.
readIDs(r, ids) ==
  IF Cardinality(DOMAIN r.byID) + Len(ids) > MaxIDs THEN Error(r, "limit")
  ELSE addMetadata(r, 1 + Len(ids))

-----------------------------------------------------------------------------
(* Actions *)

NoRecord == [kind |-> "none"]

Alive == reader.err = "none"

\* Next is running: it reads records until it returns one.
Running == Alive /\ phase = "reading" /\ last = NoRecord

\* reader' is r, and attr was compared unless an earlier check failed.
Learn(r, attr) ==
  /\ reader' = r
  /\ offered' = IF r.err \in {"clock", "limit"} THEN offered ELSE offered \cup {attr}
  /\ UNCHANGED last

\* Open: parseSeekHeader.
SeekAttr(attr, ids) ==
  /\ Alive /\ phase = "attrs"
  /\ LET counted == readIDs(reader, ids)
     IN  Learn(IF counted.err # "none" THEN counted
               ELSE addDescriptor(counted, attr, NoName, ids), attr)
  /\ UNCHANGED phase

SeekTracingData(ids) ==
  /\ Alive /\ phase = "attrs"
  /\ phase' = "tracing"
  /\ reader' = parseTracingData(reader, ids)
  /\ UNCHANGED <<last, offered>>

SeekEventDesc(attr, name, ids) ==
  /\ Alive /\ phase \in {"attrs", "tracing"}
  /\ phase' = "desc"
  /\ Learn(parseEventDesc(reader, attr, name, ids), attr)

\* Mutant: formats are attached with the tracing data only.
SeekOpenedBare ==
  /\ Alive /\ phase # "reading"
  /\ phase' = "reading"
  /\ UNCHANGED <<reader, last, offered>>

SeekOpened ==
  /\ Alive /\ phase # "reading"
  /\ phase' = "reading"
  /\ reader' = attachFormats(reader)
  /\ UNCHANGED <<last, offered>>

\* Next: processPipeMetadata.
HeaderAttr(attr, ids) ==
  /\ Running
  /\ LET counted == addMetadata(reader, 1 + Len(ids))
     IN  Learn(IF counted.err # "none" THEN counted
               ELSE attachFormats(addDescriptor(counted, attr, NoName, ids)), attr)
  /\ UNCHANGED phase

HeaderTracingData(ids) ==
  /\ Running
  /\ reader' = parseTracingData(reader, ids)
  /\ UNCHANGED <<phase, last, offered>>

HeaderEventDesc(attr, name, ids) ==
  /\ Running
  /\ Learn(attachFormats(parseEventDesc(reader, attr, name, ids)), attr)
  /\ UNCHANGED phase

\* A compressed record or feature.
Compressed ==
  /\ Running \/ (Alive /\ phase # "reading")
  /\ reader' = Error(reader, "unsupported")
  /\ UNCHANGED <<phase, last, offered>>

-----------------------------------------------------------------------------
(* Records of the kernel. *)

Corrupt == [kind |-> "corrupt", desc |-> 0, matches |-> FALSE, body |-> 0]

\* body: the cells in front of the suffix, or after the known part of a sample.
Decoded(d, c, body) == [kind |-> "record", desc |-> d, matches |-> Matches(c), body |-> body]

DescOf(id) == IF id \in DOMAIN reader.byID THEN reader.byID[id] ELSE 0

\* The IDs among the fields that were read.
Found(c) == {i \in DOMAIN c.got : c.got[i][1] \in {"ID", "IDENTIFIER"}}

decodeSample(raw) ==
  LET at == reader.sampleIDOffset
      d == DescOf(raw[at + 1].n)
      c == parseSample(raw, reader.attrs[d].attr)
  IN  IF at < 0 \/ at + 2 > Len(raw) THEN Corrupt
      ELSE IF d = 0 THEN Corrupt
      ELSE IF ~c.ok THEN Corrupt
      ELSE IF \E i, j \in Found(c) : c.got[i][2].n # c.got[j][2].n THEN Corrupt
      ELSE Decoded(d, c, remaining(c))

\* Mutant: the layout of the attribute added last is used for all.
resolveSuffixLast(raw) ==
  LET start == Len(raw) - 2 * Cardinality(reader.suffixMask)
  IN  IF ~reader.suffixLayoutSet THEN [ok |-> TRUE, start |-> Len(raw), mask |-> {}]
      ELSE [ok |-> start >= 2, start |-> start, mask |-> reader.suffixMask]

\* sampleIDAll is set with suffixLayoutSet. The suffix ends with the identifier.
resolveSuffix(raw) ==
  LET d == DescOf(raw[Len(raw) - 1].n)
      attr == reader.attrs[d].attr
      mask == IF reader.suffixIDAll THEN suffixOf(attr.sampleType) ELSE reader.suffixMask
      start == Len(raw) - 2 * Cardinality(mask)
      none == [ok |-> FALSE, start |-> 0, mask |-> {}]
  IN  IF ~reader.suffixLayoutSet THEN [ok |-> TRUE, start |-> Len(raw), mask |-> {}]
      ELSE IF reader.suffixIDAll
              /\ (\/ Len(raw) < 4
                  \/ d = 0
                  \/ d # 0 /\ ~(attr.sampleIDAll /\ "IDENTIFIER" \in attr.sampleType))
      THEN none
      ELSE IF start < 2 THEN none
      ELSE [ok |-> TRUE, start |-> start, mask |-> mask]

\* decodeLost and decodeKnown: min is the smallest body, header included. A LOST
\* record has an ID of its own; one in the suffix comes before it.
decodeOther(raw, min, lost) ==
  LET layout == resolveSuffix(raw)
      c == readSuffix(raw, layout.start, layout.mask)
      own == IF lost THEN DescOf(raw[3].n) ELSE 0
  IN  IF Len(raw) < min \/ ~layout.ok THEN Corrupt
      ELSE IF layout.start < min THEN Corrupt
      ELSE Decoded(IF Found(c) = {} THEN own ELSE DescOf(c.got[Min(Found(c))][2].n),
                   c, layout.start)

\* The caller calls Next again.
Again ==
  /\ last # NoRecord
  /\ last' = NoRecord
  /\ UNCHANGED <<reader, phase, offered>>

\* The record as read: cut cells are missing at its end.
Cut(raw, cut) == SubSeq(raw, 1, Len(raw) - cut)

Sample(attr, id, n, cut) ==
  /\ Running
  /\ last' = [kind |-> "sample", attr |-> attr, id |-> id, n |-> n, cut |-> cut,
              result |-> decodeSample(Cut(KernelSample(attr, id, n), cut))]
  /\ UNCHANGED <<reader, phase, offered>>

\* A record with a body of two words: LOST, or one that has no ID in its body.
Other(attr, id, lost, cut) ==
  /\ Running
  /\ LET body == Word("body", IF lost THEN id ELSE 0) \o Word("body", 0)
     IN  last' = [kind |-> IF lost THEN "lost" ELSE "other",
                  attr |-> attr, id |-> id, n |-> 0, cut |-> cut,
                  result |-> decodeOther(Cut(KernelOther(attr, id, body), cut), 6, lost)]
  /\ UNCHANGED <<reader, phase, offered>>

-----------------------------------------------------------------------------

Init ==
  /\ reader = NewReader
  /\ phase \in {"attrs", "reading"}
  /\ last = NoRecord
  /\ offered = {}

KernelIDs == UNION {IDsOf(ids) : ids \in IDLists}

Next ==
  \/ \E attr \in Attrs, ids \in IDLists :
       \/ SeekAttr(attr, ids) \/ HeaderAttr(attr, ids)
       \/ \E name \in Names : SeekEventDesc(attr, name, ids) \/ HeaderEventDesc(attr, name, ids)
  \/ \E ids \in FormatLists : SeekTracingData(ids) \/ HeaderTracingData(ids)
  \/ SeekOpened \/ Compressed \/ Again
  \/ \E attr \in Attrs, id \in KernelIDs, cut \in {0, 2} :
       \/ \E lost \in BOOLEAN : Other(attr, id, lost, cut)
       \/ \E n \in Counts : Sample(attr, id, n, cut)

Spec == Init /\ [][Next]_vars

-----------------------------------------------------------------------------
(* Properties *)

\* The reader's index and its descriptors agree, also when addDescriptor stopped
\* half way: an ID is in the list of exactly the descriptor that byID names, and
\* once only; and no limit on descriptors, IDs or metadata is ever exceeded.
Indexed ==
  /\ Len(reader.attrs) <= MaxAttrs
  /\ Cardinality(DOMAIN reader.byID) <= MaxIDs
  /\ reader.metadata \in 0..MaxMetadata
  /\ \A id \in DOMAIN reader.byID : reader.byID[id] \in DOMAIN reader.attrs
  /\ \A d \in DOMAIN reader.attrs :
       LET ids == reader.attrs[d].ids
       IN  /\ IDsOf(ids) = {id \in DOMAIN reader.byID : reader.byID[id] = d}
           /\ Cardinality(IDsOf(ids)) = Len(ids)

CompatiblePair(a, b) ==
  /\ sampleLookupOffset(a.sampleType) = sampleLookupOffset(b.sampleType)
  /\ a.sampleIDAll = b.sampleIDAll
  /\ a.sampleIDAll =>
       \/ suffixOf(a.sampleType) = suffixOf(b.sampleType)
       \/ "IDENTIFIER" \in a.sampleType /\ "IDENTIFIER" \in b.sampleType

\* Whether addDescriptor accepts a set of attributes depends on the attributes,
\* pair by pair, and not on the order in which they came or were repeated.
OrderFree ==
  /\ Alive => \A a, b \in offered : CompatiblePair(a, b)
  /\ reader.err = "layout" => \E a, b \in offered : ~CompatiblePair(a, b)

\* After Open and after every record, an attribute of a tracepoint has its
\* format just when tracing data with it was read, before or after it.
FormatsAttached ==
  Alive /\ phase = "reading" => \A d \in DOMAIN reader.attrs :
    LET attr == reader.attrs[d].attr
    IN  reader.attrs[d].format <=> attr.format # None /\ attr.format \in reader.formats

Told(attr, id) ==
  id \in DOMAIN reader.byID /\ reader.attrs[reader.byID[id]].attr = attr

\* A whole record of an attribute and an ID the reader was told of is read as
\* the kernel wrote it: its descriptor is found, each field is read where it
\* was written, and what is left is what the kernel put there; a sample without
\* an ID, of an unknown read format or beyond a limit is refused.
ReadsKernel ==
  last.kind # "none" /\ last.cut = 0 /\ Told(last.attr, last.id) =>
    LET t == last.attr.sampleType
        format == last.attr.readFormat
        identified == {"ID", "IDENTIFIER"} \cap t # {}
        r == last.result
    IN  CASE last.kind = "sample" ->
               IF ~identified \/ ("CALLCHAIN" \in t /\ last.n > MaxCallchain)
                    \/ ("READ" \in t /\ ~(format \subseteq ReadFields))
                    \/ ("READ" \in t /\ "GROUP" \in format /\ last.n > MaxReadValues)
               THEN r.kind = "corrupt"
               ELSE /\ r.kind = "record" /\ r.matches
                    /\ r.desc = reader.byID[last.id]
                    /\ r.body = IF "OTHER" \in t THEN 2 ELSE 0
          [] OTHER ->
               /\ r.kind = "record" /\ r.matches /\ r.body = 6
               /\ r.desc = IF last.kind = "lost" \/ (identified /\ last.attr.sampleIDAll)
                           THEN reader.byID[last.id] ELSE 0
=============================================================================

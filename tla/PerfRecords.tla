---------------------------- MODULE PerfRecords -----------------------------
(***************************************************************************)
(* The bodies of perf records as the kernel writes them and as             *)
(* perfdata/records.go reads them. A record is a sequence of 4-byte cells, *)
(* each with the field the kernel wrote there and a number; a sample type  *)
(* and a read format are sets of field names. The number matters for IDs,  *)
(* counts and sizes only.                                                  *)
(***************************************************************************)
EXTENDS Integers, Sequences, SequencesExt, FiniteSets

CONSTANTS MaxReadValues, MaxCallchain   \* Limits

ASSUME RecordsAssumption ==
  MaxReadValues \in Nat \ {0} /\ MaxCallchain \in Nat \ {0}

Cell(f, n) == [of |-> f, n |-> n]
Word(f, n) == <<Cell(f, n), Cell(f, n)>>
Header == Word("header", 0)

SuffixFields == {"TID", "TIME", "ID", "STREAM_ID", "CPU", "IDENTIFIER"}
suffixOf(sampleType) == sampleType \cap SuffixFields

-----------------------------------------------------------------------------
(* The kernel: perf_output_sample, perf_output_read and                    *)
(* perf_event__output_id_sample. An unknown sample bit writes after RAW.   *)

WordIf(f, fields, id) ==
  IF f \notin fields THEN <<>> ELSE Word(f, IF f \in {"ID", "IDENTIFIER"} THEN id ELSE 0)

Words(order, fields, id) ==
  LET upto[i \in 0..Len(order)] ==
        IF i = 0 THEN <<>> ELSE upto[i - 1] \o WordIf(order[i], fields, id)
  IN  upto[Len(order)]

\* The order of the counters of a group.
Counters(nr) ==
  [i \in 1 .. 3 * nr |->
     CASE i % 3 = 1 -> "value" [] i % 3 = 2 -> "READ_ID" [] i % 3 = 0 -> "LOST"]

\* The order of a call chain.
Frames(n) == [i \in 1..n |-> "frame"]

KernelRead(format, nr) ==
  LET times == Words(<<"ENABLED", "RUNNING">>, format, 0)
  IN  IF "GROUP" \in format
      THEN Word("nr", nr) \o times \o Words(Counters(nr), format \cup {"value"}, 0)
      ELSE Word("value", 0) \o times \o Words(<<"READ_ID", "LOST">>, format, 0)

\* n: the counters of the group and the frames of the call chain. The raw data
\* is padded so that it ends on 8 bytes with its size in front.
KernelSample(attr, id, n) ==
  LET t == attr.sampleType IN
  Header
    \o Words(<<"IDENTIFIER", "IP", "TID", "TIME", "ADDR", "ID", "STREAM_ID", "CPU", "PERIOD">>, t, id)
    \o (IF "READ" \in t THEN KernelRead(attr.readFormat, n) ELSE <<>>)
    \o (IF "CALLCHAIN" \in t
        THEN Word("depth", n) \o Words(Frames(n), {"frame"}, 0) ELSE <<>>)
    \o (IF "RAW" \in t THEN <<Cell("size", 1), Cell("raw", 0)>> ELSE <<>>)
    \o (IF "OTHER" \in t THEN Word("other", 0) ELSE <<>>)

KernelOther(attr, id, body) ==
  Header \o body \o
    IF attr.sampleIDAll
    THEN Words(<<"TID", "TIME", "ID", "STREAM_ID", "CPU", "IDENTIFIER">>, attr.sampleType, id)
    ELSE <<>>

-----------------------------------------------------------------------------
(* wireCursor. got collects the fields asked for with the cells found.     *)

Cursor(raw, at) == [data |-> raw, pos |-> at, got |-> <<>>, ok |-> TRUE]

remaining(c) == Len(c.data) - c.pos
Failed(c) == [c EXCEPT !.ok = FALSE]

take(c, f, width) ==
  IF ~c.ok \/ remaining(c) < width THEN Failed(c)
  ELSE [c EXCEPT !.pos = @ + width, !.got = Append(@, <<f, c.data[c.pos + 1]>>)]

u64(c, f) == take(c, f, 2)
u64If(c, present, f) == IF present THEN u64(c, f) ELSE c
u64Each(c, order, fields) ==
  LET after[i \in 0..Len(order)] ==
        IF i = 0 THEN c ELSE u64If(after[i - 1], order[i] \in fields, order[i])
  IN  after[Len(order)]

\* The number read last.
number(c) == Last(c.got)[2].n

\* The fields asked for are the ones found.
Matches(c) == \A i \in DOMAIN c.got : c.got[i][1] = c.got[i][2].of

-----------------------------------------------------------------------------
(* parseSample *)

ReadFields == {"ENABLED", "RUNNING", "READ_ID", "GROUP", "LOST"}

parseRead(c, format) ==
  LET group == "GROUP" \in format
      counted == u64If(c, group, "nr")
      count == IF group THEN number(counted) ELSE 1
      first == u64If(counted, ~group, "value")
      times == u64Each(first, <<"ENABLED", "RUNNING">>, format)
      entries == IF group THEN Counters(count) ELSE <<"READ_ID", "LOST">>
  IN  IF ~(format \subseteq ReadFields) THEN Failed(c)
      ELSE IF ~counted.ok THEN counted
      ELSE IF count > MaxReadValues \/ count > remaining(counted) \div 2 THEN Failed(counted)
      ELSE u64Each(times, entries, format \cup {"value"})

parseCallchain(c) ==
  LET counted == u64(c, "depth")
  IN  IF ~counted.ok THEN counted
      ELSE IF number(counted) > MaxCallchain \/ number(counted) > remaining(counted) \div 2
      THEN Failed(counted)
      ELSE u64Each(counted, Frames(number(counted)), {"frame"})

\* (pos + 7) &^ 7.
alignUp(pos) == pos + (pos % 2)

parseRaw(c) ==
  LET sized == take(c, "size", 1)
  IN  IF ~sized.ok THEN sized
      ELSE IF number(sized) > remaining(sized) THEN Failed(sized)
      ELSE LET end == alignUp(sized.pos + number(sized))
           IN  IF end > Len(c.data) THEN Failed(sized)
               ELSE [sized EXCEPT !.pos = end,
                       !.got = @ \o [i \in 1..number(sized) |-> <<"raw", c.data[sized.pos + i]>>]]

\* A part is only read when the ones before it were.
parseSample(raw, attr) ==
  LET t == attr.sampleType
      Part(c, bit, Parse(_)) == IF c.ok /\ bit \in t THEN Parse(c) ELSE c
      fixed == u64Each(Cursor(raw, 2),
        <<"IDENTIFIER", "IP", "TID", "TIME", "ADDR", "ID", "STREAM_ID", "CPU", "PERIOD">>, t)
      read == Part(fixed, "READ", LAMBDA c : parseRead(c, attr.readFormat))
      chain == Part(read, "CALLCHAIN", parseCallchain)
  IN  Part(chain, "RAW", parseRaw)

\* Where a lookup finds the ID of a sample, in cells, or -1.
sampleLookupOffset(sampleType) ==
  IF "IDENTIFIER" \in sampleType THEN 2
  ELSE IF "ID" \notin sampleType THEN -1
  ELSE 2 * (1 + Cardinality(sampleType \cap {"IP", "TID", "TIME", "ADDR"}))

\* applySuffixLayout: the cursor that reads a suffix.
readSuffix(raw, start, mask) ==
  u64Each(Cursor(raw, start), <<"TID", "TIME", "ID", "STREAM_ID", "CPU", "IDENTIFIER">>, mask)
=============================================================================

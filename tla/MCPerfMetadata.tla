--------------------------- MODULE MCPerfMetadata ---------------------------
(* Instance of PerfMetadata for TLC. *)
EXTENDS PerfMetadata

Attr(t, format, all, clock, config) ==
  [sampleType |-> t, readFormat |-> format, sampleIDAll |-> all, clock |-> clock,
   format |-> config]

\* Attributes that agree with an identifier and differ in their suffixes, that
\* have an ID at another offset, or at the same one without an identifier, that
\* have no ID, that read in an unknown format, and one without sample_id_all.
MCAttrs ==
  {Attr({"IDENTIFIER", "TID", "TIME", "ID", "CPU", "RAW"}, {}, TRUE, None, 10),
   Attr({"IDENTIFIER", "TIME", "READ", "CALLCHAIN", "RAW", "OTHER"},
        {"GROUP", "ENABLED", "READ_ID"}, TRUE, 1, 11),
   Attr({"IDENTIFIER", "TID", "READ"}, {"RUNNING", "READ_ID", "LOST"}, FALSE, 2, None),
   Attr({"ID", "STREAM_ID", "READ"}, {"UNKNOWN"}, TRUE, None, None),
   Attr({"IP", "TIME", "ID", "STREAM_ID", "CPU", "PERIOD"}, {}, TRUE, None, None),
   Attr({"TID", "TIME", "ID", "RAW"}, {}, TRUE, None, 10),
   Attr({"TIME"}, {}, TRUE, None, None)}

MCIDLists == {<<>>, <<1>>, <<2>>, <<2, 1, 3, 4>>}
Symmetry == Permutations(Names \ {NoName})

MCFormatLists == {<<10>>, <<11, 10>>}
=============================================================================

----------------------------- MODULE WireFormat -----------------------------
(***************************************************************************)
(* The EventHeader wire format as Builder writes it and the decoder reads  *)
(* it. An event is [level, exts, metadata, payload]: the header's level,   *)
(* the extension chain, the metadata as one definition per field and the   *)
(* payload as bytes. The name, format byte and tag of a field count with   *)
(* their bytes; what they say is left out. Both sides use one byte order,  *)
(* as the header's flag makes the decoder do.                              *)
(***************************************************************************)
EXTENDS Integers, Sequences, SequencesExt

\* Value8, Value16, Value32 (and IPv4), StringLength16Char8 (and binary),
\* StringLength16Char16, ZStringChar8; the other widths differ in the constant only.
Scalars == {"value8", "value16", "value32", "string8", "string16", "zstring8"}

\* A field definition: count of a fixed array, child count of a struct, and
\* whether format and tag bytes follow. Encoding "bad" stands for a field whose
\* bytes are cut short or invalid.
FieldDef(e, k, n, c, t) ==
  [encoding |-> e, array |-> k, count |-> n, children |-> c, tag |-> t]

NameSize == 2      \* a one-letter name and its NUL

metadataSize(f) ==
  NameSize + 1 + (IF f.encoding = "struct" \/ f.tag THEN 1 ELSE 0)
    + (IF f.tag THEN 2 ELSE 0) + (IF f.array = "fixed" THEN 2 ELSE 0)

MetadataSize(fields) == NameSize + FoldSeq(LAMBDA f, sum : sum + metadataSize(f), 0, fields)

native16(n) == <<n % 256, n \div 256>>
Uint16(bytes, pos) == bytes[pos + 1] + 256 * bytes[pos + 2]

fixedWidth(e) ==
  CASE e = "value8" -> 1 [] e = "value16" -> 2 [] e = "value32" -> 4 [] OTHER -> 0
unitWidth(e) == IF e = "string16" THEN 2 ELSE 1

\* countedBytes and countedUint16: the length counts units.
encodeValue(e, raw) ==
  IF fixedWidth(e) # 0 THEN raw
  ELSE IF e = "zstring8" THEN Append(raw, 0)
  ELSE native16(Len(raw) \div unitWidth(e)) \o raw

\* Mutant: an unterminated string counts the NUL that is not there.
readWireValuePast(e, payload, pos) ==
  LET left == Len(payload) - pos
      Value(from, size, next) ==
        [ok |-> TRUE, raw |-> SubSeq(payload, from + 1, from + size), next |-> next]
      truncated == [ok |-> FALSE, raw |-> <<>>, next |-> pos]
      width == fixedWidth(e)
  IN
  IF width # 0
  THEN IF left < width THEN truncated ELSE Value(pos, width, pos + width)
  ELSE IF e = "zstring8"
  THEN IF \E i \in pos + 1 .. Len(payload) : payload[i] = 0
       THEN LET nul == CHOOSE i \in pos + 1 .. Len(payload) :
                         payload[i] = 0 /\ \A j \in pos + 1 .. i - 1 : payload[j] # 0
            IN  Value(pos, nul - 1 - pos, nul)
       ELSE Value(pos, left, Len(payload) + 1)
  ELSE IF left < 2 \/ Uint16(payload, pos) > (left - 2) \div unitWidth(e)
  THEN truncated
  ELSE LET size == Uint16(payload, pos) * unitWidth(e)
       IN  Value(pos + 2, size, pos + 2 + size)

\* The value at pos: its bytes and the position after it, or not ok: truncated.
\* A NUL-terminated string may also end with the payload.
readWireValue(e, payload, pos) ==
  LET left == Len(payload) - pos
      Value(from, size, next) ==
        [ok |-> TRUE, raw |-> SubSeq(payload, from + 1, from + size), next |-> next]
      truncated == [ok |-> FALSE, raw |-> <<>>, next |-> pos]
      width == fixedWidth(e)
  IN
  IF width # 0
  THEN IF left < width THEN truncated ELSE Value(pos, width, pos + width)
  ELSE IF e = "zstring8"
  THEN IF \E i \in pos + 1 .. Len(payload) : payload[i] = 0
       THEN LET nul == CHOOSE i \in pos + 1 .. Len(payload) :
                         payload[i] = 0 /\ \A j \in pos + 1 .. i - 1 : payload[j] # 0
            IN  Value(pos, nul - 1 - pos, nul)
       ELSE Value(pos, left, Len(payload))
  ELSE IF left < 2 \/ Uint16(payload, pos) > (left - 2) \div unitWidth(e)
  THEN truncated
  ELSE LET size == Uint16(payload, pos) * unitWidth(e)
       IN  Value(pos + 2, size, pos + 2 + size)

Extension(k, s, c) == [kind |-> k, size |-> s, chain |-> c]

\* One item the decoder reports, and one a producer meant.
Item(state, e, raw, count, index) ==
  [state |-> state, encoding |-> e, raw |-> raw, count |-> count, index |-> index]
=============================================================================

---------------------------- MODULE MCEventPath -----------------------------
(* Instance of EventPath for TLC. *)
EXTENDS EventPath

MCInputs(f) ==
  CASE f = <<"value8", "scalar">> -> {<< <<7>> >>}
    [] f = <<"string8", "variable">> -> {<<>>, << <<>>, <<2>> >>}
    [] f = <<"string16", "fixed">> -> {<< <<0, 3>> >>, <<>>}

MCFields ==
  {<<"value8", "scalar">>, <<"string8", "variable">>, <<"string16", "fixed">>}

\* Definition trees: nested structs with values before and after them, two kinds
\* with one encoding, sizes at the limit and one past it, and definitions that
\* NewSchema must refuse.
MCTrees ==
  LET S(k) == scalarField(k, FALSE)
      var(k) == ArrayField(S(k), "variable", <<>>)
      fixed(k, n) == ArrayField(S(k), "fixed", <<n>>)
      Struct(fields) == StructField(fields, TRUE)
  IN  {<<>>,
       <<S("uint8"), Struct(<<var("string"), S("utf16")>>), S("int8")>>,
       <<Struct(<<Struct(<<fixed("uint16", 2)>>), S("int8")>>), S("string")>>,
       <<var("utf16"), fixed("uint8", 32)>>,
       <<var("utf16"), fixed("uint8", 33)>>,
       <<Struct(<<Struct(<<Struct(<<S("int8")>>)>>)>>)>>,
       <<Struct(<<S("int8"), S("int8"), S("int8")>>)>>,
       <<Struct(<<>>)>>,
       <<ArrayField(S("uint8"), "fixed", <<0>>)>>,
       <<ArrayField(S("uint8"), "scalar", <<>>)>>,
       <<ArrayField(S("uint8"), "variable", <<1>>)>>,
       <<ArrayField(fixed("uint8", 1), "fixed", <<1>>)>>,
       <<ArrayField(Struct(<<S("int8")>>), "variable", <<>>)>>}

MCBindInputs(kind, array) ==
  LET values == CASE kind \in {"int8", "uint8"} -> {<<7>>}
                  [] kind = "uint16" -> {<<1, 0>>}
                  [] kind = "string" -> {<<>>, <<2, 2>>}
                  [] kind = "utf16" -> {<<>>, <<0, 3>>}
      Repeat(v, n) == [i \in 1..n |-> v]
  IN  IF array THEN {Repeat(v, n) : v \in values, n \in {0, 1, 2, 32, 33}}
      ELSE {<<v>> : v \in values}

-----------------------------------------------------------------------------
(* Go structs *)

OneField(type, encoding) == <<[name |-> "A", type |-> type, encoding |-> encoding, skip |-> FALSE]>>
Fields2(a, b) == <<[a[1] EXCEPT !.name = "A"], [b[1] EXCEPT !.name = "B"]>>

MyByte == Named("MyByte", Byte)
Char16 == Named("Char16", Named("Unit", Basic("uint16")))
Label == Named("Label", Basic("string"))
Blob == Named("Blob", SliceOf(Byte))

Simple ==
  {Basic("int8"), Byte, MyByte, Basic("uint16"), Char16, Basic("string"), Label, Basic("int"), Blob, Pointer}
Collections(types) ==
  {SliceOf(t) : t \in types} \cup {ArrayOf(n, t) : n \in {0, 2, 4}, t \in types}
GoTypes ==
  Simple \cup Collections(Simple)
    \cup Collections({SliceOf(Byte), SliceOf(MyByte), SliceOf(Char16), SliceOf(Basic("uint16")),
                      ArrayOf(4, Byte), ArrayOf(4, MyByte), StructOf(OneField(Byte, ""))})
    \cup {Named("Words", SliceOf(Char16)), Named("Addr", ArrayOf(4, MyByte)),
          SliceOf(Named("Addr", ArrayOf(4, MyByte))), SliceOf(Named("Key", ArrayOf(4, Byte))),
          StructOf(OneField(Label, "")), StructOf(<<>>),
          StructOf(OneField(StructOf(OneField(StructOf(OneField(Byte, "")), "")), ""))}

MCWrittenStructs ==
  {Fields2(OneField(SliceOf(Label), ""), OneField(SliceOf(MyByte), "")),
   Fields2(OneField(SliceOf(SliceOf(MyByte)), ""), OneField(MyByte, "")),
   OneField(StructOf(OneField(SliceOf(SliceOf(Char16)), "utf16")), ""),
   Fields2(OneField(SliceOf(Named("Addr", ArrayOf(4, MyByte))), "ipv4"),
           OneField(ArrayOf(2, Char16), "")),
   Fields2(OneField(SliceOf(ArrayOf(4, Byte)), "binary"), OneField(ArrayOf(2, MyByte), "binary"))}

MCGoStructs ==
  MCWrittenStructs
    \cup {OneField(type, encoding) : type \in GoTypes, encoding \in {"", "binary", "u8", "utf16", "ipv4"}}
    \cup {<<[OneField(Pointer, "")[1] EXCEPT !.skip = TRUE]>>,
          OneField(Byte, "") \o OneField(Byte, "")}

\* Values of different lengths, so that slices grow, shrink and are reused, and
\* some that no event can hold, alone or together.
MCGoValues(f) ==
  LET Bytes3(a, b, c) == CASE f.kind \in {"int8", "uint8"} -> <<<<a>>, <<b>>, <<c>>>>
                           [] f.kind = "uint16" -> <<<<a, b>>, <<b, c>>, <<c, a>>>>
                           [] f.kind = "ipv4" -> <<<<a, b, c, a>>, <<b, c, a, c>>, <<c, c, a, b>>>>
                           [] f.semantic = "binary-fixed" -> <<<<a, b, c, a>>, <<b, c, a, c>>, <<c, c, a, b>>>>
                           [] f.kind = "utf16" -> <<<<a, b>>, <<>>, <<b, c, a, a>>>>
                           [] OTHER -> <<<<a>>, <<>>, <<b, c>>>>
      some == Bytes3(1, 2, 3)
      Repeat(v, n) == [i \in 1..n |-> v]
  IN  CASE f.array = "variable" -> {<<>>, <<some[3]>>, some, Repeat(some[2], 20), Repeat(some[2], 24)}
        [] f.array = "fixed" -> {SubSeq(some, 1, f.count)}
        [] f.semantic = "binary-fixed" -> {<<<<1, 2>>>>, <<<<3, 4>>>>}
        [] f.kind = "binary" -> {<<<<>>>>, <<<<3, 4>>>>, <<<<1>>>>, <<Repeat(5, 34)>>, <<Repeat(5, 43)>>}
        [] OTHER -> {<<some[1]>>}

-----------------------------------------------------------------------------
(* Events of any origin: fields, arrays, structs and arrays of structs, with *)
(* the counts that a producer of this repository would never write.          *)

Definitions ==
  {FieldDef("value8", "scalar", 0, 0, FALSE), FieldDef("zstring8", "scalar", 0, 0, TRUE),
   FieldDef("string16", "variable", 0, 0, FALSE), FieldDef("value8", "fixed", 2, 0, FALSE),
   FieldDef("struct", "scalar", 0, 1, FALSE), FieldDef("struct", "variable", 0, 2, FALSE),
   FieldDef("struct", "fixed", 1, 1, FALSE), FieldDef("struct", "scalar", 0, 0, FALSE),
   FieldDef("bad", "scalar", 0, 0, FALSE)}

Chains ==
  {<<Extension("metadata", 9, FALSE)>>,
   <<Extension("activity", 16, TRUE), Extension("metadata", 9, FALSE)>>,
   <<Extension("activity", 8, TRUE), Extension("metadata", 9, FALSE)>>,
   <<Extension("metadata", 9, TRUE)>>,
   <<Extension("zero", 0, FALSE)>>}

Payloads ==
  SeqOf({0, 1}, 2)
    \cup {<<1, 0, 1>>, <<0, 0, 1>>, <<1, 0, 0, 0>>, <<1, 0, 1, 0>>, <<1, 0, 1, 0, 7, 8>>,
          <<2, 0, 0, 0, 0, 0>>, <<2, 0, 1, 1>>, <<2, 7>>, <<0, 2>>}

MCEvents ==
  [level : {1}, exts : {<<Extension("metadata", 9, FALSE)>>},
   metadata : SeqOf(Definitions, 3), payload : Payloads]
  \cup
  [level : {1}, exts : Chains, metadata : SeqOf(Definitions, 1), payload : SeqOf({1}, 2)]

-----------------------------------------------------------------------------
(* Tracepoints and their formats *)

MCNumber == ("0" :> 0) @@ ("2" :> 2) @@ ("3" :> 3) @@ ("2147483647" :> 2147483647)
MCWithin == ("ulong" :> {"long"})

Member(name, decl, signed, location, class, kind, elements) ==
  [name |-> name, decl |-> decl, signed |-> signed, location |-> location, class |-> class,
   kind |-> kind, elements |-> elements]

\* A number of width w with different bytes, its highest bit set.
Mixed(w) == [i \in 1..w |-> IF i = w THEN 200 ELSE i]

Common ==
  <<Member("common_type", <<"unsigned", "short", "common_type">>, 0, "none", "scalar", "unsigned", <<<<1, 2>>>>),
    Member("common_pid", <<"int", "common_pid">>, 1, "none", "scalar", "signed", <<Mixed(4)>>)>>

Members(longSize) ==
  {Member("a", <<"unsigned", "long", "a">>, 0, "none", "scalar", "unsigned", <<Mixed(longSize)>>),
   Member("b", <<"char", "b", "[", "3", "]">>, 0, "none", "text", "char", <<<<5>>, <<0>>, <<6>>>>),
   Member("c", <<"__data_loc", "char", "[", "]", "c">>, 0, "__data_loc", "text", "char", <<<<7>>, <<8>>, <<0>>>>),
   Member("d", <<"__rel_loc", "u16", "[", "]", "d">>, 0, "__rel_loc", "array", "unsigned", <<<<1, 3>>, <<2, 4>>>>),
   Member("e", <<"s16", "e", "[", "2", "]">>, 1, "none", "array", "signed", <<<<1, 3>>, <<2, 200>>>>),
   Member("f", <<"pid_t", "f">>, 1, "none", "scalar", "signed", <<Mixed(4)>>),
   Member("g", <<"struct", "key", "g">>, 0, "none", "binary", "opaque", <<<<9>>, <<0>>, <<9>>, <<9>>>>),
   Member("h", <<"const", "char", "*", "h">>, 0, "none", "scalar", "unsigned", <<Mixed(longSize)>>),
   Member("common_x", <<"bool", "common_x">>, 0, "none", "bool", "bool", <<<<1>>>>)}

MCTracepoints(longSize) ==
  {[members |-> Common \o users, common |-> 2] :
     users \in {<<m>> : m \in Members(longSize)} \cup (Members(longSize) \X Members(longSize))}

MCDecls ==
  {<<"unsigned", "int", "x">>, <<"char", "x">>, <<"u8", "x", "[", "3", "]">>, <<"char", "x", "[", "3", "]">>,
   <<"u16", "x", "[", "]">>, <<"__u64", "x", "[", "2147483647", "]">>, <<"dev_t", "x">>,
   <<"ulong", "x">>, <<"u16", "x", "[", "2", "]">>, <<"struct", "s", "x", "[", "2", "]">>, <<"float", "x">>,
   <<"__data_loc", "char", "[", "]", "x">>, <<"__rel_loc", "u16", "[", "]", "x">>,
   <<"x">>, <<"u8", "x", "[", "0", "]">>, <<"u8", "x", "[">>, <<"u8", "x", "[", "3">>}

MCFieldLines ==
  {FieldLine(decl, <<<<"offset", offset>>, <<"size", size>>>> \o signed) :
     decl \in MCDecls, offset \in {0, 1, 2147483647}, size \in {0, 1, 2, 3, 4, 8},
     signed \in {<<>>, <<<<"signed", 1>>>>}}
  \cup
  {FieldLine(<<"u8", "x">>, props) :
     props \in {<<<<"offset", 0>>>>, <<<<"offset", 0>>, <<"size", 1>>, <<"size", 1>>>>,
                <<<<"offset", 0>>, <<"size", -1>>>>, <<<<"offset", 0>>, <<"size", 1>>, <<"signed", 2>>>>,
                <<<<"offset", 0>>, <<"size", 1>>, <<"malformed", 0>>>>}}
  \cup {Line("format"), Line("other"), [Line("print") EXCEPT !.valid = FALSE]}

MCLineRecords == {<<1>>, <<2, 0>>, <<4, 0, 2>>, <<0, 4, 0, 1, 0>>, <<2, 0, 3, 0, 7, 8, 0, 9, 1>>}

MCHeaderMembers ==
  LET U(name, type, number) ==
        Member(name, <<type, name>>, 0, "none", "scalar", "unsigned", <<number>>)
  IN  Common \o <<U("eventheader_flags", "u8", <<7>>), U("version", "u8", <<0>>),
                  U("id", "u16", <<0, 0>>), U("tag", "u16", <<0, 0>>),
                  U("opcode", "u8", <<0>>), U("level", "u8", <<4>>)>>
=============================================================================

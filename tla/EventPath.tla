----------------------------- MODULE EventPath ------------------------------
(***************************************************************************)
(* From the producers to the reader. An event that a Builder encodes, or   *)
(* one written with a Schema and a Binding or by a generated writer, is    *)
(* the raw data of a sample behind the common fields of its tracepoint;    *)
(* decodeSample finds it with the tracepoint's format and hands it to the  *)
(* decoder. The decoder also gets events of any origin, and decodeSample   *)
(* records of tracepoints that are no EventHeader events. These share no   *)
(* state, so a behaviour has one of them.                                  *)
(***************************************************************************)
EXTENDS Builder, GenWriter, Enumerator, Tracepoint, FiniteSets

CONSTANTS
  Events,          \* events of any origin (a bound)
  HeaderMembers    \* the common fields, and the header's fields of a user_events tracepoint

VARIABLE producer

producers == <<producer, script, wire, builderVars, bindingVars, writerVars>>
vars == <<producers, tracepointVars, decoderVars>>

Writers == {"builder", "binding", "generated"}
HeaderFields == 6

\* The format of the tracepoint that the provider registered.
Describe ==
  /\ producer \in Writers
  /\ OpenFormat(KernelSource([members |-> HeaderMembers, common |-> Len(HeaderMembers) - HeaderFields],
                             "little", 8))
  /\ UNCHANGED <<producers, decoderVars>>

Registered == format.ok /\ UNCHANGED <<producer, tracepointVars, decoderVars>>

Build ==
  /\ producer = "builder"
  /\ Registered
  /\ BuilderNext
  /\ UNCHANGED <<bindingVars, writerVars>>

Bind ==
  /\ producer = "binding"
  /\ Registered
  /\ SchemaNext
  /\ UNCHANGED <<builderVars, writerVars>>

Generated ==
  /\ producer = "generated"
  /\ Registered
  /\ WriterNext
  /\ UNCHANGED builderVars

\* decodeSample: what is behind the offset of the first field is the event only if
\* that is where the kernel put it.
Deliver ==
  LET offset == format.fields[1].offset
      there == offset = OffsetOf(source.members, source.common + 1)
  IN
  /\ producer \in Writers
  /\ wire # <<>>
  /\ DecodeOrdinary(KernelRecord(source.members, source.order), source.longSize)
  /\ isEventHeader
  /\ parse(IF there THEN wire ELSE [wire EXCEPT !.exts = <<>>], wire.level)
  /\ UNCHANGED producers

\* The writer's next event; the reader has another record then.
NextEvent ==
  /\ producer = "generated"
  /\ wire' = <<>> /\ script' = <<>>
  /\ sample' = NoSample /\ ordinary' = Bad
  /\ Discard
  /\ UNCHANGED <<producer, builderVars, bindingVars, writerVars, source, format>>

\* eventdecode.Decode, called with any event and name.
Arrive ==
  /\ producer = "any"
  /\ dstate = "idle"
  /\ \E name \in 1..2 : parse(wire, name)
  /\ UNCHANGED <<producers, tracepointVars>>

Trace ==
  /\ producer = "tracepoint"
  /\ TracepointNext
  /\ UNCHANGED <<producers, decoderVars>>

Read == Decode /\ UNCHANGED <<producers, tracepointVars>>

Init ==
  /\ producer \in Writers \cup {"any", "tracepoint"}
  /\ script = <<>>
  /\ wire \in IF producer = "any" THEN Events ELSE {<<>>}
  /\ BuilderInit /\ SchemaInit /\ WriterInit /\ TracepointInit /\ DecoderInit

EventNext ==
  Describe \/ Build \/ Bind \/ Generated \/ Deliver \/ NextEvent \/ Arrive \/ Trace \/ Read

\* The decoder goes on until it is done.
FairSpec == Init /\ [][EventNext]_vars /\ WF_vars(Read)

-----------------------------------------------------------------------------
(* Properties *)

\* Types: open structs point into the metadata and respect the limits, and a binding
\* has taken as many values of its plan as its index says.
TypeOK ==
  /\ Len(structs) <= maxStructDepth
  /\ \A i \in DOMAIN structs :
       /\ structs[i].formatIndex \in DOMAIN metadata
       /\ structs[i].children \in 0..maxStructChildFields
  /\ activity \in 0..2
  /\ active \in BOOLEAN
  /\ \A i \in DOMAIN payload : payload[i] \in 0..255
  /\ index = Len(bound)
  /\ boundSchema # NoSchema => index <= Len(boundSchema.plan)
  /\ dstate \in {"idle", "parsing", "BeforeFirst", "Value", "ArrayBegin", "ArrayEnd",
                 "StructBegin", "StructEnd", "Done", "Error"}
  /\ err \in {"none", "invalid", "limit", "truncated"}

\* Decoding an event yields what was added to the builder, bound to the schema's
\* definitions or given to the writer: the same values, arrays and structs in the
\* same order and nesting, and no byte is left. The decoder refuses none of these
\* events, unless it is larger than the decoder's limits.
RoundTrip ==
  producer \in Writers =>
    /\ dstate = "Done" => items = script /\ ~warned
    /\ dstate = "Error" => err = "limit"

\* A schema that NewSchema accepts can be written: while all values bound are
\* the smallest of their kinds, begin has room for the smallest next one.
Bindable ==
  LET Smallest(plan) ==
        [i \in 1..(CASE plan.arrayKind = "scalar" -> 1 [] plan.arrayKind = "fixed" -> plan.arrayCount
                     [] OTHER -> 0) |->
          [j \in 1..fixedWidth(encodingOf(plan.kind)) |-> 0]]
      Size(plan, values) == Len(Encoded(plan, values))
  IN  /\ boundSchema # NoSchema
      /\ index < Len(boundSchema.plan)
      /\ \A i \in 1..index : LET plan == boundSchema.plan[i]
                            IN  Size(plan, bound[i]) = Size(plan, Smallest(plan))
      => fits(Encoded(Plan, Smallest(Plan)))

\* Decoding ends, for any child counts, array counts and nesting.
Terminates == dstate = "parsing" ~> dstate \in {"Done", "Error"}
=============================================================================

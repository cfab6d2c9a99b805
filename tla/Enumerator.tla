----------------------------- MODULE Enumerator -----------------------------
(***************************************************************************)
(* The decoder (eventheader/decode): Start parses the header, the          *)
(* extension chain and the metadata (parse.go), Next walks the payload     *)
(* with a stack of tasks (enumerator.go), and Decode rebuilds the nested   *)
(* value from the items (decode.go). One action per parsed field and per   *)
(* turn of Next's loop.                                                    *)
(***************************************************************************)
EXTENDS WireFormat, FiniteSets

CONSTANTS
  MaxDepth, MaxItems, MaxTransitions   \* Limits

ASSUME LimitsAssumption ==
  {MaxDepth, MaxItems, MaxTransitions} \subseteq Nat \ {0}

VARIABLES
  data,     \* the event being decoded, or <<>>
  dstate,   \* parsing, then the State of the Enumerator
  err,      \* why the state is Error
  kids,     \* parsed tree: the fields of the event (0) and of each struct
  parsed,   \* fields parsed so far
  pstack,   \* parseField's recursion: structs with children to come
  pos,      \* Enumerator.pos
  stack,    \* Enumerator.stack
  items,    \* items emitted so far
  frames,   \* Decode's stack of open containers
  warned    \* trailing payload was reported

decoderVars == <<data, dstate, err, kids, parsed, pstack, pos, stack, items, frames, warned>>

Fail(why) ==
  /\ dstate' = "Error"
  /\ err' = why
  /\ UNCHANGED <<data, kids, parsed, pstack, pos, stack, items, frames, warned>>

-----------------------------------------------------------------------------
(* parse *)

\* The chain ends with the first extension that has no chain flag.
Chain(exts) ==
  LET ends == {i \in DOMAIN exts : ~exts[i].chain}
  IN  SubSeq(exts, 1, CHOOSE i \in ends : \A j \in ends : i <= j)

ValidChain(exts) ==
  /\ \E i \in DOMAIN exts : ~exts[i].chain
  /\ LET used == Chain(exts)
         Of(k) == SelectSeq(used, LAMBDA x : x.kind = k)
     IN  /\ Of("zero") = <<>>
         /\ Len(Of("metadata")) = 1
         /\ Len(Of("activity")) <= 1
         /\ \A i \in DOMAIN Of("activity") : Of("activity")[i].size \in {16, 32}

Started(event) ==
  /\ data' = event
  /\ kids' = [i \in 0..Len(event.metadata) |-> <<>>]
  /\ pstack' = <<[at |-> 0, left |-> Len(event.metadata)]>>
  /\ pos' = 0 /\ parsed' = 0
  /\ stack' = <<>> /\ items' = <<>> /\ frames' = <<>>
  /\ warned' = FALSE

\* name is the level in the tracepoint's name.
parse(event, name) ==
  /\ dstate = "idle"
  /\ Started(event)
  /\ IF event.level = name /\ ValidChain(event.exts)
     THEN dstate' = "parsing" /\ err' = "none"
     ELSE dstate' = "Error" /\ err' = "invalid"

\* Structs that still take children; an outer one waits for the inner ones.
Open(frameSeq) ==
  LET waiting == {i \in DOMAIN frameSeq : frameSeq[i].left > 0}
  IN  IF waiting = {} THEN <<>>
      ELSE SubSeq(frameSeq, 1, CHOOSE i \in waiting : \A j \in waiting : j <= i)

ParseFails(f) ==
  \/ f.encoding = "bad"
  \/ f.array = "fixed" /\ f.count = 0
  \/ f.encoding = "struct" /\ f.children = 0

parseField ==
  LET at == parsed + 1
      f == data.metadata[at]
      depth == Len(pstack) - 1
      inner == [pstack EXCEPT ![Len(pstack)].left = @ - 1]
  IN
  /\ dstate = "parsing"
  /\ parsed < Len(data.metadata)
  /\ \/ parsed >= MaxItems /\ Fail("limit")
     \/ parsed < MaxItems /\ ParseFails(f) /\ Fail("invalid")
     \/ /\ parsed < MaxItems /\ ~ParseFails(f)
        /\ f.encoding = "struct" /\ depth + 1 > MaxDepth
        /\ Fail("limit")
     \/ /\ parsed < MaxItems /\ ~ParseFails(f)
        /\ f.encoding = "struct" => depth + 1 <= MaxDepth
        /\ parsed' = at
        /\ kids' = [kids EXCEPT ![Last(pstack).at] = Append(@, at)]
        /\ pstack' = Open(IF f.encoding = "struct"
                          THEN Append(inner, [at |-> at, left |-> f.children]) ELSE inner)
        /\ UNCHANGED <<data, dstate, err, pos, stack, items, frames, warned>>

Task(k, at, ids, n, start, index) ==
  [kind |-> k, def |-> at, fields |-> ids, count |-> n, start |-> start, arrayIndex |-> index]

\* The metadata may end before a struct has all its children.
Start ==
  /\ dstate = "parsing"
  /\ parsed = Len(data.metadata)
  /\ dstate' = "BeforeFirst"
  /\ stack' = <<Task("fields", 0, kids[0], 0, 0, -1)>>
  /\ UNCHANGED <<data, err, kids, parsed, pstack, pos, items, frames, warned>>

-----------------------------------------------------------------------------
(* Next and Decode *)

Walking == dstate \notin {"idle", "parsing", "Done", "Error"}
Top == Last(stack)
Def == data.metadata[Top.def]
Turn(kind) == stack # <<>> /\ Top.kind = kind

\* Mutant: Decode keeps the frame of a struct that has ended.
MaterializeKeep(state) ==
  CASE state \in {"ArrayBegin", "StructBegin"} -> Append(frames, state)
    [] state = "ArrayEnd" -> Front(frames)
    [] OTHER -> frames

\* What Decode does with an item.
Materialize(state) ==
  CASE state \in {"ArrayBegin", "StructBegin"} -> Append(frames, state)
    [] state \in {"ArrayEnd", "StructEnd"} -> Front(frames)
    [] OTHER -> frames

\* emit, with the tasks and the position that the turn leaves.
emit(state, raw, count, index, tasks, next) ==
  \/ Len(items) >= MaxTransitions /\ Fail("limit")
  \/ /\ Len(items) < MaxTransitions
     /\ items' = Append(items, Item(state, Def.encoding, raw, count, index))
     /\ dstate' = state
     /\ frames' = Materialize(state)
     /\ stack' = tasks
     /\ pos' = next
     /\ UNCHANGED <<data, err, kids, parsed, pstack, warned>>

Push(tasks) ==
  /\ stack' = tasks
  /\ UNCHANGED <<data, dstate, err, kids, parsed, pstack, pos, items, frames, warned>>

\* Mutant: the task is looked at but not taken off the stack.
taskFieldsPeek ==
  /\ Turn("fields")
  /\ Push(IF Top.fields = <<>> THEN stack
          ELSE Front(stack) \o <<[Top EXCEPT !.fields = Tail(@)],
                                 Task("field", Head(Top.fields), <<>>, 0, 0, -1)>>)

taskFields ==
  /\ Turn("fields")
  /\ Push(IF Top.fields = <<>> THEN Front(stack)
          ELSE Front(stack) \o <<[Top EXCEPT !.fields = Tail(@)],
                                 Task("field", Head(Top.fields), <<>>, 0, 0, -1)>>)

\* Mutant: the End task of an array is pushed on top of its elements.
ArrayEndFirst(count) ==
  <<Task("array", Top.def, <<>>, count, pos, 0),
    Task("arrayEnd", Top.def, <<>>, count, pos, -1)>>

ArrayTasks(count) ==
  <<Task("arrayEnd", Top.def, <<>>, count, pos, -1),
    Task("array", Top.def, <<>>, count, pos, 0)>>

taskFieldArray ==
  /\ Turn("field") /\ Def.array # "scalar"
  /\ IF Def.array = "variable" /\ Len(data.payload) - pos < 2
     THEN Fail("truncated")
     ELSE LET count == IF Def.array = "fixed" THEN Def.count ELSE Uint16(data.payload, pos)
          IN  emit("ArrayBegin", <<>>, count, -1,
                   Front(stack) \o ArrayTasks(count),
                   IF Def.array = "fixed" THEN pos ELSE pos + 2)

IsScalar == Turn("element") \/ (Turn("field") /\ Def.array = "scalar")

taskFieldStruct ==
  /\ IsScalar /\ Def.encoding = "struct"
  /\ emit("StructBegin", <<>>, 0, Top.arrayIndex,
          Front(stack) \o <<Task("structEnd", Top.def, <<>>, 0, pos, Top.arrayIndex),
                            Task("fields", 0, kids[Top.def], 0, 0, -1)>>,
          pos)

taskFieldValue ==
  LET value == readWireValue(Def.encoding, data.payload, pos) IN
  /\ IsScalar /\ Def.encoding # "struct"
  /\ IF value.ok THEN emit("Value", value.raw, 0, Top.arrayIndex, Front(stack), value.next)
     ELSE Fail("truncated")

\* arrayIndex of an array task is the next index; an "element" is a field whose
\* definition has its array taken off.
taskArray ==
  /\ Turn("array")
  /\ Push(IF Top.arrayIndex = Top.count THEN Front(stack)
          ELSE Front(stack) \o <<[Top EXCEPT !.arrayIndex = @ + 1],
                                 Task("element", Top.def, <<>>, 0, 0, Top.arrayIndex)>>)

taskArrayEnd ==
  /\ Turn("arrayEnd")
  /\ emit("ArrayEnd", <<>>, Top.count, -1, Front(stack), pos)

taskStructEnd ==
  /\ Turn("structEnd")
  /\ emit("StructEnd", <<>>, 0, Top.arrayIndex, Front(stack), pos)

finish ==
  /\ stack = <<>>
  /\ dstate' = "Done"
  /\ warned' = (pos # Len(data.payload))
  /\ UNCHANGED <<data, err, kids, parsed, pstack, pos, stack, items, frames>>

Next ==
  /\ Walking
  /\ \/ taskFields \/ taskFieldArray \/ taskFieldStruct \/ taskFieldValue
     \/ taskArray \/ taskArrayEnd \/ taskStructEnd \/ finish

DecoderInit ==
  /\ data = <<>>
  /\ dstate = "idle"
  /\ err = "none"
  /\ kids = [i \in {0} |-> <<>>]
  /\ pstack = <<>> /\ stack = <<>> /\ items = <<>> /\ frames = <<>>
  /\ pos = 0 /\ parsed = 0
  /\ warned = FALSE

\* A decoder is made for each event.
Discard ==
  /\ dstate \in {"Done", "Error"}
  /\ data' = <<>>
  /\ dstate' = "idle"
  /\ err' = "none"
  /\ kids' = [i \in {0} |-> <<>>]
  /\ pstack' = <<>> /\ stack' = <<>> /\ items' = <<>> /\ frames' = <<>>
  /\ pos' = 0 /\ parsed' = 0
  /\ warned' = FALSE

Decode == parseField \/ Start \/ Next
-----------------------------------------------------------------------------
(* Properties *)

\* Whatever an event says, the decoder stays inside its payload and its metadata,
\* and inside its own limits: the items of Next, and the containers that Decode
\* has open, which MaxDepth bounds as each struct may be the element of an array.
Bounded ==
  /\ data # <<>> =>
       /\ pos \in 0..Len(data.payload)
       /\ \A p \in DOMAIN stack :
            /\ stack[p].kind # "fields" => stack[p].def \in DOMAIN data.metadata
            /\ \A i \in DOMAIN stack[p].fields : stack[p].fields[i] \in DOMAIN data.metadata
  /\ Len(items) <= MaxTransitions
  /\ Len(frames) <= 2 * MaxDepth + 1

Ends == [arrayEnd |-> "ArrayBegin", structEnd |-> "StructBegin"]

\* The containers that the tasks up to p will end.
EndsUpTo(tasks, p) == {q \in 1..p : tasks[q].kind \in DOMAIN Ends}

Count(s, i, states) == Cardinality({j \in 1..i : s[j].state \in states})
Nesting(s, i) ==
  Count(s, i, {"ArrayBegin", "StructBegin"}) - Count(s, i, {"ArrayEnd", "StructEnd"})

\* Items directly inside the container that item i begins.
Inside(s, i) ==
  {j \in i + 1 .. Len(s) :
     /\ \A k \in i .. j - 1 : Nesting(s, k) >= Nesting(s, i)
     /\ s[j].state \in {"Value", "ArrayBegin", "StructBegin"}
     /\ Nesting(s, j - 1) = Nesting(s, i)}

\* What Decode makes of an event is well formed whatever its bytes were: the
\* containers it has open are those whose end is still to come, in the same order,
\* so that an end always meets its own beginning; in an event decoded to the end
\* every container has ended, and an array has as many elements as it announced.
WellFormed ==
  /\ Walking =>
       /\ Len(frames) = Cardinality(EndsUpTo(stack, Len(stack)))
       /\ \A p \in EndsUpTo(stack, Len(stack)) :
            frames[Cardinality(EndsUpTo(stack, p))] = Ends[stack[p].kind]
  /\ dstate = "Done" =>
       /\ Nesting(items, Len(items)) = 0
       /\ \A i \in DOMAIN items : items[i].state = "ArrayBegin" =>
            Cardinality(Inside(items, i)) = items[i].count
=============================================================================

----------------------------- MODULE PerfMerge ------------------------------
(***************************************************************************)
(* perf.data readers (perfdata/records.go) and their stable merge          *)
(* (perfdata/merge.go). One goroutine owns all readers, as the docs ask:   *)
(* it may read some of them directly, then merges them and only uses the   *)
(* merge. An input is a sequence of framed outer records:                  *)
(*   [kind |-> "data", time]         a record Next returns; a record that  *)
(*                                   has no timestamp field has time 0     *)
(*   [kind |-> "round"]              metadata with no effect               *)
(*   [kind |-> "attr", id]           HEADER_ATTR with use_clockid          *)
(*   [kind |-> "clock", id, wall, clockTime]   HEADER_FEATURE CLOCK_DATA   *)
(*   [kind |-> "bad"]                truncated, compressed or malformed    *)
(***************************************************************************)
EXTENDS PerfClock, Sequences

CONSTANTS
  N,          \* number of readers
  Inputs,     \* sequences of outer records a reader may be opened on
  Offsets,    \* offsets a caller may give in MergeOptions
  KeepMetadataRecords, \* Options.KeepMetadataRecords
  EOFWithData \* io.ReaderAt returns io.EOF with the last byte of its source

\* The outer records.
Outer ==
  [kind : {"data"}, time : Uint64] \cup [kind : {"round", "bad"}]
    \cup [kind : {"attr"}, id : Int]
    \cup [kind : {"clock"}, id : Int, wall : Uint64, clockTime : Uint64]

ASSUME MergeAssumption ==
  /\ N \in Nat \ {0}
  /\ Inputs \subseteq Seq(Outer)
  /\ Offsets \subseteq Int64
  /\ {KeepMetadataRecords, EOFWithData} \subseteq BOOLEAN

Readers == 1 .. N
None == 0

VARIABLES
  input,    \* the outer records of each reader
  pipe,     \* Reader.pipe: opened with OpenPipe
  clock,    \* Reader.clock
  pos,      \* Reader.offset: outer records consumed
  buf,      \* Reader.buf: the record whose bytes it holds
  terminal, \* Reader.terminal # nil
  offsets, heads, times, ready, done, \* MergedReader
  phase,    \* no MergedReader yet, in use, closed
  call,     \* the running Next: of a reader, of the merge, or none
  cur,      \* the reader whose Next is running
  result,   \* what the last Next returned: kind, reader and record
  out,      \* history: the records the merge returned, <<reader, record>>
  rejected, \* history: the records the merge returned an error for
  from,     \* history: what was consumed of each input before the merge
  given     \* history: the readers whose offset the caller gave

readerVars == <<input, pipe, clock, pos, buf, terminal>>
mergeVars  == <<offsets, heads, times, ready, done>>
vars == <<readerVars, mergeVars, phase, call, cur, result, out, rejected, from, given>>

Result(kind, i, p) == [kind |-> kind, reader |-> i, record |-> p]
Start(i) == input[i][pos[i] + 1]

\* Whether Next hands this outer record to its caller.
Returned(r) == r.kind = "data" \/ KeepMetadataRecords
TimeOf(r) == IF r.kind = "data" THEN r.time ELSE 0

\* The file of a seek-mode reader ends with its data section; features that
\* follow it were read by Open.
AtEnd(i) == pos[i] = Len(input[i])
EOFOnLast(i) == EOFWithData /\ ~pipe[i] /\ pos[i] + 1 = Len(input[i])

Init ==
  /\ input \in [Readers -> Inputs]
  /\ pipe \in [Readers -> BOOLEAN]
  /\ clock \in [Readers -> {NewClock, setClockID(NewClock, 0)}]
  /\ \A i \in Readers : pipe[i] => clock[i] = NewClock
  /\ pos = [i \in Readers |-> 0]
  /\ buf = [i \in Readers |-> None]
  /\ terminal = [i \in Readers |-> FALSE]
  /\ offsets = [i \in Readers |-> 0]
  /\ heads = [i \in Readers |-> None]
  /\ times = [i \in Readers |-> 0]
  /\ ready = [i \in Readers |-> FALSE]
  /\ done = [i \in Readers |-> FALSE]
  /\ phase = "open"
  /\ call = "none"
  /\ cur = None
  /\ result = Result("none", None, None)
  /\ out = << >>
  /\ rejected = {}
  /\ from = pos
  /\ given = {}

-----------------------------------------------------------------------------
(* Merge and the start of a Next. *)

\* Merge fails, and changes nothing, unless every reader has an offset: one
\* the caller gives or the one its clock has now.
Merge ==
  /\ phase = "open" /\ call = "none"
  /\ \E by \in SUBSET Readers :
       /\ \A i \in Readers \ by : clock[i].epochOffsetKnown
       /\ given' = by
       /\ \E o \in [by -> Offsets] :
            offsets' = [i \in Readers |-> IF i \in by THEN o[i] ELSE clock[i].epochOffset]
  /\ phase' = "merging"
  /\ from' = pos
  /\ UNCHANGED <<readerVars, heads, times, ready, done, call, cur, result, out,
                 rejected>>

\* Reader.Next called directly, before the readers are merged.
ReaderNext(i) ==
  /\ phase = "open" /\ call = "none"
  /\ call' = "reader" /\ cur' = i
  /\ UNCHANGED <<readerVars, mergeVars, phase, result, out, rejected, from, given>>

\* A bug for a mutant: a reader that has a head is advanced too.
FillAll(i) == {j \in Readers : j >= i /\ ~done[j]}

\* The readers of MergedReader.Next's loop from i on that must be advanced.
ToFill(i) == {j \in Readers : j >= i /\ ~done[j] /\ ~ready[j]}

\* MergedReader.Next goes on with the first reader to advance from i on, or
\* selects a head.
Continue(i) ==
  \/ ToFill(i) = {} /\ cur' = None
  \/ cur' \in ToFill(i) /\ \A j \in ToFill(i) : cur' <= j

MergedNext ==
  /\ phase = "merging" /\ call = "none"
  /\ call' = "merge"
  /\ Continue(1)
  /\ UNCHANGED <<readerVars, mergeVars, phase, result, out, rejected, from, given>>

\* A closed MergedReader only returns io.EOF.
NextAfterClose ==
  /\ phase = "closed" /\ call = "none"
  /\ result' = Result("eof", None, None)
  /\ UNCHANGED <<readerVars, mergeVars, phase, call, cur, out, rejected, from, given>>

Close ==
  /\ phase = "merging" /\ call = "none"
  /\ phase' = "closed"
  /\ heads' = [i \in Readers |-> None]
  /\ ready' = [i \in Readers |-> FALSE]
  /\ done' = [i \in Readers |-> FALSE]
  /\ UNCHANGED <<readerVars, offsets, times, call, cur, result, out, rejected, from, given>>

-----------------------------------------------------------------------------
(* Reader.Next of reader cur, one outer record at a time. *)

\* Next of the merge (or of the reader) returns.
Return(r) == /\ result' = r /\ call' = "none" /\ cur' = None

\* readOuter returned io.EOF. It is not terminal: a pipe may be read again.
ReaderEOF ==
  /\ cur # None /\ ~terminal[cur]
  /\ AtEnd(cur) \/ EOFOnLast(cur)
  /\ IF call = "reader"
       THEN Return(Result("eof", cur, None)) /\ done' = done
       ELSE /\ done' = [done EXCEPT ![cur] = TRUE]
            /\ Continue(cur + 1)
            /\ UNCHANGED <<call, result>>
  /\ buf' = [buf EXCEPT ![cur] = IF AtEnd(cur) THEN @ ELSE None]
  /\ UNCHANGED <<input, pipe, clock, pos, terminal, offsets, heads, times, ready,
                 phase, out, rejected, from, given>>

\* A record Next cannot get past.
Fatal(r, c) ==
  \/ r.kind = "bad"
  \/ r.kind \in {"attr", "clock"} /\ ~Agrees(c, r.id)

\* A bug for a mutant: the merge takes any error for the end of the reader.
FailsAsEOF ==
  /\ call = "merge" /\ cur # None
  /\ ~terminal[cur] => /\ ~AtEnd(cur) /\ ~EOFOnLast(cur)
                       /\ Fatal(Start(cur), clock[cur])
  /\ done' = [done EXCEPT ![cur] = TRUE]
  /\ Continue(cur + 1)
  /\ UNCHANGED <<readerVars, offsets, heads, times, ready, phase, call, result, out,
                 rejected, from, given>>

\* The error of an earlier call or of this record. It is terminal, so whether
\* the record counts as consumed makes no difference.
ReaderFails ==
  /\ cur # None
  /\ ~terminal[cur] => /\ ~AtEnd(cur) /\ ~EOFOnLast(cur)
                       /\ Fatal(Start(cur), clock[cur])
  /\ terminal' = [terminal EXCEPT ![cur] = TRUE]
  /\ buf' = [buf EXCEPT ![cur] = IF terminal[cur] THEN @ ELSE None]
  /\ Return(Result("error", cur, None))
  /\ UNCHANGED <<input, pipe, clock, pos, mergeVars, phase, out, rejected, from, given>>

\* What processPipeMetadata does to the clock.
ClockAfter(c, r) ==
  CASE r.kind = "attr"  -> attrClock(c, r.id)
    [] r.kind = "clock" -> clockData(c, r.id, r.wall, r.clockTime)
    [] OTHER            -> c

\* readOuter and processPipeMetadata consume the next outer record.
Consume(i) ==
  /\ ~terminal[i] /\ ~AtEnd(i) /\ ~EOFOnLast(i)
  /\ ~Fatal(Start(i), clock[i])
  /\ pos' = [pos EXCEPT ![i] = @ + 1]
  /\ buf' = [buf EXCEPT ![i] = pos[i] + 1]
  /\ clock' = [clock EXCEPT ![i] = ClockAfter(@, Start(i))]
  /\ UNCHANGED <<input, pipe, terminal>>

SkipMetadata ==
  /\ cur # None /\ Consume(cur)
  /\ ~Returned(Start(cur))
  /\ UNCHANGED <<mergeVars, phase, call, cur, result, out, rejected, from, given>>

\* A direct Next returns the record.
TakeDirect ==
  /\ call = "reader" /\ Consume(cur)
  /\ Returned(Start(cur))
  /\ Return(Result("record", cur, pos[cur] + 1))
  /\ UNCHANGED <<mergeVars, phase, out, rejected, from, given>>

-----------------------------------------------------------------------------
(* MergedReader.Next with the record its reader returned. *)

\* The record becomes the reader's head.
TakeHead ==
  /\ call = "merge" /\ cur # None /\ Consume(cur)
  /\ Returned(Start(cur))
  /\ LET absolute == UnixNano(TimeOf(Start(cur)), offsets[cur])
     IN /\ absolute.ok
        /\ times' = [times EXCEPT ![cur] = absolute.value]
  /\ heads' = [heads EXCEPT ![cur] = pos[cur] + 1]
  /\ ready' = [ready EXCEPT ![cur] = TRUE]
  /\ Continue(cur + 1)
  /\ UNCHANGED <<offsets, done, phase, call, result, out, rejected, from, given>>

\* ErrIncomparableClocks: the record was consumed and is given up.
RejectRecord ==
  /\ call = "merge" /\ cur # None /\ Consume(cur)
  /\ Returned(Start(cur))
  /\ ~UnixNano(TimeOf(Start(cur)), offsets[cur]).ok
  /\ rejected' = rejected \cup {<<cur, pos[cur] + 1>>}
  /\ Return(Result("error", cur, pos[cur] + 1))
  /\ UNCHANGED <<mergeVars, phase, out, from, given>>

\* The first of the earliest heads.
Best(i) ==
  /\ ready[i]
  /\ \A j \in Readers : ready[j] =>
       times[i] < times[j] \/ (times[i] = times[j] /\ i <= j)

SelectHead(best) ==
  /\ call = "merge" /\ cur = None
  /\ Best(best)
  /\ Return(Result("record", best, heads[best]))
  /\ out' = Append(out, <<best, heads[best]>>)
  /\ heads' = [heads EXCEPT ![best] = None]
  /\ ready' = [ready EXCEPT ![best] = FALSE]
  /\ UNCHANGED <<readerVars, offsets, times, done, phase, rejected, from, given>>

MergedEOF ==
  /\ call = "merge" /\ cur = None
  /\ \A i \in Readers : ~ready[i]
  /\ Return(Result("eof", None, None))
  /\ UNCHANGED <<readerVars, mergeVars, phase, out, rejected, from, given>>

Next ==
  \/ Merge \/ MergedNext \/ NextAfterClose \/ Close
  \/ \E i \in Readers : ReaderNext(i) \/ SelectHead(i)
  \/ ReaderEOF \/ ReaderFails \/ SkipMetadata \/ TakeDirect
  \/ TakeHead \/ RejectRecord \/ MergedEOF

Spec == Init /\ [][Next]_vars

-----------------------------------------------------------------------------
(* Properties *)

\* The absolute time of record e = <<reader, record>>, without overflow.
Absolute(e) == TimeOf(input[e[1]][e[2]]) + offsets[e[1]]

InTimeOrder(s) == \A p, q \in DOMAIN s :
  p < q /\ Returned(s[p]) /\ Returned(s[q]) => TimeOf(s[p]) <= TimeOf(s[q])

\* If the records of each reader are in time order, the merge returns all of
\* them in the order of their absolute times, those with equal times in the
\* order of the readers (MergedReader.Next), whatever the word width.
Sorted ==
  (\A i \in Readers : InTimeOrder(input[i])) =>
    \A a, b \in DOMAIN out : a < b =>
      \/ Absolute(out[a]) < Absolute(out[b])
      \/ Absolute(out[a]) = Absolute(out[b]) /\ out[a][1] <= out[b][1]

\* The offset Merge copied from a reader's clock stays that reader's offset,
\* whatever metadata the reader meets, unless it meets CLOCK_DATA after Merge:
\* then the reader reports the new offset and the merge goes on with the old.
OffsetOfClock ==
  phase = "merging" => \A i \in Readers \ given :
    \/ clock[i].epochOffsetKnown /\ clock[i].epochOffset = offsets[i]
    \/ \E p \in from[i] + 1 .. pos[i] : input[i][p].kind = "clock"

\* Every record that was read since Merge is accounted for exactly once: the
\* merge returned it, holds it as head (until Close), or returned an error for
\* it; and the records of one reader come out in file order.
Accounted ==
  /\ phase # "open" => \A i \in Readers : \A p \in from[i] + 1 .. pos[i] :
       Returned(input[i][p]) =>
         \/ phase = "closed"
         \/ heads[i] = p
         \/ <<i, p>> \in rejected
         \/ \E a \in DOMAIN out : out[a] = <<i, p>>
  /\ \A a, b \in DOMAIN out :
       a < b /\ out[a][1] = out[b][1] => out[a][2] < out[b][2]
  /\ \A a \in DOMAIN out : out[a] \notin rejected /\ heads[out[a][1]] # out[a][2]

\* Next returns io.EOF only when the records of the reader, or of all readers
\* of the merge, have been consumed and none waits as a head.
EOFComplete ==
  result.kind = "eof" /\ phase # "closed" =>
    \A i \in Readers : result.reader \in {i, None} => AtEnd(i) /\ ~ready[i]

\* A record borrows its reader's buffer: no head is overwritten while it waits,
\* and a record returned keeps its bytes until the next call of Next
\* (perfdata/doc.go).
BorrowValid ==
  /\ \A i \in Readers : ready[i] => buf[i] = heads[i]
  /\ call = "none" /\ result.kind = "record" => buf[result.reader] = result.record
=============================================================================

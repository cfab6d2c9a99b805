-------------------------- MODULE PerfMergeProofs ---------------------------
(***************************************************************************)
(* The clock arithmetic of perfdata is exact for every word width: it      *)
(* never wraps, and fails just when the result is not a signed word.       *)
(* Borrowed buffers of merged readers are safe, and what a merge returns   *)
(* is complete, in file order and in time order, with the offsets of the   *)
(* readers' clocks: for any number of readers, any inputs, offsets and     *)
(* word width.                                                             *)
(***************************************************************************)
EXTENDS PerfMerge, TLAPS

-----------------------------------------------------------------------------
(* Clock arithmetic *)

\* A word is its own residue, so the conversions leave it alone.
LEMMA ResidueOfWord ==
  ASSUME NEW x \in Uint64
  PROVE  x % Word = x
BY WordAssumption, SMT DEF Uint64, Word

\* Go's conversion to uint64 is the identity on unsigned words.
LEMMA Uint64OfWord ==
  ASSUME NEW x \in Uint64
  PROVE  uint64(x) = x
BY ResidueOfWord DEF uint64

\* Go's conversion to int64 is the identity on the words both types have.
LEMMA Int64OfWord ==
  ASSUME NEW x \in 0 .. MaxInt64
  PROVE  int64(x) = x
<1>1. x \in Uint64
  BY WordAssumption DEF Uint64, Word
<1> QED BY <1>1, ResidueOfWord, WordAssumption DEF int64

\* An integer as a signed word, where it is one.
Exact(x) == IF x \in Int64 THEN Ok(x) ELSE NotOk

\* The checked conversion of an unsigned word.
LEMMA NonNegativeExact ==
  ASSUME NEW u \in Uint64
  PROVE  NonNegative(u) = Exact(u)
<1>1. u \in Int /\ u >= 0 /\ MaxInt64 \in Int /\ MaxInt64 >= 0
  BY WordAssumption DEF Uint64, Word
<1>2. CASE u > MaxInt64
  BY <1>1, <1>2 DEF NonNegative, Exact, Int64
<1>3. CASE ~(u > MaxInt64)
  <2>1. u \in 0 .. MaxInt64 /\ u \in Int64
    BY <1>1, <1>3 DEF Int64
  <2> QED BY <1>3, <2>1, Int64OfWord DEF NonNegative, Exact
<1> QED BY <1>2, <1>3

\* The checked negation of an unsigned word; MaxInt64 + 1, which is no signed
\* word, has a negation that is one.
LEMMA NegatedExact ==
  ASSUME NEW u \in Uint64
  PROVE  Negated(u) = Exact(-u)
<1>1. u \in Int /\ u >= 0 /\ MaxInt64 \in Int /\ MaxInt64 >= 0
  BY WordAssumption DEF Uint64, Word
<1>2. CASE u > MaxInt64 + 1
  <2>1. -u \notin Int64
    BY <1>1, <1>2 DEF Int64
  <2> QED BY <1>2, <2>1 DEF Negated, Exact
<1>3. CASE u = MaxInt64 + 1
  <2>1. -u \in Int64 /\ ~(u > MaxInt64 + 1)
    BY <1>1, <1>3 DEF Int64
  <2> QED BY <1>3, <2>1 DEF Negated, Exact
<1>4. CASE ~(u > MaxInt64 + 1) /\ u # MaxInt64 + 1
  <2>1. u \in 0 .. MaxInt64 /\ -u \in Int64
    BY <1>1, <1>4 DEF Int64
  <2> QED BY <1>4, <2>1, Int64OfWord DEF Negated, Exact
<1> QED BY <1>2, <1>3, <1>4

\* Timestamp.UnixNano, offset >= 0: the guard is exact, so nothing wraps.
LEMMA AddOffsetExact ==
  ASSUME NEW ns \in Uint64, NEW offset \in 0 .. MaxInt64
  PROVE  AddOffset(ns, offset) = Exact(ns + offset)
<1>1. ns \in Int /\ ns >= 0 /\ offset \in Int /\ offset >= 0 /\ MaxInt64 \in Int
  BY WordAssumption DEF Uint64, Word
<1>2. MaxInt64 - offset \in Uint64
  BY <1>1, WordAssumption DEF Uint64, Word
<1>3. uint64(MaxInt64 - offset) = MaxInt64 - offset
  BY <1>2, Uint64OfWord
<1>4. CASE ns > MaxInt64 - offset
  <2>1. ns + offset \notin Int64
    BY <1>1, <1>4 DEF Int64
  <2> QED BY <1>3, <1>4, <2>1 DEF AddOffset, Exact
<1>5. CASE ~(ns > MaxInt64 - offset)
  <2>1. ns + offset \in 0 .. MaxInt64
    BY <1>1, <1>5
  <2>2. int64(ns + offset) = ns + offset
    BY <2>1, Int64OfWord
  <2>3. ns + offset \in Int64
    BY <1>1, <2>1 DEF Int64
  <2> QED BY <1>3, <1>5, <2>2, <2>3 DEF AddOffset, Exact
<1> QED BY <1>4, <1>5

\* Timestamp.UnixNano, offset < 0, down to the smallest signed word, whose
\* magnitude is not a signed word.
LEMMA SubtractMagnitudeExact ==
  ASSUME NEW ns \in Uint64, NEW offset \in -(MaxInt64 + 1) .. -1
  PROVE  SubtractMagnitude(ns, offset) = Exact(ns + offset)
<1> DEFINE magnitude == uint64(uint64(-(offset + 1)) + 1)
<1>1. ns \in Int /\ ns >= 0 /\ ns < Word /\ offset \in Int /\ MaxInt64 \in Int
      /\ offset < 0 /\ offset >= -(MaxInt64 + 1) /\ Word = 2 * (MaxInt64 + 1)
  BY WordAssumption DEF Uint64, Word
<1>2. -(offset + 1) \in Uint64 /\ -offset \in Uint64
  BY <1>1 DEF Uint64
<1>3. magnitude = -offset
  <2>1. uint64(-(offset + 1)) + 1 = -offset
    BY <1>1, <1>2, Uint64OfWord
  <2> QED BY <1>2, <2>1, Uint64OfWord
<1>4. CASE ns >= -offset
  <2>1. ns - (-offset) \in Uint64 /\ ns - (-offset) = ns + offset
    BY <1>1, <1>4 DEF Uint64
  <2>2. NonNegative(uint64(ns - (-offset))) = Exact(ns + offset)
    BY <2>1, Uint64OfWord, NonNegativeExact
  <2> QED BY <1>3, <1>4, <2>2 DEF SubtractMagnitude
<1>5. CASE ~(ns >= -offset)
  <2>1. -offset - ns \in Uint64 /\ -(-offset - ns) = ns + offset
    BY <1>1, <1>5 DEF Uint64
  <2>2. Negated(uint64(-offset - ns)) = Exact(ns + offset)
    BY <2>1, Uint64OfWord, NegatedExact
  <2> QED BY <1>3, <1>5, <2>2 DEF SubtractMagnitude
<1> QED BY <1>4, <1>5

\* Timestamp.UnixNano returns the Unix time exactly when it is a signed word,
\* for every unsigned timestamp, every signed offset and every word width.
THEOREM UnixNanoExact ==
  ASSUME NEW ns \in Uint64, NEW offset \in Int64
  PROVE  UnixNano(ns, offset) = Exact(ns + offset)
<1>1. CASE offset >= 0
  <2>1. offset \in 0 .. MaxInt64
    BY <1>1, WordAssumption DEF Int64
  <2> QED BY <1>1, <2>1, AddOffsetExact DEF UnixNano
<1>2. CASE ~(offset >= 0)
  <2>1. offset \in -(MaxInt64 + 1) .. -1
    BY <1>2, WordAssumption DEF Int64
  <2> QED BY <1>2, <2>1, SubtractMagnitudeExact DEF UnixNano
<1> QED BY <1>1, <1>2

\* signedDifference returns a - b exactly when it is a signed word, so the
\* offset parseClockData keeps converts the clock to the wall time.
THEOREM SignedDifferenceExact ==
  ASSUME NEW a \in Uint64, NEW b \in Uint64
  PROVE  signedDifference(a, b) = Exact(a - b)
<1>1. a \in Int /\ b \in Int /\ a >= 0 /\ b >= 0 /\ a < Word /\ b < Word
      /\ Word \in Int
  BY WordAssumption DEF Uint64, Word
<1>2. CASE a >= b
  <2>1. a - b \in Uint64
    BY <1>1, <1>2 DEF Uint64
  <2> QED BY <1>2, <2>1, Uint64OfWord, NonNegativeExact DEF signedDifference
<1>3. CASE ~(a >= b)
  <2>1. b - a \in Uint64 /\ -(b - a) = a - b
    BY <1>1, <1>3 DEF Uint64
  <2>2. Negated(uint64(b - a)) = Exact(a - b)
    BY <2>1, Uint64OfWord, NegatedExact
  <2> QED BY <1>3, <2>2 DEF signedDifference
<1> QED BY <1>2, <1>3

-----------------------------------------------------------------------------
(* Borrowed buffers *)

\* The types the argument needs.
BufferTypes ==
  /\ pos \in [Readers -> Nat] /\ buf \in [Readers -> Nat]
  /\ heads \in [Readers -> Nat] /\ ready \in [Readers -> BOOLEAN]
  /\ cur \in Readers \cup {None}
  /\ result \in [kind : {"none", "record", "eof", "error"},
                 reader : Readers \cup {None}, record : Nat]

\* Who may advance a reader: a direct Next before Merge, or a merge whose turn
\* it is with a reader that has no head.
TurnInv ==
  /\ phase # "merging" => \A i \in Readers : ~ready[i]
  /\ call \in {"none", "reader", "merge"}
  /\ call = "none" => cur = None
  /\ call = "reader" => phase = "open" /\ cur # None
  /\ call = "merge" => phase = "merging" /\ (cur # None => ~ready[cur])

\* A returned record names its reader.
ResultInv == result.kind = "record" => result.reader # None

IInv == BufferTypes /\ TurnInv /\ ResultInv /\ BorrowValid

\* None is not a reader.
LEMMA NoneIsNoReader == None \notin Readers
BY DEF None, Readers

LEMMA IInvInit == Init => IInv
BY NoneIsNoReader
   DEF Init, IInv, BufferTypes, TurnInv, ResultInv, BorrowValid, Result, None

\* MergedReader.Next goes on with a reader that has no head.
LEMMA ContinueTurn ==
  ASSUME NEW i \in Int, Continue(i)
  PROVE  cur' = None \/ (cur' \in Readers /\ cur' >= i /\ ~ready[cur'])
BY DEF Continue, ToFill

\* Consuming an outer record overwrites the buffer of that reader only.
LEMMA ConsumeBuffer ==
  ASSUME IInv, NEW i \in Readers, Consume(i)
  PROVE  /\ pos' \in [Readers -> Nat] /\ buf' \in [Readers -> Nat]
         /\ buf'[i] = pos[i] + 1
         /\ \A j \in Readers \ {i} : buf'[j] = buf[j]
         /\ pos[i] + 1 \in Nat
<1>1. pos \in [Readers -> Nat] /\ buf \in [Readers -> Nat] /\ pos[i] + 1 \in Nat
  BY DEF IInv, BufferTypes
<1> QED BY <1>1 DEF Consume

\* Every step keeps the invariant.
LEMMA IInvNext == IInv /\ [Next]_vars => IInv'
<1> SUFFICES ASSUME IInv, [Next]_vars PROVE IInv'
  OBVIOUS
<1> USE NoneIsNoReader
<1>0. Readers \subseteq Int /\ 1 \in Int /\ None \in Nat
  BY MergeAssumption DEF Readers, None
<1>1. CASE Merge
  BY <1>1 DEF IInv, BufferTypes, TurnInv, ResultInv, BorrowValid, Merge, readerVars
<1>2. CASE MergedNext
  <2>1. cur' = None \/ (cur' \in Readers /\ cur' >= 1 /\ ~ready[cur'])
    BY <1>0, <1>2, ContinueTurn DEF MergedNext
  <2> QED BY <1>2, <2>1 DEF IInv, BufferTypes, TurnInv, ResultInv, BorrowValid,
                            MergedNext, readerVars, mergeVars
<1>3. CASE NextAfterClose
  BY <1>0, <1>3 DEF IInv, BufferTypes, TurnInv, ResultInv, BorrowValid,
                    NextAfterClose, Result, readerVars, mergeVars
<1>4. CASE Close
  BY <1>0, <1>4 DEF IInv, BufferTypes, TurnInv, ResultInv, BorrowValid, Close, readerVars
<1>5. ASSUME NEW i \in Readers, ReaderNext(i) PROVE IInv'
  BY <1>5 DEF IInv, BufferTypes, TurnInv, ResultInv, BorrowValid, ReaderNext,
              readerVars, mergeVars
<1>6. ASSUME NEW i \in Readers, SelectHead(i) PROVE IInv'
  <2>1. ready[i] /\ cur = None /\ call = "merge" /\ phase = "merging"
    BY <1>6 DEF SelectHead, Best, IInv, TurnInv
  <2>2. buf[i] = heads[i] /\ heads[i] \in Nat
    BY <2>1 DEF IInv, BufferTypes, BorrowValid
  <2>3. BufferTypes' /\ ResultInv'
    BY <1>0, <1>6, <2>2 DEF IInv, BufferTypes, ResultInv, SelectHead, Return, Result,
                            readerVars
  <2>4. TurnInv'
    BY <1>6, <2>1 DEF IInv, BufferTypes, TurnInv, SelectHead, Return
  <2>5. BorrowValid'
    BY <1>6, <2>2 DEF IInv, BufferTypes, BorrowValid, SelectHead, Return, Result, readerVars
  <2> QED BY <2>3, <2>4, <2>5 DEF IInv
<1>7. CASE ReaderEOF
  <2>1. cur \in Readers /\ cur + 1 \in Int /\ ~ready[cur]
    BY <1>0, <1>7 DEF ReaderEOF, IInv, BufferTypes, TurnInv
  <2>2. buf' \in [Readers -> Nat] /\ \A j \in Readers \ {cur} : buf'[j] = buf[j]
    BY <1>0, <1>7, <2>1 DEF ReaderEOF, IInv, BufferTypes
  <2>3. CASE call = "reader"
    BY <1>0, <1>7, <2>1, <2>2, <2>3
       DEF ReaderEOF, Return, Result, IInv, BufferTypes, TurnInv, ResultInv, BorrowValid
  <2>4. CASE call # "reader"
    <3>1. call = "merge" /\ call' = "merge" /\ phase = "merging" /\ phase' = phase
          /\ ready' = ready /\ heads' = heads /\ pos' = pos /\ result' = result
      BY <1>7, <2>1, <2>4 DEF ReaderEOF, IInv, TurnInv
    <3>2. cur' = None \/ (cur' \in Readers /\ cur' >= cur + 1 /\ ~ready[cur'])
      BY <1>7, <2>1, <2>4, ContinueTurn DEF ReaderEOF
    <3> QED BY <2>1, <2>2, <3>1, <3>2
               DEF IInv, BufferTypes, TurnInv, ResultInv, BorrowValid
  <2> QED BY <2>3, <2>4
<1>8. CASE ReaderFails
  <2>1. cur \in Readers /\ ~ready[cur]
    BY <1>8 DEF ReaderFails, IInv, BufferTypes, TurnInv
  <2>2. buf' \in [Readers -> Nat] /\ \A j \in Readers \ {cur} : buf'[j] = buf[j]
    BY <1>0, <1>8, <2>1 DEF ReaderFails, IInv, BufferTypes
  <2> QED BY <1>0, <1>8, <2>1, <2>2
             DEF ReaderFails, Return, Result, IInv, BufferTypes, TurnInv, ResultInv,
                 BorrowValid, mergeVars
<1>9. CASE SkipMetadata
  <2>1. cur \in Readers /\ ~ready[cur] /\ call # "none"
    BY <1>9 DEF SkipMetadata, IInv, BufferTypes, TurnInv
  <2> QED BY <1>9, <2>1, ConsumeBuffer
             DEF SkipMetadata, IInv, BufferTypes, TurnInv, ResultInv, BorrowValid, mergeVars
<1>10. CASE TakeDirect
  <2>1. cur \in Readers /\ ~ready[cur] /\ phase = "open"
    BY <1>10 DEF TakeDirect, IInv, BufferTypes, TurnInv
  <2> QED BY <1>10, <2>1, ConsumeBuffer
             DEF TakeDirect, Return, Result, IInv, BufferTypes, TurnInv, ResultInv,
                 BorrowValid, mergeVars
<1>11. CASE TakeHead
  <2>1. cur \in Readers /\ cur \in Int /\ cur + 1 \in Int /\ call = "merge" /\ phase = "merging"
        /\ call' = call /\ phase' = phase /\ result' = result
    BY <1>0, <1>11 DEF TakeHead, IInv, BufferTypes, TurnInv
  <2>2. cur' = None \/ (cur' \in Readers /\ cur' >= cur + 1 /\ ~ready[cur'])
    BY <1>11, <2>1, ContinueTurn DEF TakeHead
  <2>3. cur' # cur
    BY <1>0, <2>1, <2>2
  <2>4. /\ pos' \in [Readers -> Nat] /\ buf' \in [Readers -> Nat]
        /\ buf'[cur] = pos[cur] + 1 /\ pos[cur] + 1 \in Nat
        /\ \A j \in Readers \ {cur} : buf'[j] = buf[j]
    BY <1>11, <2>1, ConsumeBuffer DEF TakeHead
  <2>5. /\ heads' \in [Readers -> Nat] /\ ready' \in [Readers -> BOOLEAN]
        /\ heads'[cur] = pos[cur] + 1
        /\ \A j \in Readers \ {cur} : heads'[j] = heads[j] /\ ready'[j] = ready[j]
    BY <1>11, <2>1, <2>4 DEF TakeHead, IInv, BufferTypes
  <2>6. BufferTypes' /\ TurnInv' /\ ResultInv'
    BY <2>1, <2>2, <2>3, <2>4, <2>5 DEF IInv, BufferTypes, TurnInv, ResultInv
  <2>7. BorrowValid'
    BY <2>1, <2>4, <2>5 DEF IInv, BufferTypes, BorrowValid
  <2> QED BY <2>6, <2>7 DEF IInv
<1>12. CASE RejectRecord
  <2>1. cur \in Readers /\ ~ready[cur] /\ phase = "merging"
    BY <1>12 DEF RejectRecord, IInv, BufferTypes, TurnInv
  <2> QED BY <1>0, <1>12, <2>1, ConsumeBuffer
             DEF RejectRecord, Return, Result, IInv, BufferTypes, TurnInv, ResultInv,
                 BorrowValid, mergeVars
<1>13. CASE MergedEOF
  BY <1>0, <1>13 DEF MergedEOF, Return, Result, IInv, BufferTypes, TurnInv, ResultInv,
                     BorrowValid, readerVars, mergeVars
<1>14. CASE UNCHANGED vars
  BY <1>14 DEF IInv, BufferTypes, TurnInv, ResultInv, BorrowValid, vars, readerVars,
               mergeVars
<1> QED BY <1>1, <1>2, <1>3, <1>4, <1>5, <1>6, <1>7, <1>8, <1>9, <1>10, <1>11,
           <1>12, <1>13, <1>14 DEF Next

\* Reader.Next reuses one buffer per reader, and a record borrows it. Whatever
\* is read and merged, a lookahead record is intact when the merge returns it,
\* and a returned record until the next call of Next.
THEOREM BorrowSafety == Spec => []BorrowValid
<1>1. IInv => BorrowValid
  BY DEF IInv
<1> QED BY <1>1, IInvInit, IInvNext, PTL DEF Spec

-----------------------------------------------------------------------------
(* What a merge returns *)

\* The types of what is not buffered.
MergeTypes ==
  /\ input \in [Readers -> Seq(Outer)]
  /\ clock \in [Readers -> ClockInfo]
  /\ offsets \in [Readers -> Int64] /\ times \in [Readers -> Int64]
  /\ done \in [Readers -> BOOLEAN]
  /\ from \in [Readers -> Nat]
  /\ out \in Seq(Readers \X Nat)
  /\ rejected \subseteq Readers \X Nat
  /\ phase \in {"open", "merging", "closed"}
  /\ \A i \in Readers : from[i] <= pos[i] /\ pos[i] <= Len(input[i])

\* The fill loop of MergedReader.Next: the readers it has passed are at their
\* end or have a head.
FillInv ==
  /\ call = "merge" => \A j \in Readers : cur = None \/ j < cur => done[j] \/ ready[j]
  /\ call = "merge" /\ cur # None => ~done[cur]
  /\ \A j \in Readers : ~(done[j] /\ ready[j])
  /\ phase = "open" => \A j \in Readers : ~done[j]

\* A head is the last record read of its reader, with its exact time.
HeadInv ==
  \A i \in Readers :
    /\ ready[i] => /\ heads[i] = pos[i] /\ heads[i] # None
                   /\ Returned(input[i][heads[i]])
                   /\ times[i] = Absolute(<<i, heads[i]>>)
                   /\ <<i, heads[i]>> \notin rejected
    /\ ~ready[i] => heads[i] = None

\* What was returned or rejected was read, and before a waiting head.
OutInv ==
  /\ \A a \in DOMAIN out :
       /\ out[a][2] # None /\ out[a][2] <= pos[out[a][1]]
       /\ ready[out[a][1]] => out[a][2] < heads[out[a][1]]
  /\ \A e \in rejected : e[2] <= pos[e[1]]
  /\ phase = "open" => out = << >> /\ rejected = {}

\* Only a reader at its end is done. False if a source returns io.EOF with its
\* last bytes (EOFWithData).
DoneInv == \A i \in Readers : done[i] => AtEnd(i)

\* A clock with an offset has an ID, so HEADER_ATTR leaves it alone.
ClockInv == \A i \in Readers : clock[i].epochOffsetKnown => clock[i].idKnown

\* The order of the merge.
Before(d, e) ==
  Absolute(d) < Absolute(e) \/ (Absolute(d) = Absolute(e) /\ d[1] <= e[1])

\* What was returned is before every head, and before every record still to
\* come of a reader without one.
OrderInv ==
  phase = "merging" /\ (\A i \in Readers : InTimeOrder(input[i])) =>
    \A a \in DOMAIN out, j \in Readers :
      /\ ready[j] => Before(out[a], <<j, heads[j]>>)
      /\ ~ready[j] /\ ~done[j] =>
           \A p \in pos[j] + 1 .. Len(input[j]) :
             Returned(input[j][p]) => Before(out[a], <<j, p>>)

MInv == IInv /\ MergeTypes /\ FillInv /\ HeadInv

-----------------------------------------------------------------------------
(* Facts about the operators. *)

LEMMA TimeOfOuter == ASSUME NEW r \in Outer PROVE TimeOf(r) \in Uint64
BY WordAssumption DEF Outer, TimeOf, Uint64, Word

LEMMA SetClockIDType ==
  ASSUME NEW c \in ClockInfo, NEW id \in Int
  PROVE  /\ setClockID(c, id) \in ClockInfo
         /\ setClockID(c, id).idKnown
<1>1. 0 \in Int64
  BY WordAssumption DEF Int64
<1> QED BY <1>1 DEF setClockID, ClockInfo

\* processPipeMetadata keeps a clock a clock, and one with an offset keeps it,
\* or takes the new one of CLOCK_DATA.
LEMMA ClockAfterStep ==
  ASSUME NEW c \in ClockInfo, NEW r \in Outer, c.epochOffsetKnown => c.idKnown
  PROVE  /\ ClockAfter(c, r) \in ClockInfo
         /\ ClockAfter(c, r).epochOffsetKnown => ClockAfter(c, r).idKnown
         /\ c.epochOffsetKnown /\ r.kind # "clock" => ClockAfter(c, r) = c
<1>1. CASE r.kind = "attr"
  <2>1. r.id \in Int
    BY <1>1 DEF Outer
  <2>2. ClockAfter(c, r) = attrClock(c, r.id)
    BY <1>1 DEF ClockAfter
  <2> QED BY <1>1, <2>1, <2>2, SetClockIDType DEF attrClock
<1>2. CASE r.kind = "clock"
  <2>1. r.id \in Int /\ r.wall \in Uint64 /\ r.clockTime \in Uint64
    BY <1>2 DEF Outer
  <2>2. ClockAfter(c, r) = clockData(c, r.id, r.wall, r.clockTime)
    BY <1>2 DEF ClockAfter
  <2> DEFINE base  == [c EXCEPT !.dataVersion = 1]
             named == setClockID(base, r.id)
             off   == signedDifference(r.wall, r.clockTime)
  <2>3. base \in ClockInfo
    BY DEF ClockInfo
  <2>4. named \in ClockInfo /\ named.idKnown
    BY <2>1, <2>3, SetClockIDType
  <2>5. off.ok \in BOOLEAN /\ (off.ok => off.value \in Int64)
    <3>1. off = Exact(r.wall - r.clockTime)
      BY <2>1, SignedDifferenceExact
    <3>2. CASE r.wall - r.clockTime \in Int64
      BY <3>1, <3>2 DEF Exact, Ok
    <3>3. CASE r.wall - r.clockTime \notin Int64
      BY <3>1, <3>3 DEF Exact, NotOk
    <3> QED BY <3>2, <3>3
  <2>6. ClockAfter(c, r) = [named EXCEPT !.epochOffset = IF off.ok THEN off.value ELSE @,
                                         !.epochOffsetKnown = off.ok]
    BY <2>2 DEF clockData
  <2> HIDE DEF named, off
  <2> QED BY <1>2, <2>4, <2>5, <2>6 DEF ClockInfo
<1>3. CASE r.kind # "attr" /\ r.kind # "clock"
  BY <1>3 DEF ClockAfter
<1> QED BY <1>1, <1>2, <1>3

\* The order of the merge is transitive on records that were read.
LEMMA BeforeTransitive ==
  ASSUME NEW d, NEW e, NEW f, Before(d, e), Before(e, f),
         Absolute(d) \in Int, Absolute(e) \in Int, Absolute(f) \in Int,
         d[1] \in Int, e[1] \in Int, f[1] \in Int
  PROVE  Before(d, f)
BY DEF Before

\* Consuming an outer record moves on by one within the input.
LEMMA ConsumeMoves ==
  ASSUME MInv, NEW i \in Readers, Consume(i)
  PROVE  /\ pos[i] + 1 \in DOMAIN input[i]
         /\ Start(i) = input[i][pos[i] + 1] /\ Start(i) \in Outer
         /\ pos'[i] = pos[i] + 1 /\ \A j \in Readers \ {i} : pos'[j] = pos[j]
         /\ pos' \in [Readers -> Nat]
         /\ input' = input /\ ~AtEnd(i)
         /\ clock' = [clock EXCEPT ![i] = ClockAfter(@, Start(i))]
<1>1. pos[i] \in Nat /\ input[i] \in Seq(Outer) /\ pos[i] <= Len(input[i])
  BY DEF MInv, IInv, BufferTypes, MergeTypes
<1>2. pos[i] # Len(input[i]) /\ input' = input /\ pos' = [pos EXCEPT ![i] = @ + 1]
  BY DEF Consume, AtEnd
<1>3. pos[i] + 1 \in 1 .. Len(input[i])
  BY <1>1, <1>2
<1> QED BY <1>1, <1>2, <1>3 DEF Start, Consume, AtEnd, MInv, IInv, BufferTypes

\* The records of the inputs have integer times.
LEMMA AbsoluteInt ==
  ASSUME MergeTypes, NEW i \in Readers, NEW p \in DOMAIN input[i]
  PROVE  /\ Absolute(<<i, p>>) = TimeOf(input[i][p]) + offsets[i]
         /\ Absolute(<<i, p>>) \in Int /\ TimeOf(input[i][p]) \in Int
         /\ offsets[i] \in Int
<1>1. input[i][p] \in Outer /\ offsets[i] \in Int
  BY WordAssumption DEF MergeTypes, Int64
<1>2. TimeOf(input[i][p]) \in Int
  BY <1>1, TimeOfOuter, WordAssumption DEF Uint64, Word
<1> QED BY <1>1, <1>2 DEF Absolute

-----------------------------------------------------------------------------
(* The types, the fill loop and the heads. *)

LEMMA InitMInv == Init => MInv /\ OutInv /\ DoneInv /\ ClockInv /\ OrderInv
<1> SUFFICES ASSUME Init PROVE MInv /\ OutInv /\ DoneInv /\ ClockInv /\ OrderInv
  OBVIOUS
<1>1. 0 \in Int64 /\ Readers \subseteq Int
  BY WordAssumption DEF Int64, Readers
<1>2. NewClock \in ClockInfo /\ setClockID(NewClock, 0) \in ClockInfo
      /\ setClockID(NewClock, 0).idKnown /\ ~NewClock.epochOffsetKnown
  <2>1. NewClock \in ClockInfo /\ ~NewClock.epochOffsetKnown
    BY <1>1 DEF NewClock, ClockInfo, NoId
  <2> QED BY <2>1, SetClockIDType
<1>3. MergeTypes
  <2>1. input \in [Readers -> Seq(Outer)]
    BY MergeAssumption DEF Init
  <2>2. clock \in [Readers -> ClockInfo]
    BY <1>2 DEF Init
  <2>3. \A i \in Readers : from[i] = 0 /\ pos[i] = 0 /\ Len(input[i]) \in Nat
    BY <2>1 DEF Init
  <2> QED BY <1>1, <2>1, <2>2, <2>3 DEF Init, MergeTypes
<1>4. ClockInv
  BY <1>2 DEF Init, ClockInv
<1> QED BY <1>3, <1>4, IInvInit, NoneIsNoReader
           DEF Init, MInv, FillInv, HeadInv, OutInv, DoneInv, OrderInv, None

\* Where MergedReader.Next goes on, the readers before are at their end or
\* have a head.
LEMMA ContinueFill ==
  ASSUME NEW i \in Int, Continue(i)
  PROVE  /\ cur' \in Readers \cup {None}
         /\ cur' # None => ~done[cur'] /\ ~ready[cur'] /\ cur' >= i
         /\ \A j \in Readers : j >= i /\ (cur' = None \/ j < cur') => done[j] \/ ready[j]
<1>1. Readers \subseteq Int
  BY DEF Readers
<1>2. CASE ToFill(i) = {} /\ cur' = None
  BY <1>2 DEF ToFill
<1>3. CASE cur' \in ToFill(i) /\ \A j \in ToFill(i) : cur' <= j
  <2>1. cur' \in Readers /\ ~done[cur'] /\ ~ready[cur'] /\ cur' >= i
    BY <1>3 DEF ToFill
  <2>2. \A j \in Readers : j >= i /\ j < cur' => j \notin ToFill(i)
    BY <1>1, <1>3, <2>1
  <2>3. \A j \in Readers : j >= i /\ j < cur' => done[j] \/ ready[j]
    BY <2>2 DEF ToFill
  <2> QED BY <2>1, <2>3, NoneIsNoReader
<1> QED BY <1>2, <1>3 DEF Continue

\* The time of a head is exact.
LEMMA HeadTime ==
  ASSUME MInv, NEW i \in Readers, NEW p \in DOMAIN input[i],
         UnixNano(TimeOf(input[i][p]), offsets[i]).ok
  PROVE  /\ UnixNano(TimeOf(input[i][p]), offsets[i]).value = Absolute(<<i, p>>)
         /\ Absolute(<<i, p>>) \in Int64
<1>1. TimeOf(input[i][p]) \in Uint64 /\ offsets[i] \in Int64
  BY TimeOfOuter DEF MInv, MergeTypes
<1>2. UnixNano(TimeOf(input[i][p]), offsets[i]) = Exact(TimeOf(input[i][p]) + offsets[i])
  BY <1>1, UnixNanoExact
<1> QED BY <1>2 DEF Exact, Ok, NotOk, Absolute

\* Steps that leave the readers and the heads alone.
LEMMA MergeTypesNext == MInv /\ ClockInv /\ [Next]_vars => MergeTypes' /\ ClockInv'
<1> SUFFICES ASSUME MInv, ClockInv, [Next]_vars PROVE MergeTypes' /\ ClockInv'
  OBVIOUS
<1> USE DEF readerVars, mergeVars
<1>0. Readers \subseteq Int /\ None \notin Readers
  BY NoneIsNoReader DEF Readers
<1>a. ASSUME NEW i \in Readers, Consume(i), offsets' = offsets, done' = done,
             times' \in [Readers -> Int64],
             from' = from, out' = out, rejected' \subseteq Readers \X Nat, phase' = phase
      PROVE  MergeTypes' /\ ClockInv'
  <2>1. Start(i) \in Outer /\ pos'[i] = pos[i] + 1 /\ pos[i] + 1 \in DOMAIN input[i]
        /\ (\A j \in Readers \ {i} : pos'[j] = pos[j]) /\ input' = input
        /\ clock' = [clock EXCEPT ![i] = ClockAfter(@, Start(i))]
    BY <1>a, ConsumeMoves
  <2>2. clock[i] \in ClockInfo /\ (clock[i].epochOffsetKnown => clock[i].idKnown)
    BY DEF MInv, MergeTypes, ClockInv
  <2>3. ClockAfter(clock[i], Start(i)) \in ClockInfo
        /\ (ClockAfter(clock[i], Start(i)).epochOffsetKnown
              => ClockAfter(clock[i], Start(i)).idKnown)
    BY <2>1, <2>2, ClockAfterStep
  <2>4. clock' \in [Readers -> ClockInfo] /\ ClockInv'
    BY <2>1, <2>3 DEF MInv, MergeTypes, ClockInv
  <2>5. \A j \in Readers : from'[j] <= pos'[j] /\ pos'[j] <= Len(input'[j])
    <3> SUFFICES ASSUME NEW j \in Readers PROVE from[j] <= pos'[j] /\ pos'[j] <= Len(input[j])
      BY <1>a, <2>1
    <3>1. from[j] \in Nat /\ pos[j] \in Nat /\ from[j] <= pos[j] /\ pos[j] <= Len(input[j])
          /\ DOMAIN input[j] = 1 .. Len(input[j])
      BY DEF MInv, IInv, BufferTypes, MergeTypes
    <3> QED BY <2>1, <3>1
  <2> QED BY <1>a, <2>1, <2>4, <2>5 DEF MInv, MergeTypes
<1>1. CASE Merge
  <2>1. offsets' \in [Readers -> Int64]
    BY <1>1, MergeAssumption DEF Merge, MInv, MergeTypes, ClockInfo
  <2> QED BY <1>1, <2>1 DEF Merge, MInv, IInv, BufferTypes, MergeTypes, ClockInv
<1>2. CASE MergedNext
  BY <1>2 DEF MergedNext, MInv, MergeTypes, ClockInv
<1>3. CASE NextAfterClose
  BY <1>3 DEF NextAfterClose, MInv, MergeTypes, ClockInv
<1>4. CASE Close
  BY <1>4 DEF Close, MInv, MergeTypes, ClockInv
<1>5. ASSUME NEW i \in Readers, ReaderNext(i) PROVE MergeTypes' /\ ClockInv'
  BY <1>5 DEF ReaderNext, MInv, MergeTypes, ClockInv
<1>6. ASSUME NEW i \in Readers, SelectHead(i) PROVE MergeTypes' /\ ClockInv'
  <2>1. <<i, heads[i]>> \in Readers \X Nat
    BY DEF MInv, IInv, BufferTypes
  <2>2. out' \in Seq(Readers \X Nat)
    BY <1>6, <2>1 DEF SelectHead, MInv, MergeTypes
  <2> QED BY <1>6, <2>2 DEF SelectHead, MInv, MergeTypes, ClockInv
<1>7. CASE ReaderEOF
  <2>1. done' \in [Readers -> BOOLEAN]
    BY <1>7 DEF ReaderEOF, MInv, MergeTypes
  <2> QED BY <1>7, <2>1 DEF ReaderEOF, MInv, MergeTypes, ClockInv
<1>8. CASE ReaderFails
  BY <1>8 DEF ReaderFails, MInv, MergeTypes, ClockInv
<1>9. CASE SkipMetadata
  BY <1>0, <1>9, <1>a DEF SkipMetadata, MInv, IInv, BufferTypes, MergeTypes
<1>10. CASE TakeDirect
  BY <1>0, <1>10, <1>a DEF TakeDirect, MInv, IInv, BufferTypes, MergeTypes, TurnInv
<1>11. CASE TakeHead
  <2>1. cur \in Readers /\ Consume(cur)
    BY <1>11 DEF TakeHead, MInv, IInv, BufferTypes
  <2>2. times' \in [Readers -> Int64]
    <3>1. pos[cur] + 1 \in DOMAIN input[cur] /\ Start(cur) = input[cur][pos[cur] + 1]
      BY <2>1, ConsumeMoves
    <3>2. UnixNano(TimeOf(Start(cur)), offsets[cur]).value \in Int64
      BY <1>11, <2>1, <3>1, HeadTime DEF TakeHead
    <3> QED BY <1>11, <2>1, <3>2 DEF TakeHead, MInv, MergeTypes
  <2> QED BY <1>11, <1>a, <2>1, <2>2 DEF TakeHead, MInv, MergeTypes
<1>12. CASE RejectRecord
  <2>1. cur \in Readers /\ Consume(cur) /\ pos[cur] + 1 \in Nat
    BY <1>12 DEF RejectRecord, MInv, IInv, BufferTypes
  <2>2. rejected' \subseteq Readers \X Nat
    BY <1>12, <2>1 DEF RejectRecord, MInv, MergeTypes
  <2> QED BY <1>12, <1>a, <2>1, <2>2 DEF RejectRecord, MInv, MergeTypes
<1>13. CASE MergedEOF
  BY <1>13 DEF MergedEOF, MInv, MergeTypes, ClockInv
<1>14. CASE UNCHANGED vars
  BY <1>14 DEF vars, MInv, MergeTypes, ClockInv
<1> QED BY <1>1, <1>2, <1>3, <1>4, <1>5, <1>6, <1>7, <1>8, <1>9, <1>10, <1>11,
           <1>12, <1>13, <1>14 DEF Next

\* The fill loop.
LEMMA FillNext == MInv /\ [Next]_vars => FillInv'
<1> SUFFICES ASSUME MInv, [Next]_vars PROVE FillInv'
  OBVIOUS
<1> USE DEF readerVars, mergeVars
<1>0. Readers \subseteq Int /\ None \notin Readers /\ 1 \in Int /\ \A j \in Readers : j >= 1
  BY NoneIsNoReader DEF Readers
<1>1. CASE Merge
  BY <1>1 DEF Merge, MInv, IInv, TurnInv, FillInv
<1>2. CASE MergedNext
  <2>1. Continue(1)
    BY <1>2 DEF MergedNext
  <2> QED BY <1>0, <1>2, <2>1, ContinueFill DEF MergedNext, MInv, FillInv
<1>3. CASE NextAfterClose
  BY <1>3 DEF NextAfterClose, MInv, FillInv
<1>4. CASE Close
  BY <1>4 DEF Close, MInv, FillInv
<1>5. ASSUME NEW i \in Readers, ReaderNext(i) PROVE FillInv'
  BY <1>5 DEF ReaderNext, MInv, FillInv
<1>6. ASSUME NEW i \in Readers, SelectHead(i) PROVE FillInv'
  BY <1>6 DEF SelectHead, Return, MInv, IInv, BufferTypes, TurnInv, FillInv
<1>7. CASE ReaderEOF
  <2>1. cur \in Readers /\ cur + 1 \in Int
    BY <1>0, <1>7 DEF ReaderEOF, MInv, IInv, BufferTypes
  <2>2. CASE call = "reader"
    BY <1>7, <2>2 DEF ReaderEOF, Return, MInv, FillInv
  <2>3. CASE call # "reader"
    <3>1. call = "merge" /\ phase = "merging" /\ phase' = phase /\ ready' = ready
          /\ done' = [done EXCEPT ![cur] = TRUE] /\ Continue(cur + 1) /\ ~ready[cur]
      BY <1>7, <2>1, <2>3 DEF ReaderEOF, MInv, IInv, TurnInv
    <3>2. /\ cur' \in Readers \cup {None}
          /\ cur' # None => ~done[cur'] /\ ~ready[cur'] /\ cur' >= cur + 1
          /\ \A j \in Readers : j >= cur + 1 /\ (cur' = None \/ j < cur') => done[j] \/ ready[j]
      BY <2>1, <3>1, ContinueFill
    <3> QED BY <1>0, <2>1, <3>1, <3>2 DEF MInv, MergeTypes, FillInv
  <2> QED BY <2>2, <2>3
<1>8. CASE ReaderFails
  BY <1>8 DEF ReaderFails, Return, MInv, FillInv
<1>9. CASE SkipMetadata
  BY <1>9 DEF SkipMetadata, MInv, FillInv
<1>10. CASE TakeDirect
  BY <1>10 DEF TakeDirect, Return, MInv, FillInv
<1>11. CASE TakeHead
  <2>1. cur \in Readers /\ cur + 1 \in Int /\ call = "merge" /\ ~done[cur] /\ phase = "merging"
    BY <1>0, <1>11 DEF TakeHead, MInv, IInv, BufferTypes, FillInv, TurnInv
  <2>2. /\ cur' \in Readers \cup {None}
        /\ cur' # None => ~done[cur'] /\ ~ready[cur'] /\ cur' >= cur + 1
        /\ \A j \in Readers : j >= cur + 1 /\ (cur' = None \/ j < cur') => done[j] \/ ready[j]
    BY <1>11, <2>1, ContinueFill DEF TakeHead
  <2>3. ready' = [ready EXCEPT ![cur] = TRUE] /\ done' = done /\ phase' = phase
    BY <1>11 DEF TakeHead
  <2> QED BY <1>0, <2>1, <2>2, <2>3 DEF MInv, IInv, BufferTypes, FillInv
<1>12. CASE RejectRecord
  BY <1>12 DEF RejectRecord, Return, MInv, FillInv
<1>13. CASE MergedEOF
  BY <1>13 DEF MergedEOF, Return, MInv, FillInv
<1>14. CASE UNCHANGED vars
  BY <1>14 DEF vars, MInv, FillInv
<1> QED BY <1>1, <1>2, <1>3, <1>4, <1>5, <1>6, <1>7, <1>8, <1>9, <1>10, <1>11,
           <1>12, <1>13, <1>14 DEF Next

\* The heads.
LEMMA HeadNext == MInv /\ OutInv /\ [Next]_vars => HeadInv'
<1> SUFFICES ASSUME MInv, OutInv, [Next]_vars PROVE HeadInv'
  OBVIOUS
<1> USE DEF readerVars, mergeVars
<1>0. Readers \subseteq Int /\ None \notin Readers /\ None = 0
  BY NoneIsNoReader DEF Readers, None
<1>a. ASSUME NEW i \in Readers, Consume(i), ~ready[i], offsets' = offsets, heads' = heads,
             times' = times, ready' = ready,
             \A e \in rejected' : e \in rejected \/ e[1] = i
      PROVE  HeadInv'
  <2>1. input' = input /\ \A j \in Readers \ {i} : pos'[j] = pos[j]
    BY <1>a, ConsumeMoves
  <2> QED BY <1>a, <2>1 DEF MInv, HeadInv, Absolute
<1>1. CASE Merge
  BY <1>1 DEF Merge, MInv, IInv, TurnInv, HeadInv
<1>2. CASE MergedNext
  BY <1>2 DEF MergedNext, MInv, HeadInv, Absolute
<1>3. CASE NextAfterClose
  BY <1>3 DEF NextAfterClose, MInv, HeadInv, Absolute
<1>4. CASE Close
  BY <1>4 DEF Close, HeadInv
<1>5. ASSUME NEW i \in Readers, ReaderNext(i) PROVE HeadInv'
  BY <1>5 DEF ReaderNext, MInv, HeadInv, Absolute
<1>6. ASSUME NEW i \in Readers, SelectHead(i) PROVE HeadInv'
  BY <1>6 DEF SelectHead, MInv, IInv, BufferTypes, HeadInv, Absolute
<1>7. CASE ReaderEOF
  BY <1>7 DEF ReaderEOF, MInv, HeadInv, Absolute
<1>8. CASE ReaderFails
  BY <1>8 DEF ReaderFails, MInv, HeadInv, Absolute
<1>9. CASE SkipMetadata
  <2>1. cur \in Readers /\ ~ready[cur]
    BY <1>9 DEF SkipMetadata, MInv, IInv, BufferTypes, TurnInv
  <2> QED BY <1>9, <1>a, <2>1 DEF SkipMetadata
<1>10. CASE TakeDirect
  <2>1. cur \in Readers /\ ~ready[cur]
    BY <1>10 DEF TakeDirect, MInv, IInv, BufferTypes, TurnInv
  <2> QED BY <1>10, <1>a, <2>1 DEF TakeDirect
<1>11. CASE TakeHead
  <2>1. cur \in Readers /\ Consume(cur)
    BY <1>11 DEF TakeHead, MInv, IInv, BufferTypes
  <2>2. /\ pos[cur] + 1 \in DOMAIN input[cur] /\ Start(cur) = input[cur][pos[cur] + 1]
        /\ pos'[cur] = pos[cur] + 1 /\ input' = input
        /\ \A j \in Readers \ {cur} : pos'[j] = pos[j]
    BY <2>1, ConsumeMoves
  <2>3. pos[cur] \in Nat /\ pos[cur] + 1 # None
    BY <1>0, <2>1 DEF MInv, IInv, BufferTypes
  <2>4. /\ heads'[cur] = pos[cur] + 1 /\ ready'[cur]
        /\ times'[cur] = UnixNano(TimeOf(Start(cur)), offsets[cur]).value
        /\ UnixNano(TimeOf(Start(cur)), offsets[cur]).ok
        /\ \A j \in Readers \ {cur} :
             heads'[j] = heads[j] /\ ready'[j] = ready[j] /\ times'[j] = times[j]
        /\ offsets' = offsets /\ rejected' = rejected /\ Returned(Start(cur))
    BY <1>11, <2>1 DEF TakeHead, MInv, IInv, BufferTypes, MergeTypes
  <2>5. times'[cur] = Absolute(<<cur, pos[cur] + 1>>)
    BY <2>1, <2>2, <2>4, HeadTime
  <2>6. <<cur, pos[cur] + 1>> \notin rejected
    BY <2>1, <2>3 DEF OutInv
  <2>7. \A j \in Readers, p \in Nat : Absolute(<<j, p>>)' = Absolute(<<j, p>>)
    BY <2>2, <2>4 DEF Absolute
  <2> QED BY <2>2, <2>3, <2>4, <2>5, <2>6, <2>7 DEF MInv, IInv, BufferTypes, HeadInv
<1>12. CASE RejectRecord
  <2>1. cur \in Readers /\ ~ready[cur]
    BY <1>12 DEF RejectRecord, MInv, IInv, BufferTypes, TurnInv
  <2> QED BY <1>12, <1>a, <2>1 DEF RejectRecord
<1>13. CASE MergedEOF
  BY <1>13 DEF MergedEOF, MInv, HeadInv, Absolute
<1>14. CASE UNCHANGED vars
  BY <1>14 DEF vars, MInv, HeadInv, Absolute
<1> QED BY <1>1, <1>2, <1>3, <1>4, <1>5, <1>6, <1>7, <1>8, <1>9, <1>10, <1>11,
           <1>12, <1>13, <1>14 DEF Next

\* What was returned or rejected.
LEMMA OutNext == MInv /\ OutInv /\ [Next]_vars => OutInv'
<1> SUFFICES ASSUME MInv, OutInv, [Next]_vars PROVE OutInv'
  OBVIOUS
<1> USE DEF readerVars, mergeVars
<1>0. Readers \subseteq Int /\ None \notin Readers /\ None = 0
  BY NoneIsNoReader DEF Readers, None
<1>1. \A a \in DOMAIN out : out[a][1] \in Readers /\ out[a][2] \in Nat
  BY DEF MInv, MergeTypes
<1>2. \A e \in rejected : e[1] \in Readers /\ e[2] \in Nat
  BY DEF MInv, MergeTypes
<1>3. \A j \in Readers : pos[j] \in Nat /\ heads[j] \in Nat
  BY DEF MInv, IInv, BufferTypes
<1>a. ASSUME NEW i \in Readers, Consume(i), out' = out, phase' = phase,
             \A j \in Readers \ {i} : ready'[j] = ready[j] /\ heads'[j] = heads[j],
             ready'[i] => heads'[i] = pos[i] + 1,
             \A e \in rejected' : e \in rejected \/ e = <<i, pos[i] + 1>>,
             phase = "open" => rejected' = rejected
      PROVE  OutInv'
  <2>1. pos'[i] = pos[i] + 1 /\ \A j \in Readers \ {i} : pos'[j] = pos[j]
    BY <1>a, ConsumeMoves
  <2>2. \A a \in DOMAIN out : out[a][2] # None /\ out[a][2] <= pos'[out[a][1]]
    BY <1>1, <1>3, <2>1 DEF OutInv
  <2>3. \A a \in DOMAIN out : ready'[out[a][1]] => out[a][2] < heads'[out[a][1]]
    BY <1>a, <1>1, <1>3, <2>1 DEF OutInv
  <2>4. \A e \in rejected' : e[2] <= pos'[e[1]]
    BY <1>a, <1>2, <1>3, <2>1 DEF OutInv
  <2> QED BY <1>a, <2>2, <2>3, <2>4 DEF OutInv
<1>4. CASE Merge
  BY <1>4 DEF Merge, OutInv
<1>5. CASE MergedNext
  BY <1>5 DEF MergedNext, OutInv
<1>6. CASE NextAfterClose
  BY <1>6 DEF NextAfterClose, OutInv
<1>7. CASE Close
  BY <1>1, <1>7 DEF Close, OutInv
<1>8. ASSUME NEW i \in Readers, ReaderNext(i) PROVE OutInv'
  BY <1>8 DEF ReaderNext, OutInv
<1>9. ASSUME NEW i \in Readers, SelectHead(i) PROVE OutInv'
  <2>1. phase = "merging" /\ ready[i] /\ heads[i] = pos[i] /\ heads[i] # None
    BY <1>9 DEF SelectHead, Best, MInv, IInv, TurnInv, HeadInv
  <2>2. /\ out' = Append(out, <<i, heads[i]>>) /\ ready' = [ready EXCEPT ![i] = FALSE]
        /\ heads' = [heads EXCEPT ![i] = None]
        /\ rejected' = rejected /\ pos' = pos /\ phase' = phase
    BY <1>9 DEF SelectHead
  <2>3. \A a \in DOMAIN out' : out'[a] = <<i, heads[i]>> \/ (a \in DOMAIN out /\ out'[a] = out[a])
    BY <2>2 DEF MInv, MergeTypes
  <2>4. /\ ready'[i] = FALSE
        /\ \A j \in Readers \ {i} : ready'[j] = ready[j] /\ heads'[j] = heads[j]
    BY <2>2 DEF MInv, IInv, BufferTypes
  <2>5. \A a \in DOMAIN out' : out'[a][2] # None /\ out'[a][2] <= pos[out'[a][1]]
    BY <1>3, <2>1, <2>3 DEF OutInv
  <2>6. \A a \in DOMAIN out' : ready'[out'[a][1]] => out'[a][2] < heads'[out'[a][1]]
    BY <1>1, <2>3, <2>4 DEF OutInv
  <2> QED BY <2>1, <2>2, <2>5, <2>6 DEF OutInv
<1>10. CASE ReaderEOF
  BY <1>10 DEF ReaderEOF, OutInv
<1>11. CASE ReaderFails
  BY <1>11 DEF ReaderFails, OutInv
<1>12. CASE SkipMetadata
  <2>1. cur \in Readers /\ ~ready[cur]
    BY <1>12 DEF SkipMetadata, MInv, IInv, BufferTypes, TurnInv
  <2> QED BY <1>12, <1>a, <2>1 DEF SkipMetadata
<1>13. CASE TakeDirect
  <2>1. cur \in Readers /\ ~ready[cur]
    BY <1>13 DEF TakeDirect, MInv, IInv, BufferTypes, TurnInv
  <2> QED BY <1>13, <1>a, <2>1 DEF TakeDirect
<1>14. CASE TakeHead
  <2>1. cur \in Readers /\ Consume(cur)
    BY <1>14 DEF TakeHead, MInv, IInv, BufferTypes
  <2>2. /\ heads'[cur] = pos[cur] + 1
        /\ \A j \in Readers \ {cur} : ready'[j] = ready[j] /\ heads'[j] = heads[j]
    BY <1>14, <2>1 DEF TakeHead, MInv, IInv, BufferTypes
  <2> QED BY <1>14, <1>a, <2>1, <2>2 DEF TakeHead
<1>15. CASE RejectRecord
  <2>1. cur \in Readers /\ ~ready[cur] /\ phase = "merging"
    BY <1>15 DEF RejectRecord, MInv, IInv, BufferTypes, TurnInv
  <2> QED BY <1>15, <1>a, <2>1 DEF RejectRecord
<1>16. CASE MergedEOF
  BY <1>16 DEF MergedEOF, OutInv
<1>17. CASE UNCHANGED vars
  BY <1>17 DEF vars, OutInv
<1> QED BY <1>4, <1>5, <1>6, <1>7, <1>8, <1>9, <1>10, <1>11, <1>12, <1>13, <1>14,
           <1>15, <1>16, <1>17 DEF Next

-----------------------------------------------------------------------------
(* The offsets of the clocks. *)

LEMMA OffsetNext == MInv /\ ClockInv /\ OffsetOfClock /\ [Next]_vars => OffsetOfClock'
<1> SUFFICES ASSUME MInv, ClockInv, OffsetOfClock, [Next]_vars PROVE OffsetOfClock'
  OBVIOUS
<1> USE DEF readerVars, mergeVars
<1>a. ASSUME NEW i \in Readers, Consume(i), offsets' = offsets, from' = from,
             given' = given, phase' = phase
      PROVE  OffsetOfClock'
  <2> SUFFICES ASSUME phase = "merging", NEW j \in Readers \ given
               PROVE  \/ clock'[j].epochOffsetKnown /\ clock'[j].epochOffset = offsets[j]
                      \/ \E p \in from[j] + 1 .. pos'[j] : input'[j][p].kind = "clock"
    BY <1>a DEF OffsetOfClock
  <2>1. /\ Start(i) = input[i][pos[i] + 1] /\ Start(i) \in Outer
        /\ pos'[i] = pos[i] + 1 /\ (\A k \in Readers \ {i} : pos'[k] = pos[k])
        /\ input' = input /\ clock' = [clock EXCEPT ![i] = ClockAfter(@, Start(i))]
    BY <1>a, ConsumeMoves
  <2>2. from[j] \in Nat /\ pos[j] \in Nat /\ from[j] <= pos[j]
        /\ clock \in [Readers -> ClockInfo]
    BY DEF MInv, IInv, BufferTypes, MergeTypes
  <2>3. CASE \E p \in from[j] + 1 .. pos[j] : input[j][p].kind = "clock"
    <3>1. pos[j] <= pos'[j] /\ pos'[j] \in Nat
      BY <2>1, <2>2
    <3> QED BY <2>1, <2>2, <2>3, <3>1
  <2>4. CASE clock[j].epochOffsetKnown /\ clock[j].epochOffset = offsets[j]
    <3>1. CASE j # i
      BY <2>1, <2>2, <2>4, <3>1
    <3>2. CASE j = i /\ Start(i).kind = "clock"
      <4>1. pos[j] + 1 \in from[j] + 1 .. pos'[j]
        BY <2>1, <2>2, <3>2
      <4> QED BY <2>1, <3>2, <4>1
    <3>3. CASE j = i /\ Start(i).kind # "clock"
      <4>1. ClockAfter(clock[i], Start(i)) = clock[i]
        BY <2>1, <2>2, <2>4, <3>3, ClockAfterStep DEF ClockInv
      <4> QED BY <2>1, <2>2, <2>4, <3>3, <4>1
    <3> QED BY <3>1, <3>2, <3>3
  <2> QED BY <2>3, <2>4 DEF OffsetOfClock
<1>1. CASE Merge
  BY <1>1 DEF Merge, OffsetOfClock
<1>2. CASE MergedNext
  BY <1>2 DEF MergedNext, OffsetOfClock
<1>3. CASE NextAfterClose
  BY <1>3 DEF NextAfterClose, OffsetOfClock
<1>4. CASE Close
  BY <1>4 DEF Close, OffsetOfClock
<1>5. ASSUME NEW i \in Readers, ReaderNext(i) PROVE OffsetOfClock'
  BY <1>5 DEF ReaderNext, OffsetOfClock
<1>6. ASSUME NEW i \in Readers, SelectHead(i) PROVE OffsetOfClock'
  BY <1>6 DEF SelectHead, OffsetOfClock
<1>7. CASE ReaderEOF
  BY <1>7 DEF ReaderEOF, OffsetOfClock
<1>8. CASE ReaderFails
  BY <1>8 DEF ReaderFails, OffsetOfClock
<1>9. CASE SkipMetadata
  BY <1>9, <1>a DEF SkipMetadata, MInv, IInv, BufferTypes
<1>10. CASE TakeDirect
  BY <1>10, <1>a DEF TakeDirect, MInv, IInv, BufferTypes, TurnInv
<1>11. CASE TakeHead
  BY <1>11, <1>a DEF TakeHead, MInv, IInv, BufferTypes
<1>12. CASE RejectRecord
  BY <1>12, <1>a DEF RejectRecord, MInv, IInv, BufferTypes
<1>13. CASE MergedEOF
  BY <1>13 DEF MergedEOF, OffsetOfClock
<1>14. CASE UNCHANGED vars
  BY <1>14 DEF vars, OffsetOfClock
<1> QED BY <1>1, <1>2, <1>3, <1>4, <1>5, <1>6, <1>7, <1>8, <1>9, <1>10, <1>11,
           <1>12, <1>13, <1>14 DEF Next

-----------------------------------------------------------------------------
(* Every record is accounted for. *)

LEMMA AccountedNext == MInv /\ OutInv /\ Accounted /\ [Next]_vars => Accounted'
<1> SUFFICES ASSUME MInv, OutInv, Accounted, [Next]_vars PROVE Accounted'
  OBVIOUS
<1> USE DEF readerVars, mergeVars
<1>0. Readers \subseteq Int /\ None \notin Readers /\ None = 0
  BY NoneIsNoReader DEF Readers, None
<1>01. \A a \in DOMAIN out : out[a][1] \in Readers /\ out[a][2] \in Nat
                             /\ out[a] = <<out[a][1], out[a][2]>>
  BY DEF MInv, MergeTypes
<1>02. \A j \in Readers : pos[j] \in Nat /\ heads[j] \in Nat /\ from[j] \in Nat /\ from[j] <= pos[j]
  BY DEF MInv, IInv, BufferTypes, MergeTypes
<1>03. CASE phase' = "closed" /\ UNCHANGED <<out, rejected>>
            /\ \A a \in DOMAIN out : heads'[out[a][1]] # out[a][2]
  BY <1>03 DEF Accounted
<1>a. ASSUME NEW i \in Readers, Consume(i), ~ready[i], out' = out, phase' = phase, from' = from,
             \A j \in Readers \ {i} : heads'[j] = heads[j],
             heads'[i] # heads[i] => heads'[i] = pos[i] + 1,
             rejected \subseteq rejected',
             \A e \in rejected' : e \in rejected \/ e = <<i, pos[i] + 1>>,
             \/ phase = "open" \/ ~Returned(Start(i))
             \/ heads'[i] = pos[i] + 1 \/ <<i, pos[i] + 1>> \in rejected'
      PROVE  Accounted'
  <2>1. /\ Start(i) = input[i][pos[i] + 1] /\ pos'[i] = pos[i] + 1
        /\ (\A j \in Readers \ {i} : pos'[j] = pos[j]) /\ input' = input
    BY <1>a, ConsumeMoves
  <2>2. ASSUME NEW a \in DOMAIN out
        PROVE  out[a] \notin rejected' /\ heads'[out[a][1]] # out[a][2]
    <3>1. out[a][2] <= pos[out[a][1]] /\ out[a] \notin rejected /\ heads[out[a][1]] # out[a][2]
      BY <2>2 DEF OutInv, Accounted
    <3> QED BY <1>a, <1>01, <1>02, <2>2, <3>1
  <2>3. ASSUME phase # "open", NEW j \in Readers, NEW p \in from[j] + 1 .. pos'[j],
               Returned(input[j][p])
        PROVE  \/ phase = "closed" \/ heads'[j] = p \/ <<j, p>> \in rejected'
               \/ \E a \in DOMAIN out : out[a] = <<j, p>>
    <3>1. CASE j = i /\ p = pos[i] + 1
      BY <1>a, <2>1, <2>3, <3>1
    <3>2. CASE ~(j = i /\ p = pos[i] + 1)
      <4>1. p \in from[j] + 1 .. pos[j]
        BY <1>02, <2>1, <3>2
      <4>2. \/ phase = "closed" \/ heads[j] = p \/ <<j, p>> \in rejected
            \/ \E a \in DOMAIN out : out[a] = <<j, p>>
        BY <2>3, <4>1 DEF Accounted
      <4>3. heads[i] = 0 /\ p # 0
        <5>1. heads[i] = 0
          BY <1>0, <1>a DEF MInv, HeadInv
        <5>2. p # 0
          BY <1>02, <4>1
        <5> QED BY <5>1, <5>2
      <4> QED BY <1>a, <4>2, <4>3
    <3> QED BY <3>1, <3>2
  <2> QED BY <1>a, <2>1, <2>2, <2>3 DEF Accounted
<1>1. CASE Merge
  <2>1. from' = pos /\ pos' = pos /\ out' = out /\ rejected' = rejected /\ heads' = heads
        /\ out = << >>
    BY <1>1 DEF Merge, OutInv
  <2>2. \A i \in Readers : from'[i] + 1 .. pos'[i] = {}
    BY <1>02, <2>1
  <2> QED BY <2>1, <2>2 DEF Accounted
<1>2. CASE MergedNext
  BY <1>2 DEF MergedNext, Accounted
<1>3. CASE NextAfterClose
  BY <1>3 DEF NextAfterClose, Accounted
<1>4. CASE Close
  BY <1>4, <1>01, <1>03 DEF Close, OutInv
<1>5. ASSUME NEW i \in Readers, ReaderNext(i) PROVE Accounted'
  BY <1>5 DEF ReaderNext, Accounted
<1>6. ASSUME NEW i \in Readers, SelectHead(i) PROVE Accounted'
  <2>1. phase = "merging" /\ ready[i] /\ heads[i] = pos[i] /\ heads[i] # None
        /\ <<i, heads[i]>> \notin rejected
    BY <1>6 DEF SelectHead, Best, MInv, IInv, TurnInv, HeadInv
  <2>2. /\ out' = Append(out, <<i, heads[i]>>) /\ heads' = [heads EXCEPT ![i] = None]
        /\ rejected' = rejected /\ pos' = pos /\ phase' = phase /\ from' = from /\ input' = input
    BY <1>6 DEF SelectHead
  <2>3. out \in Seq(Readers \X Nat) /\ Len(out) \in Nat /\ DOMAIN out = 1 .. Len(out)
    BY DEF MInv, MergeTypes
  <2>4. /\ DOMAIN out' = 1 .. Len(out) + 1 /\ out'[Len(out) + 1] = <<i, heads[i]>>
        /\ \A a \in DOMAIN out : a \in DOMAIN out' /\ out'[a] = out[a]
        /\ \A a \in DOMAIN out' : a = Len(out) + 1 \/ a \in DOMAIN out
    BY <2>2, <2>3
  <2>5. heads'[i] = 0 /\ \A j \in Readers \ {i} : heads'[j] = heads[j]
    BY <1>0, <2>2 DEF MInv, IInv, BufferTypes
  <2>6. \A j \in Readers : \A p \in from[j] + 1 .. pos[j] : Returned(input[j][p]) =>
          \/ heads'[j] = p \/ <<j, p>> \in rejected \/ \E a \in DOMAIN out' : out'[a] = <<j, p>>
    <3> SUFFICES ASSUME NEW j \in Readers, NEW p \in from[j] + 1 .. pos[j],
                        Returned(input[j][p])
                 PROVE  \/ heads'[j] = p \/ <<j, p>> \in rejected
                        \/ \E a \in DOMAIN out' : out'[a] = <<j, p>>
      OBVIOUS
    <3>1. \/ heads[j] = p \/ <<j, p>> \in rejected \/ \E a \in DOMAIN out : out[a] = <<j, p>>
      BY <2>1 DEF Accounted
    <3>2. CASE heads[j] = p
      <4>1. Len(out) + 1 \in DOMAIN out'
        BY <2>3, <2>4
      <4> QED BY <2>4, <2>5, <3>2, <4>1
    <3> QED BY <2>4, <3>1, <3>2
  <2>7. \A a, b \in DOMAIN out' :
          a < b /\ out'[a][1] = out'[b][1] => out'[a][2] < out'[b][2]
    <3> SUFFICES ASSUME NEW a \in DOMAIN out', NEW b \in DOMAIN out', a < b,
                        out'[a][1] = out'[b][1]
                 PROVE  out'[a][2] < out'[b][2]
      OBVIOUS
    <3>1. a \in DOMAIN out /\ out'[a] = out[a]
      BY <2>3, <2>4
    <3>2. CASE b \in DOMAIN out
      BY <2>4, <3>1, <3>2 DEF Accounted
    <3>3. CASE b = Len(out) + 1
      BY <2>1, <2>4, <3>1, <3>3 DEF OutInv
    <3> QED BY <2>4, <3>2, <3>3
  <2>8. \A a \in DOMAIN out' : out'[a] \notin rejected /\ heads'[out'[a][1]] # out'[a][2]
    <3> SUFFICES ASSUME NEW a \in DOMAIN out'
                 PROVE  out'[a] \notin rejected /\ heads'[out'[a][1]] # out'[a][2]
      OBVIOUS
    <3>1. CASE a = Len(out) + 1
      BY <1>0, <2>1, <2>4, <2>5, <3>1
    <3>2. CASE a \in DOMAIN out
      <4>1. out'[a] = out[a] /\ out[a] \notin rejected /\ out[a][2] # 0
            /\ heads[out[a][1]] # out[a][2] /\ out[a][1] \in Readers
        BY <1>0, <1>01, <2>4, <3>2 DEF Accounted, OutInv
      <4>2. CASE out[a][1] = i
        BY <2>5, <4>1, <4>2
      <4>3. CASE out[a][1] # i
        BY <2>5, <4>1, <4>3
      <4> QED BY <4>1, <4>2, <4>3
    <3> QED BY <2>4, <3>1, <3>2
  <2> QED BY <2>2, <2>6, <2>7, <2>8 DEF Accounted
<1>7. CASE ReaderEOF
  BY <1>7 DEF ReaderEOF, Accounted
<1>8. CASE ReaderFails
  BY <1>8 DEF ReaderFails, Accounted
<1>9. CASE SkipMetadata
  <2>1. cur \in Readers /\ ~ready[cur]
    BY <1>9 DEF SkipMetadata, MInv, IInv, BufferTypes, TurnInv
  <2> QED BY <1>9, <1>a, <2>1 DEF SkipMetadata
<1>10. CASE TakeDirect
  <2>1. cur \in Readers /\ ~ready[cur] /\ phase = "open"
    BY <1>10 DEF TakeDirect, MInv, IInv, BufferTypes, TurnInv
  <2> QED BY <1>10, <1>a, <2>1 DEF TakeDirect
<1>11. CASE TakeHead
  <2>1. cur \in Readers /\ ~ready[cur]
    BY <1>11 DEF TakeHead, MInv, IInv, BufferTypes, TurnInv
  <2>2. heads'[cur] = pos[cur] + 1 /\ \A j \in Readers \ {cur} : heads'[j] = heads[j]
    BY <1>11, <2>1 DEF TakeHead, MInv, IInv, BufferTypes
  <2> QED BY <1>11, <1>a, <2>1, <2>2 DEF TakeHead
<1>12. CASE RejectRecord
  <2>1. cur \in Readers /\ ~ready[cur]
    BY <1>12 DEF RejectRecord, MInv, IInv, BufferTypes, TurnInv
  <2>2. rejected' = rejected \cup {<<cur, pos[cur] + 1>>}
    BY <1>12 DEF RejectRecord
  <2> QED BY <1>12, <1>a, <2>1, <2>2 DEF RejectRecord
<1>13. CASE MergedEOF
  BY <1>13 DEF MergedEOF, Accounted
<1>14. CASE UNCHANGED vars
  BY <1>14 DEF vars, Accounted
<1> QED BY <1>1, <1>2, <1>3, <1>4, <1>5, <1>6, <1>7, <1>8, <1>9, <1>10, <1>11,
           <1>12, <1>13, <1>14 DEF Next

-----------------------------------------------------------------------------
(* io.EOF. *)

LEMMA EndNext ==
  ASSUME EOFWithData = FALSE, MInv, DoneInv, EOFComplete, [Next]_vars
  PROVE  DoneInv' /\ EOFComplete'
<1> USE DEF readerVars, mergeVars
<1>0. Readers \subseteq Int /\ None \notin Readers
  BY NoneIsNoReader DEF Readers
<1>a. ASSUME NEW i \in Readers, Consume(i), done' = done, phase' = phase,
             \A j \in Readers \ {i} : ready'[j] = ready[j],
             \/ result' = result
             \/ result'.kind # "eof"
      PROVE  DoneInv' /\ EOFComplete'
  <2>1. ~AtEnd(i) /\ input' = input /\ \A j \in Readers \ {i} : pos'[j] = pos[j]
    BY <1>a, ConsumeMoves
  <2>2. DoneInv'
    BY <1>a, <2>1 DEF DoneInv, AtEnd
  <2>3. EOFComplete'
    <3>1. CASE result' = result
      <4>1. result.kind = "eof" /\ phase # "closed" => result.reader \notin {i, None}
        BY <2>1 DEF EOFComplete
      <4> QED BY <1>a, <2>1, <3>1, <4>1 DEF EOFComplete, AtEnd
    <3> QED BY <1>a, <3>1 DEF EOFComplete
  <2> QED BY <2>2, <2>3
<1>1. CASE Merge
  BY <1>1 DEF Merge, DoneInv, EOFComplete, AtEnd
<1>2. CASE MergedNext
  BY <1>2 DEF MergedNext, DoneInv, EOFComplete, AtEnd
<1>3. CASE NextAfterClose
  BY <1>3 DEF NextAfterClose, DoneInv, EOFComplete, AtEnd
<1>4. CASE Close
  BY <1>4 DEF Close, DoneInv, EOFComplete
<1>5. ASSUME NEW i \in Readers, ReaderNext(i) PROVE DoneInv' /\ EOFComplete'
  BY <1>5 DEF ReaderNext, DoneInv, EOFComplete, AtEnd
<1>6. ASSUME NEW i \in Readers, SelectHead(i) PROVE DoneInv' /\ EOFComplete'
  BY <1>6 DEF SelectHead, Return, Result, DoneInv, EOFComplete, AtEnd
<1>7. CASE ReaderEOF
  <2>1. cur \in Readers /\ AtEnd(cur) /\ ~ready[cur] /\ UNCHANGED <<input, pos, ready, phase>>
    BY <1>7 DEF ReaderEOF, EOFOnLast, MInv, IInv, BufferTypes, TurnInv
  <2>2. CASE call = "reader"
    BY <1>0, <1>7, <2>1, <2>2 DEF ReaderEOF, Return, Result, DoneInv, EOFComplete, AtEnd
  <2>3. CASE call # "reader"
    BY <1>7, <2>1, <2>3 DEF ReaderEOF, DoneInv, EOFComplete, AtEnd, MInv, MergeTypes
  <2> QED BY <2>2, <2>3
<1>8. CASE ReaderFails
  BY <1>8 DEF ReaderFails, Return, Result, DoneInv, EOFComplete, AtEnd
<1>9. CASE SkipMetadata
  BY <1>9, <1>a DEF SkipMetadata, MInv, IInv, BufferTypes
<1>10. CASE TakeDirect
  BY <1>10, <1>a DEF TakeDirect, Return, Result, MInv, IInv, BufferTypes, TurnInv
<1>11. CASE TakeHead
  <2>1. cur \in Readers /\ \A j \in Readers \ {cur} : ready'[j] = ready[j]
    BY <1>11 DEF TakeHead, MInv, IInv, BufferTypes
  <2> QED BY <1>11, <1>a, <2>1 DEF TakeHead
<1>12. CASE RejectRecord
  BY <1>12, <1>a DEF RejectRecord, Return, Result, MInv, IInv, BufferTypes
<1>13. CASE MergedEOF
  <2>1. \A i \in Readers : ~ready[i] /\ AtEnd(i)
    BY <1>13 DEF MergedEOF, MInv, FillInv, DoneInv
  <2> QED BY <1>13, <2>1 DEF MergedEOF, Return, Result, DoneInv, EOFComplete, AtEnd
<1>14. CASE UNCHANGED vars
  BY <1>14 DEF vars, DoneInv, EOFComplete, AtEnd
<1> QED BY <1>1, <1>2, <1>3, <1>4, <1>5, <1>6, <1>7, <1>8, <1>9, <1>10, <1>11,
           <1>12, <1>13, <1>14 DEF Next

-----------------------------------------------------------------------------
(* The order of the merge. *)

\* Records that have been read, or are still to come, have integer times.
LEMMA OutAbsolute ==
  ASSUME MInv, OutInv, NEW a \in DOMAIN out
  PROVE  /\ out[a][1] \in Readers /\ out[a][1] \in Int
         /\ Absolute(out[a]) \in Int
<1>1. out[a][1] \in Readers /\ out[a][2] \in Nat /\ out[a] = <<out[a][1], out[a][2]>>
      /\ out[a][1] \in Int
  BY DEF MInv, MergeTypes, Readers
<1>2. out[a][2] # 0 /\ out[a][2] <= pos[out[a][1]]
  BY DEF OutInv, None
<1>3. pos[out[a][1]] \in Nat /\ pos[out[a][1]] <= Len(input[out[a][1]])
      /\ DOMAIN input[out[a][1]] = 1 .. Len(input[out[a][1]])
      /\ Len(input[out[a][1]]) \in Nat
  BY <1>1 DEF MInv, IInv, BufferTypes, MergeTypes
<1>4. out[a][2] \in DOMAIN input[out[a][1]]
  BY <1>1, <1>2, <1>3
<1>5. Absolute(<<out[a][1], out[a][2]>>) \in Int
  BY <1>1, <1>4, AbsoluteInt DEF MInv
<1> QED BY <1>1, <1>5

LEMMA OrderNext ==
  MInv /\ OutInv /\ OrderInv /\ Sorted /\ [Next]_vars => OrderInv' /\ Sorted'
<1> SUFFICES ASSUME MInv, OutInv, OrderInv, Sorted, [Next]_vars PROVE OrderInv' /\ Sorted'
  OBVIOUS
<1> USE DEF readerVars, mergeVars
<1>0. Readers \subseteq Int /\ None \notin Readers /\ None = 0
  BY NoneIsNoReader DEF Readers, None
<1>01. \A j \in Readers : /\ pos[j] \in Nat /\ pos[j] <= Len(input[j]) /\ Len(input[j]) \in Nat
                          /\ DOMAIN input[j] = 1 .. Len(input[j])
  BY DEF MInv, IInv, BufferTypes, MergeTypes
\* Nothing the order is about changes but the readers that are done.
<1>a. ASSUME UNCHANGED <<input, offsets, heads, ready, pos, out>>,
             phase' = "merging" => phase = "merging",
             \A j \in Readers : done[j] => done'[j]
      PROVE  OrderInv' /\ Sorted'
  BY <1>a DEF OrderInv, Sorted, Before, Absolute
\* Reader i moves on by a record, which is its new head, or is given up or
\* skipped.
<1>b. ASSUME NEW i \in Readers, Consume(i), ~ready[i], ~done[i],
             UNCHANGED <<offsets, done, out, phase>>,
             \A j \in Readers \ {i} : heads'[j] = heads[j] /\ ready'[j] = ready[j],
             ready'[i] => heads'[i] = pos[i] + 1 /\ Returned(Start(i))
      PROVE  OrderInv' /\ Sorted'
  <2>1. /\ Start(i) = input[i][pos[i] + 1] /\ pos'[i] = pos[i] + 1
        /\ (\A j \in Readers \ {i} : pos'[j] = pos[j]) /\ input' = input
        /\ pos[i] + 1 \in 1 .. Len(input[i])
    BY <1>01, <1>b, ConsumeMoves
  <2>2. Sorted'
    BY <1>b, <2>1 DEF Sorted, Absolute
  <2>3. \A d, e : Before(d, e)' <=> Before(d, e)
    BY <1>b, <2>1 DEF Before, Absolute
  <2>4. ASSUME phase = "merging", \A j \in Readers : InTimeOrder(input[j]),
               NEW a \in DOMAIN out, NEW j \in Readers
        PROVE  /\ ready'[j] => Before(out[a], <<j, heads'[j]>>)
               /\ ~ready'[j] /\ ~done[j] =>
                    \A p \in pos'[j] + 1 .. Len(input[j]) :
                      Returned(input[j][p]) => Before(out[a], <<j, p>>)
    <3>1. /\ ready[j] => Before(out[a], <<j, heads[j]>>)
          /\ ~ready[j] /\ ~done[j] =>
               \A p \in pos[j] + 1 .. Len(input[j]) :
                 Returned(input[j][p]) => Before(out[a], <<j, p>>)
      BY <2>4 DEF OrderInv
    <3>2. CASE j # i
      BY <1>b, <2>1, <3>1, <3>2
    <3>3. CASE j = i
      <4>1. \A p \in pos[i] + 1 .. Len(input[i]) :
              Returned(input[i][p]) => Before(out[a], <<i, p>>)
        BY <1>b, <3>1, <3>3
      <4>2. pos[i] + 1 \in pos[i] + 1 .. Len(input[i])
        BY <1>01, <2>1
      <4>3. ready'[i] => Before(out[a], <<i, heads'[i]>>)
        BY <1>b, <2>1, <4>1, <4>2
      <4>4. \A p \in pos'[i] + 1 .. Len(input[i]) : p \in pos[i] + 1 .. Len(input[i])
        BY <1>01, <2>1
      <4> QED BY <3>3, <4>1, <4>3, <4>4
    <3> QED BY <3>2, <3>3
  <2>5. OrderInv'
    BY <1>b, <2>1, <2>3, <2>4 DEF OrderInv
  <2> QED BY <2>2, <2>5
\* A direct Next: nothing has been returned by a merge.
<1>c. ASSUME phase' = "open", out' = << >> PROVE OrderInv' /\ Sorted'
  BY <1>c DEF OrderInv, Sorted
<1>1. CASE Merge
  <2>1. out' = << >>
    BY <1>1 DEF Merge, OutInv
  <2> QED BY <2>1 DEF OrderInv, Sorted
<1>2. CASE MergedNext
  BY <1>2, <1>a DEF MergedNext
<1>3. CASE NextAfterClose
  BY <1>3, <1>a DEF NextAfterClose
<1>4. CASE Close
  BY <1>4 DEF Close, OrderInv, Sorted, Absolute
<1>5. ASSUME NEW i \in Readers, ReaderNext(i) PROVE OrderInv' /\ Sorted'
  BY <1>5, <1>a DEF ReaderNext
<1>6. ASSUME NEW i \in Readers, SelectHead(i) PROVE OrderInv' /\ Sorted'
  <2>1. phase = "merging" /\ ready[i] /\ heads[i] = pos[i] /\ heads[i] # None
        /\ Returned(input[i][heads[i]]) /\ times[i] = Absolute(<<i, heads[i]>>)
    BY <1>6 DEF SelectHead, Best, MInv, IInv, TurnInv, HeadInv
  <2>2. /\ out' = Append(out, <<i, heads[i]>>) /\ ready' = [ready EXCEPT ![i] = FALSE]
        /\ heads' = [heads EXCEPT ![i] = None]
        /\ UNCHANGED <<pos, input, offsets, done, phase>>
    BY <1>6 DEF SelectHead
  <2>3. out \in Seq(Readers \X Nat) /\ Len(out) \in Nat /\ DOMAIN out = 1 .. Len(out)
    BY DEF MInv, MergeTypes
  <2>4. /\ DOMAIN out' = 1 .. Len(out) + 1 /\ out'[Len(out) + 1] = <<i, heads[i]>>
        /\ \A a \in DOMAIN out : out'[a] = out[a]
        /\ \A a \in DOMAIN out' : a = Len(out) + 1 \/ a \in DOMAIN out
    BY <2>2, <2>3
  <2>5. ~ready'[i] /\ \A j \in Readers \ {i} : heads'[j] = heads[j] /\ ready'[j] = ready[j]
    BY <2>2 DEF MInv, IInv, BufferTypes
  <2>6. \A d, e : Before(d, e)' <=> Before(d, e)
    BY <2>2 DEF Before, Absolute
  <2>7. heads[i] \in DOMAIN input[i] /\ i \in Int
        /\ Absolute(<<i, heads[i]>>) \in Int
        /\ Absolute(<<i, heads[i]>>) = TimeOf(input[i][heads[i]]) + offsets[i]
        /\ TimeOf(input[i][heads[i]]) \in Int /\ offsets[i] \in Int
    <3>1. heads[i] \in DOMAIN input[i] /\ i \in Int
      BY <1>0, <1>01, <2>1
    <3> QED BY <3>1, AbsoluteInt DEF MInv
  <2>8. \A j \in Readers \ {i} : ready'[j] \/ done[j]
    BY <1>6, <2>5 DEF SelectHead, MInv, FillInv
  <2>9. ASSUME \A j \in Readers : InTimeOrder(input[j])
        PROVE  /\ \A a, b \in DOMAIN out' : a < b => Before(out'[a], out'[b])
               /\ \A a \in DOMAIN out', j \in Readers :
                    /\ ready'[j] => Before(out'[a], <<j, heads'[j]>>)
                    /\ ~ready'[j] /\ ~done[j] =>
                         \A p \in pos[j] + 1 .. Len(input[j]) :
                           Returned(input[j][p]) => Before(out'[a], <<j, p>>)
    <3> DEFINE new == <<i, heads[i]>>
    <3>1. \A a \in DOMAIN out : Before(out[a], new)
      BY <2>1, <2>9 DEF OrderInv
    <3>2. \A a, b \in DOMAIN out : a < b => Before(out[a], out[b])
      BY <2>9 DEF Sorted, Before
    <3>3. \A a, b \in DOMAIN out' : a < b => Before(out'[a], out'[b])
      BY <2>3, <2>4, <3>1, <3>2
    <3>4. ASSUME NEW p \in pos[i] + 1 .. Len(input[i]), Returned(input[i][p])
          PROVE  Before(new, <<i, p>>) /\ Absolute(<<i, p>>) \in Int
      <4>1. p \in DOMAIN input[i] /\ heads[i] < p
        BY <1>01, <2>1
      <4>2. TimeOf(input[i][heads[i]]) <= TimeOf(input[i][p])
        BY <2>1, <2>7, <2>9, <3>4, <4>1 DEF InTimeOrder
      <4>3. Absolute(<<i, p>>) = TimeOf(input[i][p]) + offsets[i]
            /\ TimeOf(input[i][p]) \in Int /\ Absolute(<<i, p>>) \in Int
        BY <4>1, AbsoluteInt DEF MInv
      <4> QED BY <2>7, <4>2, <4>3 DEF Before
    <3>5. ASSUME NEW j \in Readers, ready'[j]
          PROVE  Before(new, <<j, heads'[j]>>)
      <4>1. j # i /\ ready[j] /\ heads'[j] = heads[j]
        BY <2>5, <3>5
      <4>2. times[j] = Absolute(<<j, heads[j]>>)
        BY <4>1 DEF MInv, HeadInv
      <4>3. times[i] < times[j] \/ (times[i] = times[j] /\ i <= j)
        BY <1>6, <4>1 DEF SelectHead, Best
      <4> QED BY <2>1, <4>1, <4>2, <4>3 DEF Before
    <3>6. ASSUME NEW a \in DOMAIN out', NEW j \in Readers
          PROVE  /\ ready'[j] => Before(out'[a], <<j, heads'[j]>>)
                 /\ ~ready'[j] /\ ~done[j] =>
                      \A p \in pos[j] + 1 .. Len(input[j]) :
                        Returned(input[j][p]) => Before(out'[a], <<j, p>>)
      <4>1. CASE a = Len(out) + 1
        BY <2>4, <2>8, <3>4, <3>5, <4>1
      <4>2. CASE a \in DOMAIN out
        <5>1. out'[a] = out[a] /\ Before(out[a], new)
          BY <2>4, <3>1, <4>2
        <5>2. out[a][1] \in Int /\ Absolute(out[a]) \in Int
          BY <4>2, OutAbsolute
        <5>3. ready'[j] => Before(out[a], <<j, heads'[j]>>)
          BY <2>5, <2>9, <2>1, <4>2 DEF OrderInv
        <5>4. ASSUME ~ready'[j], ~done[j], NEW p \in pos[j] + 1 .. Len(input[j]),
                     Returned(input[j][p])
              PROVE  Before(out[a], <<j, p>>)
          <6>1. j = i
            BY <2>8, <5>4
          <6>2. Before(new, <<i, p>>) /\ Absolute(<<i, p>>) \in Int
            BY <3>4, <5>4, <6>1
          <6>3. new[1] \in Int /\ <<i, p>>[1] \in Int
            BY <2>7
          <6> HIDE DEF new
          <6> QED BY <2>7, <5>1, <5>2, <6>1, <6>2, <6>3, BeforeTransitive DEF new
        <5> QED BY <5>1, <5>3, <5>4
      <4> QED BY <2>4, <4>1, <4>2
    <3> QED BY <3>3, <3>6
  <2>10. OrderInv'
    BY <2>2, <2>6, <2>9 DEF OrderInv
  <2>11. Sorted'
    BY <2>2, <2>6, <2>9 DEF Sorted, Before
  <2> QED BY <2>10, <2>11
<1>7. CASE ReaderEOF
  BY <1>7, <1>a DEF ReaderEOF, MInv, MergeTypes
<1>8. CASE ReaderFails
  BY <1>8, <1>a DEF ReaderFails
<1>9. CASE SkipMetadata
  <2>1. cur \in Readers /\ ~ready[cur]
    BY <1>9 DEF SkipMetadata, MInv, IInv, BufferTypes, TurnInv
  <2>2. CASE call = "merge"
    <3>1. ~done[cur]
      BY <1>9, <2>2 DEF SkipMetadata, MInv, FillInv
    <3> QED BY <1>9, <1>b, <2>1, <3>1 DEF SkipMetadata
  <2>3. CASE call # "merge"
    BY <1>9, <1>c, <2>3 DEF SkipMetadata, MInv, IInv, TurnInv, OutInv
  <2> QED BY <2>2, <2>3
<1>10. CASE TakeDirect
  BY <1>10, <1>c DEF TakeDirect, MInv, IInv, TurnInv, OutInv
<1>11. CASE TakeHead
  <2>1. cur \in Readers /\ ~ready[cur] /\ ~done[cur]
    BY <1>11 DEF TakeHead, MInv, IInv, BufferTypes, TurnInv, FillInv
  <2>2. heads'[cur] = pos[cur] + 1
        /\ \A j \in Readers \ {cur} : heads'[j] = heads[j] /\ ready'[j] = ready[j]
    BY <1>11, <2>1 DEF TakeHead, MInv, IInv, BufferTypes
  <2> QED BY <1>11, <1>b, <2>1, <2>2 DEF TakeHead
<1>12. CASE RejectRecord
  <2>1. cur \in Readers /\ ~ready[cur] /\ ~done[cur]
    BY <1>12 DEF RejectRecord, MInv, IInv, BufferTypes, TurnInv, FillInv
  <2> QED BY <1>12, <1>b, <2>1 DEF RejectRecord
<1>13. CASE MergedEOF
  BY <1>13, <1>a DEF MergedEOF
<1>14. CASE UNCHANGED vars
  BY <1>14, <1>a DEF vars
<1> QED BY <1>1, <1>2, <1>3, <1>4, <1>5, <1>6, <1>7, <1>8, <1>9, <1>10, <1>11,
           <1>12, <1>13, <1>14 DEF Next

-----------------------------------------------------------------------------
(* The theorems. *)

\* The invariant of the merge.
Inv == MInv /\ OutInv /\ ClockInv

\* Every behaviour keeps it.
THEOREM MergeInvariant == Spec => []Inv
<1>1. Init => Inv
  BY InitMInv DEF Inv
<1>2. Inv /\ [Next]_vars => Inv'
  BY IInvNext, MergeTypesNext, FillNext, HeadNext, OutNext DEF Inv, MInv
<1> QED BY <1>1, <1>2, PTL DEF Spec

\* A merge goes on with the offset each reader's clock had, whatever metadata
\* follows, unless CLOCK_DATA follows.
THEOREM OffsetsAreOfClocks == Spec => []OffsetOfClock
<1>1. Init => OffsetOfClock
  BY DEF Init, OffsetOfClock
<1>2. Inv /\ OffsetOfClock /\ [Next]_vars => OffsetOfClock'
  BY OffsetNext DEF Inv
<1> QED BY <1>1, <1>2, MergeInvariant, PTL DEF Spec

\* MergedReader.Next loses, repeats and reorders no record of a reader.
THEOREM RecordsAreAccounted == Spec => []Accounted
<1>1. Init => Accounted
  BY DEF Init, Accounted
<1>2. Inv /\ Accounted /\ [Next]_vars => Accounted'
  BY AccountedNext DEF Inv
<1> QED BY <1>1, <1>2, MergeInvariant, PTL DEF Spec

\* If no source returns io.EOF with its last bytes, Next returns io.EOF only
\* when everything has been returned.
THEOREM EOFIsComplete ==
  ASSUME EOFWithData = FALSE
  PROVE  Spec => []EOFComplete
<1>1. Init => DoneInv /\ EOFComplete
  BY InitMInv DEF Init, EOFComplete, Result
<1>2. Inv /\ DoneInv /\ EOFComplete /\ [Next]_vars => DoneInv' /\ EOFComplete'
  BY EndNext DEF Inv
<1> QED BY <1>1, <1>2, MergeInvariant, PTL DEF Spec

\* MergedReader.Next is a stable merge of readers that are in time order: by
\* absolute time, and by reader where times are equal.
THEOREM MergeIsSorted == Spec => []Sorted
<1>1. Init => OrderInv /\ Sorted
  BY InitMInv DEF Init, Sorted
<1>2. Inv /\ OrderInv /\ Sorted /\ [Next]_vars => OrderInv' /\ Sorted'
  BY OrderNext DEF Inv
<1> QED BY <1>1, <1>2, MergeInvariant, PTL DEF Spec
=============================================================================

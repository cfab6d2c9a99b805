----------------------------- MODULE PerfClock ------------------------------
(***************************************************************************)
(* Timestamps of perf.data records (perfdata/clock.go and Timestamp in     *)
(* tracepoint/model.go). Integers keep their width: an unsigned word is in *)
(* 0 .. 2*MaxInt64 + 1 and a signed one in -MaxInt64 - 1 .. MaxInt64, with *)
(* the wrap-around of Go's conversions. The code has MaxInt64 = 2^63 - 1.  *)
(***************************************************************************)
EXTENDS Integers

CONSTANT MaxInt64

ASSUME WordAssumption == MaxInt64 \in Nat

Word == 2 * (MaxInt64 + 1)
Uint64 == 0 .. Word - 1
Int64 == -(MaxInt64 + 1) .. MaxInt64

uint64(x) == x % Word
int64(x) == IF x % Word > MaxInt64 THEN (x % Word) - Word ELSE x % Word

\* A result with Go's "comma ok".
Ok(v) == [ok |-> TRUE, value |-> v]
NotOk == [ok |-> FALSE, value |-> 0]

-----------------------------------------------------------------------------
\* A bug for a mutant: the sum is not checked for overflow.
AddUnguarded(ns, offset) == Ok(int64(ns + offset))

\* Timestamp.UnixNano for a known offset >= 0.
AddOffset(ns, offset) ==
  IF ns > uint64(MaxInt64 - offset) THEN NotOk ELSE Ok(int64(ns + offset))

\* An unsigned word as a signed one, and the negation of one.
NonNegative(u) == IF u > MaxInt64 THEN NotOk ELSE Ok(int64(u))
Negated(u) == IF u > MaxInt64 + 1 THEN NotOk
              ELSE IF u = MaxInt64 + 1 THEN Ok(-(MaxInt64 + 1)) ELSE Ok(-int64(u))

\* Timestamp.UnixNano for a known offset < 0. The magnitude of the smallest
\* signed word is not a signed word, hence -(offset + 1) and + 1.
SubtractMagnitude(ns, offset) ==
  LET magnitude == uint64(uint64(-(offset + 1)) + 1)
  IN IF ns >= magnitude
       THEN NonNegative(uint64(ns - magnitude))
       ELSE Negated(uint64(magnitude - ns))

UnixNano(ns, offset) ==
  IF offset >= 0 THEN AddOffset(ns, offset) ELSE SubtractMagnitude(ns, offset)

signedDifference(a, b) ==
  IF a >= b THEN NonNegative(uint64(a - b)) ELSE Negated(uint64(b - a))

-----------------------------------------------------------------------------
(* ClockInfo of a Reader. *)

NoId == -1

ClockInfo == [id : Int, idKnown : BOOLEAN, dataVersion : Nat,
              epochOffset : Int64, epochOffsetKnown : BOOLEAN]

NewClock == [id |-> NoId, idKnown |-> FALSE, dataVersion |-> 0,
             epochOffset |-> 0, epochOffsetKnown |-> FALSE]

\* CLOCK_REALTIME needs no CLOCK_DATA.
setClockID(clock, id) ==
  LET named == [clock EXCEPT !.id = id, !.idKnown = TRUE]
  IN IF id = 0 /\ clock.dataVersion = 0
       THEN [named EXCEPT !.epochOffset = 0, !.epochOffsetKnown = TRUE]
       ELSE named

\* A clock ID that contradicts the known one is a fatal error.
Agrees(clock, id) == ~clock.idKnown \/ clock.id = id

\* A bug for a mutant: HEADER_ATTR starts the clock anew.
attrResets(clock, id) == setClockID(NewClock, id)

\* addDescriptor, for an attribute with use_clockid.
attrClock(clock, id) == IF clock.idKnown THEN clock ELSE setClockID(clock, id)

\* parseClockData: an offset that is not a signed word is unknown.
clockData(clock, id, wall, clockTime) ==
  LET named == setClockID([clock EXCEPT !.dataVersion = 1], id)
      off   == signedDifference(wall, clockTime)
  IN [named EXCEPT !.epochOffset = IF off.ok THEN off.value ELSE @,
                   !.epochOffsetKnown = off.ok]
=============================================================================

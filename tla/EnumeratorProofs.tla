-------------------------- MODULE EnumeratorProofs --------------------------
(***************************************************************************)
(* The decoder of EventHeader events stays in bounds and builds well       *)
(* formed values, for every event and all limits.                          *)
(***************************************************************************)
EXTENDS Enumerator, FiniteSetTheorems, SequenceTheorems, WellFoundedInduction, TLAPS

-----------------------------------------------------------------------------
(* The decoder by itself *)

Byte == 0..255

\* Events as bytes may say they are: any fields, counts and payload.
WireField ==
  [encoding : Scalars \cup {"struct", "bad"}, array : {"scalar", "variable", "fixed"},
   count : Nat, children : Nat, tag : BOOLEAN]

WireEvent ==
  [level : Nat, exts : Seq([kind : {"metadata", "activity", "zero"}, size : Nat, chain : BOOLEAN]),
   metadata : Seq(WireField), payload : Seq(Byte)]

DecoderNext ==
  \/ \E event \in WireEvent, name \in Nat : parse(event, name)
  \/ Decode
  \/ Discard

DecoderSpec == DecoderInit /\ [][DecoderNext]_decoderVars

-----------------------------------------------------------------------------
(* Nesting of items *)

States == {"Value", "ArrayBegin", "ArrayEnd", "StructBegin", "StructEnd"}
Begins == {"ArrayBegin", "StructBegin"}
ItemType ==
  [state : States, encoding : Scalars \cup {"struct", "bad"}, raw : Seq(Byte), count : Nat, index : Int]

LEMMA CountFinite ==
  ASSUME NEW s, NEW i \in Nat, NEW S
  PROVE  /\ IsFiniteSet({j \in 1..i : s[j].state \in S})
         /\ Count(s, i, S) \in Nat
<1>1. IsFiniteSet(1..i)
  BY FS_Interval
<1>2. {j \in 1..i : s[j].state \in S} \subseteq 1..i
  OBVIOUS
<1>3. IsFiniteSet({j \in 1..i : s[j].state \in S})
  BY <1>1, <1>2, FS_Subset
<1> QED BY <1>3, FS_CardinalityType DEF Count

LEMMA CountNext ==
  ASSUME NEW s, NEW i \in Nat, NEW S
  PROVE  Count(s, i + 1, S) = IF s[i + 1].state \in S THEN Count(s, i, S) + 1 ELSE Count(s, i, S)
<1> DEFINE A == {j \in 1..i : s[j].state \in S}
           B == {j \in 1 .. i + 1 : s[j].state \in S}
<1>1. IsFiniteSet(A)
  BY CountFinite
<1>2. CASE s[i + 1].state \in S
  <2>1. B = A \cup {i + 1} /\ i + 1 \notin A
    BY <1>2
  <2> HIDE DEF A, B
  <2>2. Cardinality(B) = Cardinality(A) + 1
    BY <1>1, <2>1, FS_AddElement
  <2> QED BY <1>2, <2>2 DEF Count, A, B
<1>3. CASE s[i + 1].state \notin S
  <2>1. B = A
    BY <1>3
  <2> QED BY <1>3, <2>1 DEF Count
<1> QED BY <1>2, <1>3

\* Counts only depend on the items counted.
LEMMA CountSame ==
  ASSUME NEW s, NEW t, NEW i \in Nat, NEW S, \A j \in 1..i : s[j] = t[j]
  PROVE  Count(s, i, S) = Count(t, i, S)
<1>1. {j \in 1..i : s[j].state \in S} = {j \in 1..i : t[j].state \in S}
  OBVIOUS
<1> QED BY <1>1 DEF Count

LEMMA NestingType ==
  ASSUME NEW s, NEW i \in Nat
  PROVE  Nesting(s, i) \in Int
<1>1. /\ Count(s, i, {"ArrayBegin", "StructBegin"}) \in Nat
      /\ Count(s, i, {"ArrayEnd", "StructEnd"}) \in Nat
  BY CountFinite
<1> QED BY <1>1 DEF Nesting

LEMMA NestingSame ==
  ASSUME NEW s, NEW t, NEW i \in Nat, \A j \in 1..i : s[j] = t[j]
  PROVE  Nesting(s, i) = Nesting(t, i)
BY CountSame DEF Nesting

LEMMA NestingNext ==
  ASSUME NEW s, NEW i \in Nat
  PROVE  Nesting(s, i + 1) = CASE s[i + 1].state \in Begins -> Nesting(s, i) + 1
                               [] s[i + 1].state \in {"ArrayEnd", "StructEnd"} -> Nesting(s, i) - 1
                               [] OTHER -> Nesting(s, i)
<1>1. /\ Count(s, i, Begins) \in Nat /\ Count(s, i, {"ArrayEnd", "StructEnd"}) \in Nat
  BY CountFinite
<1>2. \A S : Count(s, i + 1, S) = IF s[i + 1].state \in S THEN Count(s, i, S) + 1 ELSE Count(s, i, S)
  BY CountNext
<1> QED BY <1>1, <1>2 DEF Nesting, Begins

\* An item after s is directly inside the containers it is appended to.
Receives(s, i) ==
  /\ \A k \in i .. Len(s) : Nesting(s, k) >= Nesting(s, i)
  /\ Nesting(s, Len(s)) = Nesting(s, i)

LEMMA InsideFinite ==
  ASSUME NEW s \in Seq(ItemType), NEW i \in Nat
  PROVE  IsFiniteSet(Inside(s, i)) /\ Cardinality(Inside(s, i)) \in Nat
<1>1. IsFiniteSet(1..Len(s))
  BY FS_Interval
<1>2. Inside(s, i) \subseteq 1..Len(s)
  BY DEF Inside
<1> QED BY <1>1, <1>2, FS_Subset, FS_CardinalityType

LEMMA InsideAppend ==
  ASSUME NEW s \in Seq(ItemType), NEW e \in ItemType, NEW i \in 1..Len(s)
  PROVE  Cardinality(Inside(Append(s, e), i)) =
           IF Receives(s, i) /\ e.state \in {"Value", "ArrayBegin", "StructBegin"}
           THEN Cardinality(Inside(s, i)) + 1 ELSE Cardinality(Inside(s, i))
<1> DEFINE t == Append(s, e)
           n == Len(s)
<1>1. n \in Nat /\ Len(t) = n + 1 /\ t[n + 1] = e /\ \A j \in 1..n : t[j] = s[j]
  OBVIOUS
<1> HIDE DEF t
<1>2. \A k \in 0..n : Nesting(t, k) = Nesting(s, k)
  <2> TAKE k \in 0..n
  <2>1. k \in Nat /\ \A j \in 1..k : t[j] = s[j]
    BY <1>1
  <2> QED BY <2>1, NestingSame
<1> DEFINE A == Inside(s, i)
           B == Inside(t, i)
<1>3. \A j \in i + 1 .. n : j \in A <=> j \in B
  <2> TAKE j \in i + 1 .. n
  <2>1. j \in A <=> /\ \A k \in i .. j - 1 : Nesting(s, k) >= Nesting(s, i)
                    /\ s[j].state \in {"Value", "ArrayBegin", "StructBegin"}
                    /\ Nesting(s, j - 1) = Nesting(s, i)
    BY <1>1 DEF Inside
  <2>2. j \in B <=> /\ \A k \in i .. j - 1 : Nesting(t, k) >= Nesting(t, i)
                    /\ t[j].state \in {"Value", "ArrayBegin", "StructBegin"}
                    /\ Nesting(t, j - 1) = Nesting(t, i)
    BY <1>1 DEF Inside
  <2>3. /\ \A k \in i .. j - 1 : Nesting(t, k) = Nesting(s, k)
        /\ Nesting(t, i) = Nesting(s, i) /\ Nesting(t, j - 1) = Nesting(s, j - 1) /\ t[j] = s[j]
    BY <1>1, <1>2
  <2> HIDE DEF A, B
  <2> QED BY <2>1, <2>2, <2>3
<1>4. n + 1 \in B <=> Receives(s, i) /\ e.state \in {"Value", "ArrayBegin", "StructBegin"}
  <2>1. n + 1 \in B <=> /\ \A k \in i .. (n + 1) - 1 : Nesting(t, k) >= Nesting(t, i)
                        /\ t[n + 1].state \in {"Value", "ArrayBegin", "StructBegin"}
                        /\ Nesting(t, (n + 1) - 1) = Nesting(t, i)
    BY <1>1 DEF Inside
  <2>2. (n + 1) - 1 = n /\ \A k \in i .. n : Nesting(t, k) = Nesting(s, k)
    BY <1>1, <1>2
  <2>3. Nesting(t, i) = Nesting(s, i) /\ Nesting(t, n) = Nesting(s, n)
    BY <1>1, <1>2
  <2> HIDE DEF B
  <2> QED BY <1>1, <2>1, <2>2, <2>3 DEF Receives
<1>5. /\ A \subseteq i + 1 .. n /\ B \subseteq i + 1 .. n + 1 /\ n + 1 \notin A
      /\ \A j \in B : j \in i + 1 .. n \/ j = n + 1
  BY <1>1 DEF Inside
<1>6. IsFiniteSet(A)
  BY <1>1, InsideFinite
<1> HIDE DEF A, B
<1>7. CASE n + 1 \in B
  <2>1. B = A \cup {n + 1} /\ n + 1 \notin A
    BY <1>3, <1>5, <1>7, Zenon
  <2>2. Cardinality(B) = Cardinality(A) + 1
    BY <1>6, <2>1, FS_AddElement
  <2> QED BY <1>4, <1>7, <2>2 DEF A, B, t
<1>8. CASE n + 1 \notin B
  <2>1. B = A
    BY <1>3, <1>5, <1>8, Zenon
  <2> QED BY <1>4, <1>8, <2>1 DEF A, B, t
<1> QED BY <1>7, <1>8

-----------------------------------------------------------------------------
(* End tasks of a stack *)

E(tasks, p) == Cardinality(EndsUpTo(tasks, p))

LEMMA EndsFinite ==
  ASSUME NEW s, NEW p \in Nat
  PROVE  IsFiniteSet(EndsUpTo(s, p)) /\ E(s, p) \in Nat
<1>1. IsFiniteSet(1..p) /\ EndsUpTo(s, p) \subseteq 1..p
  BY FS_Interval DEF EndsUpTo
<1> QED BY <1>1, FS_Subset, FS_CardinalityType DEF E

LEMMA EndsZero ==
  ASSUME NEW s
  PROVE  E(s, 0) = 0
<1>1. EndsUpTo(s, 0) = {}
  BY DEF EndsUpTo
<1> QED BY <1>1, FS_EmptySet DEF E

LEMMA EndsNext ==
  ASSUME NEW s, NEW p \in Nat
  PROVE  E(s, p + 1) = IF s[p + 1].kind \in {"arrayEnd", "structEnd"} THEN E(s, p) + 1 ELSE E(s, p)
<1> DEFINE A == EndsUpTo(s, p)
           B == EndsUpTo(s, p + 1)
<1>0. DOMAIN Ends = {"arrayEnd", "structEnd"}
  BY DEF Ends
<1>1. IsFiniteSet(A)
  BY EndsFinite
<1>2. CASE s[p + 1].kind \in DOMAIN Ends
  <2>1. B = A \cup {p + 1} /\ p + 1 \notin A
    BY <1>2 DEF EndsUpTo
  <2> HIDE DEF A, B
  <2>2. Cardinality(B) = Cardinality(A) + 1
    BY <1>1, <2>1, FS_AddElement
  <2> QED BY <1>0, <1>2, <2>2 DEF E, A, B
<1>3. CASE s[p + 1].kind \notin DOMAIN Ends
  <2>1. B = A
    BY <1>3 DEF EndsUpTo
  <2> QED BY <1>0, <1>3, <2>1 DEF E
<1> QED BY <1>2, <1>3

LEMMA EndsSame ==
  ASSUME NEW s, NEW t, NEW p \in Nat, \A q \in 1..p : s[q] = t[q]
  PROVE  E(s, p) = E(t, p)
<1>1. EndsUpTo(s, p) = EndsUpTo(t, p)
  BY DEF EndsUpTo
<1> QED BY <1>1 DEF E

LEMMA EndsMonotone ==
  ASSUME NEW s, NEW p \in Nat, NEW q \in Nat, p <= q
  PROVE  E(s, p) <= E(s, q)
<1>1. EndsUpTo(s, p) \subseteq EndsUpTo(s, q)
  BY DEF EndsUpTo
<1>2. IsFiniteSet(EndsUpTo(s, q))
  BY EndsFinite
<1> QED BY <1>1, <1>2, FS_Subset DEF E

-----------------------------------------------------------------------------
(* Stacks *)

TaskKinds == {"fields", "field", "element", "array", "arrayEnd", "structEnd"}
TaskOf(M) ==
  [kind : TaskKinds, def : 0..M, fields : Seq(1..M), count : Nat, start : Nat, arrayIndex : Int]

\* t is s without its last entry.
Popped(s, t) ==
  /\ Len(t) = Len(s) - 1
  /\ \A p \in 1 .. Len(s) - 1 : t[p] = s[p]

\* t is s with its last entry replaced by a and b.
Replaced(s, t, a, b) ==
  /\ Len(t) = Len(s) + 1
  /\ \A p \in 1 .. Len(s) - 1 : t[p] = s[p]
  /\ t[Len(s)] = a
  /\ t[Len(s) + 1] = b

LEMMA TopOf ==
  ASSUME NEW T, NEW s \in Seq(T), s # <<>>
  PROVE  Len(s) \in Nat \ {0} /\ Last(s) = s[Len(s)] /\ Last(s) \in T
BY DEF Last

LEMMA Pops ==
  ASSUME NEW T, NEW s \in Seq(T), s # <<>>
  PROVE  Front(s) \in Seq(T) /\ Popped(s, Front(s))
<1>1. Len(s) \in Nat \ {0} /\ \A i \in 1 .. Len(s) - 1 : s[i] \in T
  OBVIOUS
<1> DEFINE n == Len(s) - 1
           f == SubSeq(s, 1, n)
<1>2. n \in Nat /\ 1 \in Int /\ n \in Int
  BY <1>1
<1>3. /\ f \in Seq(T)
      /\ Len(f) = IF 1 <= n THEN n - 1 + 1 ELSE 0
      /\ \A i \in 1 .. n - 1 + 1 : f[i] = s[1 + i - 1]
  BY <1>1, <1>2, SubSeqProperties
<1> HIDE DEF f, n
<1>4. Len(f) = n /\ \A i \in 1 .. n : f[i] = s[i]
  BY <1>2, <1>3
<1> QED BY <1>3, <1>4 DEF Popped, Front, f, n

LEMMA Replaces ==
  ASSUME NEW T, NEW s \in Seq(T), s # <<>>, NEW a \in T, NEW b \in T
  PROVE  Front(s) \o <<a, b>> \in Seq(T) /\ Replaced(s, Front(s) \o <<a, b>>, a, b)
<1>1. Front(s) \in Seq(T) /\ Popped(s, Front(s)) /\ Len(s) \in Nat \ {0}
  BY Pops
<1> DEFINE f == Front(s)
           c == <<a, b>>
<1>2. c \in Seq(T) /\ Len(c) = 2 /\ c[1] = a /\ c[2] = b
  OBVIOUS
<1> HIDE DEF f, c
<1>3. /\ f \o c \in Seq(T)
      /\ Len(f \o c) = Len(f) + Len(c)
      /\ \A i \in 1..Len(f) + Len(c) : (f \o c)[i] = IF i <= Len(f) THEN f[i] ELSE c[i - Len(f)]
  BY <1>1, <1>2, ConcatProperties DEF f
<1>4. f \in Seq(T) /\ Len(f) = Len(s) - 1 /\ \A p \in 1 .. Len(s) - 1 : f[p] = s[p]
  BY <1>1 DEF f, Popped
<1>5. /\ \A p \in 1 .. Len(s) - 1 : (f \o c)[p] = s[p]
      /\ (f \o c)[Len(s)] = a
      /\ (f \o c)[Len(s) + 1] = b
      /\ Len(f \o c) = Len(s) + 1
  BY <1>1, <1>2, <1>3, <1>4
<1> QED BY <1>3, <1>5 DEF Replaced, f, c

-----------------------------------------------------------------------------
(* Values *)

LEMMA LeastNatural ==
  ASSUME NEW T \in SUBSET Nat, T # {}
  PROVE  \E x \in T : \A y \in T : x <= y
<1> DEFINE R == OpToRel(<, Nat)
<1>1. IsWellFoundedOn(R, Nat)
  BY NatLessThanWellFounded
<1>2. \A x, y \in Nat : x < y => <<x, y>> \in R
  BY DEF OpToRel
<1> HIDE DEF R
<1>3. PICK x \in T : \A y \in T : <<y, x>> \notin R
  BY <1>1, WFMin
<1>4. \A y \in T : ~ (y < x)
  BY <1>2, <1>3
<1> QED BY <1>4

LEMMA Uint16Type ==
  ASSUME NEW payload \in Seq(Byte), NEW at \in Nat, at + 2 <= Len(payload)
  PROVE  Uint16(payload, at) \in Nat
<1>1. Len(payload) \in Nat /\ at + 1 \in 1..Len(payload) /\ at + 2 \in 1..Len(payload)
  BY LenProperties
<1>2. payload[at + 1] \in Byte /\ payload[at + 2] \in Byte
  BY <1>1, ElementOfSeq
<1>3. \A a, b \in Byte : a + 256 * b \in Nat
  BY DEF Byte
<1> QED BY <1>2, <1>3 DEF Uint16

\* A value lies in the rest of the payload, and so does what follows it.
LEMMA ValueWithin ==
  ASSUME NEW e, NEW payload \in Seq(Byte), NEW at \in 0..Len(payload),
         readWireValue(e, payload, at).ok
  PROVE  /\ readWireValue(e, payload, at).raw \in Seq(Byte)
         /\ readWireValue(e, payload, at).next \in at..Len(payload)
<1> DEFINE left == Len(payload) - at
           V(raw, next) == [ok |-> TRUE, raw |-> raw, next |-> next]
           truncated == [ok |-> FALSE, raw |-> <<>>, next |-> at]
           width == fixedWidth(e)
           v == readWireValue(e, payload, at)
<1>0. Len(payload) \in Nat /\ \A i \in 1..Len(payload) : payload[i] \in Byte
  BY LenProperties, ElementOfSeq
<1>1. \A from \in at..Len(payload), to \in Nat : to <= Len(payload) =>
        SubSeq(payload, from + 1, to) \in Seq(Byte)
  <2> TAKE from \in at..Len(payload), to \in Nat
  <2> HAVE to <= Len(payload)
  <2>1. from + 1 \in Int /\ to \in Int /\ \A i \in from + 1 .. to : payload[i] \in Byte
    BY <1>0
  <2> QED BY <2>1, SubSeqProperties
<1>9. \A raw, next : V(raw, next).ok /\ V(raw, next).raw = raw /\ V(raw, next).next = next
  OBVIOUS
<1>10. ~ truncated.ok
  OBVIOUS
<1> HIDE DEF V, truncated
<1>2. CASE width # 0
  <2>1. width \in Nat
    BY DEF fixedWidth
  <2>2. v = IF left < width THEN truncated ELSE V(SubSeq(payload, at + 1, at + width), at + width)
    BY <1>2 DEF readWireValue, V, truncated
  <2> HIDE DEF width, v
  <2>3. ~ (left < width) /\ v = V(SubSeq(payload, at + 1, at + width), at + width)
    BY <1>10, <2>2 DEF v
  <2>4. v.raw = SubSeq(payload, at + 1, at + width) /\ v.next = at + width
    BY <1>9, <2>3
  <2>5. at + width \in Nat /\ at + width <= Len(payload) /\ at \in at..Len(payload)
    BY <1>0, <2>1, <2>3
  <2> QED BY <1>0, <1>1, <2>1, <2>4, <2>5 DEF v
<1>3. CASE width = 0 /\ e = "zstring8" /\ \E i \in at + 1 .. Len(payload) : payload[i] = 0
  <2> DEFINE Nul(i) == payload[i] = 0 /\ \A j \in at + 1 .. i - 1 : payload[j] # 0
             nul == CHOOSE i \in at + 1 .. Len(payload) : Nul(i)
             T == {i \in at + 1 .. Len(payload) : payload[i] = 0}
  <2>1. T \in SUBSET Nat /\ T # {}
    BY <1>0, <1>3
  <2>2. PICK x \in T : \A y \in T : x <= y
    BY <2>1, LeastNatural
  <2>3. x \in at + 1 .. Len(payload) /\ Nul(x)
    BY <1>0, <2>2
  <2>4. nul \in at + 1 .. Len(payload)
    BY <2>3
  <2>5. v = V(SubSeq(payload, at + 1, at + (nul - 1 - at)), nul)
    BY <1>3 DEF readWireValue, V
  <2> HIDE DEF nul, v
  <2>6. v.raw = SubSeq(payload, at + 1, at + (nul - 1 - at)) /\ v.next = nul
    BY <1>9, <2>5
  <2>7. /\ at + (nul - 1 - at) \in Nat /\ at + (nul - 1 - at) <= Len(payload)
        /\ at \in at..Len(payload) /\ nul \in at..Len(payload)
    BY <1>0, <2>4
  <2> QED BY <1>1, <2>6, <2>7 DEF v
<1>4. CASE width = 0 /\ e = "zstring8" /\ ~ \E i \in at + 1 .. Len(payload) : payload[i] = 0
  <2>1. v = V(SubSeq(payload, at + 1, at + left), Len(payload))
    BY <1>4 DEF readWireValue, V
  <2> HIDE DEF v
  <2>2. v.raw = SubSeq(payload, at + 1, at + left) /\ v.next = Len(payload)
    BY <1>9, <2>1
  <2>3. at + left \in Nat /\ at + left <= Len(payload) /\ at \in at..Len(payload)
        /\ Len(payload) \in at..Len(payload)
    BY <1>0
  <2> HIDE DEF left
  <2> QED BY <1>1, <2>2, <2>3 DEF v
<1>5. CASE width = 0 /\ e # "zstring8"
  <2> DEFINE u == unitWidth(e)
             n == Uint16(payload, at)
             size == n * u
  <2>1. v = IF left < 2 \/ n > (left - 2) \div u
            THEN truncated ELSE V(SubSeq(payload, at + 2 + 1, at + 2 + size), at + 2 + size)
    BY <1>5 DEF readWireValue, V, truncated
  <2>5. u \in {1, 2}
    BY DEF unitWidth
  <2> HIDE DEF u, n
  <2>2. /\ ~ (left < 2) /\ ~ (n > (left - 2) \div u)
        /\ v = V(SubSeq(payload, at + 2 + 1, at + 2 + size), at + 2 + size)
    BY <1>10, <2>1
  <2> HIDE DEF v
  <2>3. v.raw = SubSeq(payload, at + 2 + 1, at + 2 + size) /\ v.next = at + 2 + size
    BY <1>9, <2>2
  <2>4. at \in Nat /\ at + 2 <= Len(payload)
    BY <1>0, <2>2
  <2>6. n \in Nat
    BY <2>4, Uint16Type DEF n
  <2>7. size \in Nat /\ size <= left - 2
    BY <1>0, <2>2, <2>4, <2>5, <2>6
  <2> HIDE DEF size
  <2>8. /\ at + 2 + size \in Nat /\ at + 2 + size <= Len(payload)
        /\ at + 2 \in at..Len(payload) /\ at + 2 + size \in at..Len(payload)
    BY <1>0, <2>4, <2>7
  <2> QED BY <1>1, <2>3, <2>8 DEF v
<1> QED BY <1>2, <1>3, <1>4, <1>5

-----------------------------------------------------------------------------
(* Types *)

Quiet == {"idle", "parsing", "BeforeFirst", "Done", "Error"}
Fields == Len(data.metadata)

TypedEvent ==
  /\ data \in WireEvent
  /\ pos \in 0..Len(data.payload)
  /\ kids \in [0..Fields -> Seq(1..Fields)]
  /\ parsed \in 0..Fields
  /\ pstack \in Seq([at : 0..Fields, left : Int])
  /\ stack \in Seq(TaskOf(Fields))
  /\ \A p \in 1..Len(stack) : stack[p].kind # "fields" => stack[p].def \in 1..Fields

Typed ==
  /\ dstate \in Quiet \cup States
  /\ items \in Seq(ItemType) /\ Len(items) <= MaxTransitions
  /\ dstate = "idle" => data = <<>>
  /\ dstate \in {"idle", "parsing"} => stack = <<>> /\ items = <<>> /\ frames = <<>>
  /\ dstate = "Done" => stack = <<>>
  /\ dstate # "idle" => TypedEvent

LEMMA EventFacts ==
  ASSUME TypedEvent
  PROVE  /\ data.metadata \in Seq(WireField) /\ data.payload \in Seq(Byte)
         /\ Fields \in Nat /\ Len(data.payload) \in Nat /\ pos \in Nat
         /\ \A d \in 1..Fields : /\ data.metadata[d].encoding \in Scalars \cup {"struct", "bad"}
                                 /\ data.metadata[d].array \in {"scalar", "variable", "fixed"}
                                 /\ data.metadata[d].count \in Nat /\ data.metadata[d].children \in Nat
<1>1. data.metadata \in Seq(WireField) /\ data.payload \in Seq(Byte)
  BY Zenon DEF TypedEvent, WireEvent
<1>2. Fields \in Nat /\ Len(data.payload) \in Nat
  BY <1>1, LenProperties DEF Fields
<1>3. pos \in Nat
  BY <1>2 DEF TypedEvent
<1>4. \A d \in 1..Fields : data.metadata[d] \in WireField
  BY <1>1, ElementOfSeq DEF Fields
<1>5. \A f \in WireField : /\ f.encoding \in Scalars \cup {"struct", "bad"}
                           /\ f.array \in {"scalar", "variable", "fixed"}
                           /\ f.count \in Nat /\ f.children \in Nat
  BY Zenon DEF WireField
<1> QED BY <1>1, <1>2, <1>3, <1>4, <1>5

LEMMA TaskType ==
  ASSUME NEW M \in Nat, NEW k \in TaskKinds, NEW d \in 0..M, NEW ids \in Seq(1..M),
         NEW n \in Nat, NEW start \in Nat, NEW index \in Int
  PROVE  Task(k, d, ids, n, start, index) \in TaskOf(M)
BY Zenon DEF Task, TaskOf

LEMMA TaskFields ==
  ASSUME NEW M \in Nat, NEW u \in TaskOf(M)
  PROVE  /\ u.kind \in TaskKinds /\ u.def \in 0..M /\ u.fields \in Seq(1..M)
         /\ u.count \in Nat /\ u.start \in Nat /\ u.arrayIndex \in Int
BY Zenon DEF TaskOf

LEMMA TypedInit ==
  ASSUME DecoderInit
  PROVE  Typed
BY LimitsAssumption DEF DecoderInit, Typed, Quiet

LEMMA TypedDiscard ==
  ASSUME Discard
  PROVE  Typed'
BY LimitsAssumption DEF Discard, Typed, Quiet

LEMMA TypedParse ==
  ASSUME NEW event \in WireEvent, NEW name, parse(event, name)
  PROVE  Typed'
<1>1. event.metadata \in Seq(WireField) /\ event.payload \in Seq(Byte)
  BY Zenon DEF WireEvent
<1>2. Len(event.metadata) \in Nat /\ Len(event.payload) \in Nat
  BY <1>1, LenProperties
<1>3. /\ data' = event /\ pos' = 0 /\ parsed' = 0 /\ stack' = <<>> /\ items' = <<>> /\ frames' = <<>>
      /\ kids' = [i \in 0..Len(event.metadata) |-> <<>>]
      /\ pstack' = <<[at |-> 0, left |-> Len(event.metadata)]>>
      /\ dstate' \in {"parsing", "Error"}
  BY DEF parse, Started
<1> DEFINE n == Len(event.metadata)
<1>4. <<>> \in Seq(1..n)
  OBVIOUS
<1>5. Fields' = n
  BY <1>3 DEF Fields
<1> HIDE DEF n
<1>6. kids' \in [0..n -> Seq(1..n)]
  BY <1>3, <1>4 DEF n
<1>7. pstack' \in Seq([at : 0..n, left : Int])
  <2>1. [at |-> 0, left |-> n] \in [at : 0..n, left : Int]
    BY <1>2 DEF n
  <2> QED BY <1>3, <2>1 DEF n
<1>8. stack' \in Seq(TaskOf(n)) /\ Len(stack') = 0
  BY <1>3
<1>9. TypedEvent'
  BY <1>2, <1>3, <1>5, <1>6, <1>7, <1>8 DEF TypedEvent, n
<1>10. /\ dstate' \in Quiet \cup States /\ dstate' # "idle" /\ dstate' # "Done"
       /\ items' \in Seq(ItemType) /\ Len(items') = 0
  BY <1>3 DEF Quiet
<1> QED BY <1>3, <1>9, <1>10, LimitsAssumption DEF Typed

LEMMA TypedFail ==
  ASSUME Typed, TypedEvent, NEW why, Fail(why)
  PROVE  Typed'
<1>1. TypedEvent'
  BY DEF TypedEvent, Fail, Fields
<1> QED BY <1>1 DEF Typed, Fail, Quiet

LEMMA TypedStart ==
  ASSUME Typed, Start
  PROVE  Typed'
<1>1. TypedEvent
  BY DEF Typed, Start
<1>2. Fields \in Nat
  BY <1>1, EventFacts
<1>3. kids[0] \in Seq(1..Fields)
  BY <1>1, <1>2 DEF TypedEvent
<1> DEFINE u == Task("fields", 0, kids[0], 0, 0, -1)
<1>4. u \in TaskOf(Fields) /\ u.kind = "fields"
  <2>1. "fields" \in TaskKinds /\ 0 \in 0..Fields /\ 0 \in Nat /\ -1 \in Int
    BY <1>2 DEF TaskKinds
  <2>2. u \in TaskOf(Fields)
    BY <1>2, <1>3, <2>1, TaskType
  <2> QED BY <2>2 DEF Task
<1> HIDE DEF u
<1>5. stack' = <<u>> /\ UNCHANGED <<data, kids, parsed, pstack, pos, items, frames>> /\ dstate' = "BeforeFirst"
  BY DEF Start, u
<1>6. stack' \in Seq(TaskOf(Fields)) /\ Len(stack') = 1 /\ stack'[1] = u
  BY <1>4, <1>5
<1>7. TypedEvent'
  BY <1>1, <1>4, <1>5, <1>6 DEF TypedEvent, Fields
<1> QED BY <1>5, <1>7 DEF Typed, Quiet

\* Open keeps a first part of the structs, and an open event.
LEMMA OpenPrefix ==
  ASSUME NEW M \in Nat, NEW s \in Seq([at : 0..M, left : Int])
  PROVE  /\ Open(s) \in Seq([at : 0..M, left : Int])
         /\ Len(Open(s)) <= Len(s)
         /\ \A i \in 1..Len(Open(s)) : Open(s)[i] = s[i]
         /\ s # <<>> /\ s[1].left > 0 => Open(s) # <<>>
<1> DEFINE T == [at : 0..M, left : Int]
           W == {i \in DOMAIN s : s[i].left > 0}
           last == CHOOSE i \in W : \A j \in W : j <= i
<1>0. Len(s) \in Nat /\ DOMAIN s = 1..Len(s) /\ \A i \in 1..Len(s) : s[i] \in T
  BY LenProperties, ElementOfSeq
<1>1. CASE W = {}
  <2>1. Open(s) = <<>>
    BY <1>1 DEF Open
  <2>2. s # <<>> => 1 \in DOMAIN s
    BY <1>0
  <2>3. ~ (s # <<>> /\ s[1].left > 0)
    BY <1>1, <2>2
  <2>4. <<>> \in Seq(T) /\ Len(<<>>) = 0
    BY EmptySeq
  <2> QED BY <1>0, <2>1, <2>3, <2>4
<1>2. CASE W # {}
  <2> DEFINE D == {Len(s) - i : i \in W}
  <2>1. D \in SUBSET Nat /\ D # {}
    BY <1>0, <1>2
  <2>2. PICK x \in D : \A y \in D : x <= y
    BY <2>1, LeastNatural
  <2>3. PICK m \in W : x = Len(s) - m
    BY <2>2
  <2>4. \A j \in W : j <= m
    <3> TAKE j \in W
    <3>1. x <= Len(s) - j
      BY <2>2
    <3> QED BY <1>0, <2>3, <3>1
  <2>5. last \in W
    BY <2>4
  <2>6. last \in 1..Len(s)
    BY <1>0, <2>5
  <2>7. Open(s) = SubSeq(s, 1, last)
    BY <1>2 DEF Open
  <2> HIDE DEF last, W
  <2> DEFINE o == SubSeq(s, 1, last)
  <2>8. 1 \in Int /\ last \in Int /\ \A i \in 1..last : s[i] \in T
    BY <1>0, <2>6
  <2> HIDE DEF T
  <2>9. /\ o \in Seq(T)
        /\ Len(o) = IF 1 <= last THEN last - 1 + 1 ELSE 0
        /\ \A i \in 1 .. last - 1 + 1 : o[i] = s[1 + i - 1]
    BY <2>8, SubSeqProperties
  <2> HIDE DEF o
  <2>10. Len(o) = last /\ \A i \in 1..last : o[i] = s[i]
    BY <2>6, <2>9
  <2>11. o # <<>> /\ last <= Len(s)
    BY <1>0, <2>6, <2>9, <2>10
  <2> QED BY <2>7, <2>9, <2>10, <2>11 DEF o, T
<1> QED BY <1>1, <1>2

\* The structs after a parsed field, before Open drops those that are full.
Structs ==
  LET inner == [pstack EXCEPT ![Len(pstack)].left = @ - 1]
  IN  IF data.metadata[parsed + 1].encoding = "struct"
      THEN Append(inner, [at |-> parsed + 1, left |-> data.metadata[parsed + 1].children])
      ELSE inner

\* What a parsed field adds: to its parent, and to the structs if it is one.
ParsedField ==
  /\ dstate = "parsing" /\ parsed < Fields
  /\ parsed' = parsed + 1
  /\ kids' = [kids EXCEPT ![Last(pstack).at] = Append(@, parsed + 1)]
  /\ pstack' = Open(Structs)
  /\ data.metadata[parsed + 1].encoding = "struct" => Len(pstack) - 1 + 1 <= MaxDepth
  /\ UNCHANGED <<data, dstate, err, pos, stack, items, frames, warned>>

LEMMA ParseFieldSteps ==
  ASSUME parseField
  PROVE  Fail("limit") \/ Fail("invalid") \/ ParsedField
BY DEF parseField, ParsedField, Structs, Fields

LEMMA StructsAfter ==
  ASSUME TypedEvent, parsed < Fields, pstack # <<>>
  PROVE  /\ Structs \in Seq([at : 0..Fields, left : Int])
         /\ \A i \in 1 .. Len(pstack) - 1 : Structs[i] = pstack[i]
         /\ Structs[Len(pstack)].at = pstack[Len(pstack)].at
         /\ Structs[Len(pstack)].left = pstack[Len(pstack)].left - 1
         /\ \/ Len(Structs) = Len(pstack)
            \/ /\ Len(Structs) = Len(pstack) + 1 /\ data.metadata[parsed + 1].encoding = "struct"
               /\ Structs[Len(pstack) + 1].at = parsed + 1
<1> DEFINE T == [at : 0..Fields, left : Int]
           n == Len(pstack)
           inner == [pstack EXCEPT ![n].left = @ - 1]
<1>0. /\ Fields \in Nat /\ parsed + 1 \in 1..Fields /\ parsed + 1 \in 0..Fields
      /\ data.metadata[parsed + 1].children \in Nat
  <2>1. Fields \in Nat /\ parsed \in Nat /\ parsed + 1 \in 1..Fields
    BY EventFacts DEF TypedEvent
  <2> QED BY <2>1, EventFacts
<1>1. pstack \in Seq(T) /\ n \in Nat \ {0} /\ DOMAIN pstack = 1..n /\ \A i \in 1..n : pstack[i] \in T
  <2>1. pstack \in Seq(T)
    BY DEF TypedEvent
  <2> HIDE DEF T
  <2> QED BY <2>1, LenProperties, ElementOfSeq
<1>2. pstack[n] \in T
  BY <1>1
<1> DEFINE e == [pstack[n] EXCEPT !.left = @ - 1]
<1>3. e \in T /\ e.at = pstack[n].at /\ e.left = pstack[n].left - 1
  BY <1>2
<1>4. inner = [pstack EXCEPT ![n] = e]
  BY <1>1
<1> HIDE DEF e, T
<1>5. /\ inner \in Seq(T) /\ Len(inner) = n /\ inner[n] = e
      /\ \A i \in 1 .. n - 1 : inner[i] = pstack[i]
  <2> HIDE DEF n
  <2> DEFINE in2 == [pstack EXCEPT ![n] = e]
  <2>1. in2 \in Seq(T) /\ Len(in2) = Len(pstack) /\ in2[n] = e /\ \A i \in 1..n-1 : in2[i] = pstack[i]
    <3>1. n \in 1..Len(pstack) /\ Len(pstack) = n
      BY <1>1 DEF n
    <3>2. in2 \in Seq(T) /\ Len(in2) = Len(pstack)
          /\ \A i \in 1..Len(pstack) : in2[i] = IF i = n THEN e ELSE pstack[i]
      BY <1>1, <1>3, <3>1, ExceptSeq
    <3> HIDE DEF in2
    <3> QED BY <1>1, <3>1, <3>2
  <2> QED BY <1>4, <2>1 DEF n
<1> HIDE DEF inner
<1>6. CASE data.metadata[parsed + 1].encoding = "struct"
  <2> DEFINE r == [at |-> parsed + 1, left |-> data.metadata[parsed + 1].children]
  <2>1. r \in T /\ r.at = parsed + 1
    BY <1>0 DEF T
  <2>2. Structs = Append(inner, r)
    BY <1>6 DEF Structs, inner
  <2> HIDE DEF r
  <2>3. /\ Structs \in Seq(T) /\ Len(Structs) = n + 1 /\ Structs[n + 1] = r
        /\ \A i \in 1..n : Structs[i] = inner[i]
    BY <1>5, <2>1, <2>2, AppendProperties
  <2> HIDE DEF n
  <2>4. n \in Nat \ {0} /\ n \in 1..n /\ \A i \in 1 .. n - 1 : i \in 1..n
    BY <1>1
  <2>5. /\ \A i \in 1 .. n - 1 : Structs[i] = pstack[i]
        /\ Structs[n].at = pstack[n].at /\ Structs[n].left = pstack[n].left - 1
    BY <1>3, <1>5, <2>3, <2>4
  <2> QED BY <1>6, <2>1, <2>3, <2>5 DEF T, n
<1>7. CASE data.metadata[parsed + 1].encoding # "struct"
  <2>1. Structs = inner
    BY <1>7 DEF Structs, inner
  <2> QED BY <1>3, <1>5, <2>1 DEF T
<1> QED BY <1>6, <1>7

LEMMA TypedParsedField ==
  ASSUME Typed, ParsedField, pstack # <<>>
  PROVE  Typed'
<1>1. TypedEvent /\ parsed < Fields
  BY DEF Typed, ParsedField
<1>2. Fields \in Nat /\ parsed + 1 \in 1..Fields
  BY <1>1, EventFacts DEF TypedEvent
<1>3. pstack' = Open(Structs)
  BY DEF ParsedField
<1>4. pstack' \in Seq([at : 0..Fields, left : Int])
  BY <1>1, <1>2, <1>3, StructsAfter, OpenPrefix
<1>5. kids' \in [0..Fields -> Seq(1..Fields)]
  <2>1. Last(pstack).at \in 0..Fields
    <3>1. Last(pstack) \in [at : 0..Fields, left : Int]
      BY <1>1, TopOf DEF TypedEvent
    <3> QED BY <3>1
  <2>2. kids \in [0..Fields -> Seq(1..Fields)]
    BY <1>1 DEF TypedEvent
  <2>3. Append(kids[Last(pstack).at], parsed + 1) \in Seq(1..Fields)
    BY <1>2, <2>1, <2>2, AppendProperties
  <2> QED BY <2>1, <2>2, <2>3 DEF ParsedField
<1>6. Fields' = Fields /\ parsed' \in 0..Fields /\ UNCHANGED <<data, pos, stack>>
  BY <1>2 DEF ParsedField, Fields
<1>7. TypedEvent'
  BY <1>1, <1>4, <1>5, <1>6 DEF TypedEvent
<1> QED BY <1>7 DEF Typed, ParsedField

-----------------------------------------------------------------------------
(* The turns of Next, by what they do to the tasks, the items and the frames *)

\* The tasks of the event: a definition of the metadata in each.
OfEvent(u) == u \in TaskOf(Fields) /\ (u.kind # "fields" => u.def \in 1..Fields)

Same == UNCHANGED <<data, kids, parsed, pstack>>
Silent == Same /\ UNCHANGED <<dstate, pos, items, frames>>
Emits(e) ==
  /\ Same
  /\ e \in ItemType /\ Len(items) < MaxTransitions /\ items' = Append(items, e)
  /\ dstate' = e.state
  /\ pos' \in 0..Len(data.payload)
Pop == stack' \in Seq(TaskOf(Fields)) /\ Popped(stack, stack')
Swap(a, b) ==
  /\ stack' \in Seq(TaskOf(Fields)) /\ Replaced(stack, stack', a, b)
  /\ OfEvent(a) /\ OfEvent(b)

FieldsDone == Turn("fields") /\ Pop /\ Silent
FieldTaken(a, b) ==
  /\ Turn("fields") /\ Top.fields # <<>> /\ Swap(a, b) /\ Silent
  /\ a.kind = "fields" /\ a.fields = Tail(Top.fields)
  /\ b.kind = "field" /\ b.def = Head(Top.fields)
ArrayDone == Turn("array") /\ Top.arrayIndex = Top.count /\ Pop /\ Silent
ElementTaken(a, b) ==
  /\ Turn("array") /\ Swap(a, b) /\ Silent
  /\ a.kind = "array" /\ a.def = Top.def /\ a.count = Top.count
  /\ a.arrayIndex = Top.arrayIndex + 1
  /\ b.kind = "element" /\ b.def = Top.def
ArrayBegun(a, b, e) ==
  /\ Turn("field") /\ Swap(a, b) /\ Emits(e)
  /\ a.kind = "arrayEnd" /\ a.def = Top.def /\ a.count = e.count
  /\ b.kind = "array" /\ b.def = Top.def /\ b.count = e.count /\ b.arrayIndex = 0
  /\ e.state = "ArrayBegin" /\ frames' = Append(frames, "ArrayBegin")
StructBegun(a, b, e) ==
  /\ Turn("field") \/ Turn("element")
  /\ data.metadata[Top.def].encoding = "struct" /\ Swap(a, b) /\ Emits(e)
  /\ a.kind = "structEnd" /\ a.def = Top.def
  /\ b.kind = "fields" /\ b.fields = kids[Top.def]
  /\ e.state = "StructBegin" /\ frames' = Append(frames, "StructBegin")
ValueRead(e) ==
  /\ Turn("field") \/ Turn("element")
  /\ Pop /\ Emits(e) /\ e.state = "Value" /\ frames' = frames
ArrayEnded(e) == Turn("arrayEnd") /\ Pop /\ Emits(e) /\ e.state = "ArrayEnd" /\ frames' = Front(frames)
StructEnded(e) == Turn("structEnd") /\ Pop /\ Emits(e) /\ e.state = "StructEnd" /\ frames' = Front(frames)

Turned ==
  \/ FieldsDone \/ ArrayDone
  \/ \E a, b : FieldTaken(a, b) \/ ElementTaken(a, b)
  \/ \E a, b, e : ArrayBegun(a, b, e) \/ StructBegun(a, b, e)
  \/ \E e : ValueRead(e) \/ ArrayEnded(e) \/ StructEnded(e)

LEMMA TopTask ==
  ASSUME TypedEvent, stack # <<>>
  PROVE  /\ Fields \in Nat /\ Len(stack) \in Nat \ {0} /\ Top = stack[Len(stack)] /\ OfEvent(Top)
         /\ Top.kind \in TaskKinds /\ Top.def \in 0..Fields /\ Top.fields \in Seq(1..Fields)
         /\ Top.count \in Nat /\ Top.start \in Nat /\ Top.arrayIndex \in Int
         /\ Top.kind # "fields" => /\ Top.def \in 1..Fields
                                   /\ Def.encoding \in Scalars \cup {"struct", "bad"}
                                   /\ Def.array \in {"scalar", "variable", "fixed"}
                                   /\ Def.count \in Nat
<1>1. Fields \in Nat
  BY EventFacts
<1>2. Len(stack) \in Nat \ {0} /\ Top = stack[Len(stack)] /\ Top \in TaskOf(Fields)
  BY TopOf DEF TypedEvent, Top
<1>3. Top.kind # "fields" => Top.def \in 1..Fields
  BY <1>2 DEF TypedEvent
<1>4. /\ Top.kind \in TaskKinds /\ Top.def \in 0..Fields /\ Top.fields \in Seq(1..Fields)
      /\ Top.count \in Nat /\ Top.start \in Nat /\ Top.arrayIndex \in Int
  BY <1>1, <1>2, TaskFields
<1> QED BY <1>1, <1>2, <1>3, <1>4, EventFacts DEF OfEvent, Def

LEMMA PopStack ==
  ASSUME TypedEvent, stack # <<>>, stack' = Front(stack)
  PROVE  Pop
BY Pops DEF TypedEvent, Pop

LEMMA SwapStack ==
  ASSUME TypedEvent, stack # <<>>, NEW a, NEW b, OfEvent(a), OfEvent(b),
         stack' = Front(stack) \o <<a, b>>
  PROVE  Swap(a, b)
<1>1. stack \in Seq(TaskOf(Fields)) /\ a \in TaskOf(Fields) /\ b \in TaskOf(Fields)
  BY DEF TypedEvent, OfEvent
<1> QED BY <1>1, Replaces DEF Swap

LEMMA EmitSteps ==
  ASSUME TypedEvent, NEW state \in States, NEW raw \in Seq(Byte), NEW count \in Nat, NEW index \in Int,
         NEW tasks, NEW next \in 0..Len(data.payload),
         Def.encoding \in Scalars \cup {"struct", "bad"}, emit(state, raw, count, index, tasks, next)
  PROVE  \/ Fail("limit")
         \/ \E e : /\ Emits(e) /\ stack' = tasks /\ frames' = Materialize(state)
                   /\ e.state = state /\ e.count = count
<1> SUFFICES ASSUME ~ Fail("limit") PROVE \E e : /\ Emits(e) /\ stack' = tasks /\ frames' = Materialize(state)
                                                 /\ e.state = state /\ e.count = count
  OBVIOUS
<1> DEFINE e == Item(state, Def.encoding, raw, count, index)
<1>1. e \in ItemType
  BY Zenon DEF Item, ItemType
<1>2. e.state = state /\ e.count = count
  BY DEF Item
<1>3. /\ Len(items) < MaxTransitions /\ items' = Append(items, e) /\ dstate' = state
      /\ frames' = Materialize(state) /\ stack' = tasks /\ pos' = next
      /\ UNCHANGED <<data, err, kids, parsed, pstack, warned>>
  BY DEF emit
<1> HIDE DEF e
<1>4. Emits(e)
  BY <1>1, <1>2, <1>3 DEF Emits, Same
<1> QED BY <1>2, <1>3, <1>4

LEMMA Appends ==
  /\ Materialize("ArrayBegin") = Append(frames, "ArrayBegin")
  /\ Materialize("StructBegin") = Append(frames, "StructBegin")
  /\ Materialize("ArrayEnd") = Front(frames)
  /\ Materialize("StructEnd") = Front(frames)
  /\ Materialize("Value") = frames
BY DEF Materialize

LEMMA NextTurns ==
  ASSUME TypedEvent, Next
  PROVE  (\E why : Fail(why)) \/ finish \/ Turned
<1> DEFINE none == <<>>
           minus == -1
<1>0. /\ minus \in Int /\ 0 \in Nat /\ none \in Seq(Byte) /\ none \in Seq(1..Fields)
      /\ States = {"Value", "ArrayBegin", "ArrayEnd", "StructBegin", "StructEnd"}
      /\ TaskKinds = {"fields", "field", "element", "array", "arrayEnd", "structEnd"}
  BY DEF States, TaskKinds
<1> HIDE DEF none, minus
<1>e. Fields \in Nat /\ pos \in Nat /\ pos \in 0..Len(data.payload) /\ data.payload \in Seq(Byte)
      /\ Len(data.payload) \in Nat
  BY EventFacts DEF TypedEvent
<1>1. CASE taskFields
  <2>1. stack # <<>> /\ Top.kind = "fields" /\ Silent
    BY <1>1 DEF taskFields, Turn, Push, Silent, Same
  <2>2. CASE Top.fields = <<>>
    <3>1. stack' = Front(stack)
      BY <1>1, <2>2 DEF taskFields, Push, none, minus
    <3>2. FieldsDone
      BY <2>1, <3>1, PopStack DEF FieldsDone, Turn
    <3> QED BY <3>2 DEF Turned
  <2>3. CASE Top.fields # <<>>
    <3> DEFINE a == [Top EXCEPT !.fields = Tail(@)]
               b == Task("field", Head(Top.fields), none, 0, 0, minus)
    <3>1. stack' = Front(stack) \o <<a, b>>
      BY <1>1, <2>3 DEF taskFields, Push, none, minus
    <3>2. Top \in TaskOf(Fields) /\ Top.fields \in Seq(1..Fields)
      BY <2>1, TopTask DEF OfEvent
    <3>3. Tail(Top.fields) \in Seq(1..Fields) /\ Head(Top.fields) \in 1..Fields
      BY <2>3, <3>2, HeadTailProperties
    <3>4. a \in TaskOf(Fields) /\ a.kind = "fields" /\ a.fields = Tail(Top.fields)
      BY <2>1, <3>2, <3>3 DEF TaskOf
    <3>5. OfEvent(a)
      BY <3>4 DEF OfEvent
    <3> HIDE DEF a
    <3>6. OfEvent(b) /\ b.kind = "field" /\ b.def = Head(Top.fields)
      <4>1. Head(Top.fields) \in 0..Fields /\ "field" \in TaskKinds
        BY <1>0, <1>e, <3>3
      <4> QED BY <1>0, <1>e, <3>3, <4>1 DEF Task, TaskOf, OfEvent
    <3> HIDE DEF b
    <3>7. Swap(a, b)
      BY <2>1, <3>1, <3>5, <3>6, SwapStack
    <3>8. FieldTaken(a, b)
      BY <2>1, <2>3, <3>4, <3>6, <3>7 DEF FieldTaken, Turn
    <3> QED BY <3>8 DEF Turned
  <2> QED BY <2>2, <2>3
<1>2. CASE taskArray
  <2>1. stack # <<>> /\ Top.kind = "array" /\ Silent
    BY <1>2 DEF taskArray, Turn, Push, Silent, Same
  <2>2. CASE Top.arrayIndex = Top.count
    <3>1. stack' = Front(stack)
      BY <1>2, <2>2 DEF taskArray, Push, none, minus
    <3>2. ArrayDone
      BY <2>1, <2>2, <3>1, PopStack DEF ArrayDone, Turn
    <3> QED BY <3>2 DEF Turned
  <2>3. CASE Top.arrayIndex # Top.count
    <3> DEFINE a == [Top EXCEPT !.arrayIndex = @ + 1]
               b == Task("element", Top.def, none, 0, 0, Top.arrayIndex)
    <3>1. stack' = Front(stack) \o <<a, b>>
      BY <1>2, <2>3 DEF taskArray, Push, none, minus
    <3>2. /\ Top \in TaskOf(Fields) /\ Top.arrayIndex \in Int /\ Top.def \in 1..Fields
          /\ Top.def \in 0..Fields
      BY <2>1, TopTask DEF OfEvent
    <3>4. /\ a \in TaskOf(Fields) /\ a.kind = "array" /\ a.def = Top.def /\ a.count = Top.count
          /\ a.arrayIndex = Top.arrayIndex + 1
      BY <2>1, <3>2 DEF TaskOf
    <3>5. OfEvent(a)
      BY <3>2, <3>4 DEF OfEvent
    <3> HIDE DEF a
    <3>6. OfEvent(b) /\ b.kind = "element" /\ b.def = Top.def
      <4>1. "element" \in TaskKinds
        BY <1>0
      <4> QED BY <1>0, <1>e, <3>2, <4>1 DEF Task, TaskOf, OfEvent
    <3> HIDE DEF b
    <3>7. Swap(a, b)
      BY <2>1, <3>1, <3>5, <3>6, SwapStack
    <3>8. ElementTaken(a, b)
      BY <2>1, <3>4, <3>6, <3>7 DEF ElementTaken, Turn
    <3> QED BY <3>8 DEF Turned
  <2> QED BY <2>2, <2>3
<1>3. CASE taskFieldArray
  <2>1. stack # <<>> /\ Top.kind = "field" /\ Def.array # "scalar"
    BY <1>3 DEF taskFieldArray, Turn
  <2>2. /\ Top.def \in 1..Fields /\ Top.def \in 0..Fields /\ Def.count \in Nat
        /\ Def.encoding \in Scalars \cup {"struct", "bad"}
        /\ Def.array \in {"scalar", "variable", "fixed"}
    BY <2>1, TopTask
  <2>3. CASE Def.array = "variable" /\ Len(data.payload) - pos < 2
    BY <1>3, <2>3 DEF taskFieldArray
  <2>4. CASE ~ (Def.array = "variable" /\ Len(data.payload) - pos < 2)
    <3> DEFINE n == IF Def.array = "fixed" THEN Def.count ELSE Uint16(data.payload, pos)
               next == IF Def.array = "fixed" THEN pos ELSE pos + 2
               a == Task("arrayEnd", Top.def, none, n, pos, minus)
               b == Task("array", Top.def, none, n, pos, 0)
    <3>1. emit("ArrayBegin", none, n, minus, Front(stack) \o <<a, b>>, next)
      BY <1>3, <2>4 DEF taskFieldArray, ArrayTasks, none, minus
    <3>2. n \in Nat /\ next \in 0..Len(data.payload)
      <4>1. CASE Def.array = "fixed"
        BY <1>e, <2>2, <4>1
      <4>2. CASE Def.array # "fixed"
        <5>1. pos + 2 <= Len(data.payload)
          BY <1>e, <2>1, <2>2, <2>4, <4>2
        <5> QED BY <1>e, <4>2, <5>1, Uint16Type
      <4> QED BY <4>1, <4>2
    <3> HIDE DEF n, next
    <3>3. OfEvent(a) /\ a.kind = "arrayEnd" /\ a.def = Top.def /\ a.count = n
      <4>1. "arrayEnd" \in TaskKinds
        BY <1>0
      <4> QED BY <1>0, <1>e, <2>2, <3>2, <4>1 DEF Task, TaskOf, OfEvent
    <3>4. OfEvent(b) /\ b.kind = "array" /\ b.def = Top.def /\ b.count = n /\ b.arrayIndex = 0
      <4>1. "array" \in TaskKinds /\ 0 \in Int
        BY <1>0
      <4> QED BY <1>0, <1>e, <2>2, <3>2, <4>1 DEF Task, TaskOf, OfEvent
    <3> HIDE DEF a, b
    <3>5. "ArrayBegin" \in States
      BY <1>0
    <3> DEFINE tasks == Front(stack) \o <<a, b>>
    <3> HIDE DEF tasks
    <3>6. \/ Fail("limit")
          \/ \E e : /\ Emits(e) /\ stack' = tasks
                    /\ frames' = Materialize("ArrayBegin") /\ e.state = "ArrayBegin" /\ e.count = n
      <4>1. emit("ArrayBegin", none, n, minus, tasks, next)
        BY <3>1 DEF tasks
      <4> QED BY <1>0, <2>2, <3>2, <3>5, <4>1, EmitSteps
    <3>7. ASSUME NEW e, Emits(e), stack' = tasks,
                 frames' = Materialize("ArrayBegin"), e.state = "ArrayBegin", e.count = n
          PROVE  ArrayBegun(a, b, e)
      <4>1. Swap(a, b)
        BY <2>1, <3>3, <3>4, <3>7, SwapStack DEF tasks
      <4> QED BY <2>1, <3>3, <3>4, <3>7, <4>1, Appends DEF ArrayBegun, Turn
    <3> QED BY <3>6, <3>7 DEF Turned
  <2> QED BY <2>3, <2>4
<1>4. CASE taskFieldStruct
  <2>1. /\ stack # <<>> /\ Top.kind \in {"field", "element"} /\ Def.encoding = "struct"
        /\ Turn("field") \/ Turn("element")
    BY <1>4 DEF taskFieldStruct, IsScalar, Turn
  <2>2. /\ Top.def \in 1..Fields /\ Top.def \in 0..Fields /\ Top.arrayIndex \in Int
        /\ Def.encoding \in Scalars \cup {"struct", "bad"}
    BY <2>1, TopTask
  <2>3. kids[Top.def] \in Seq(1..Fields)
    BY <2>2 DEF TypedEvent
  <2> DEFINE a == Task("structEnd", Top.def, none, 0, pos, Top.arrayIndex)
             b == Task("fields", 0, kids[Top.def], 0, 0, minus)
  <2>4. emit("StructBegin", none, 0, Top.arrayIndex, Front(stack) \o <<a, b>>, pos)
    BY <1>4 DEF taskFieldStruct, none, minus
  <2>5. OfEvent(a) /\ a.kind = "structEnd" /\ a.def = Top.def
    <3>1. "structEnd" \in TaskKinds
      BY <1>0
    <3> QED BY <1>0, <1>e, <2>2, <3>1 DEF Task, TaskOf, OfEvent
  <2>6. OfEvent(b) /\ b.kind = "fields" /\ b.fields = kids[Top.def]
    <3>1. "fields" \in TaskKinds /\ 0 \in 0..Fields
      BY <1>0, <1>e
    <3> QED BY <1>0, <1>e, <2>3, <3>1 DEF Task, TaskOf, OfEvent
  <2> HIDE DEF a, b
  <2>7. "StructBegin" \in States
    BY <1>0
  <2> DEFINE tasks == Front(stack) \o <<a, b>>
  <2> HIDE DEF tasks
  <2>8. \/ Fail("limit")
        \/ \E e : /\ Emits(e) /\ stack' = tasks
                  /\ frames' = Materialize("StructBegin") /\ e.state = "StructBegin" /\ e.count = 0
    <3>1. emit("StructBegin", none, 0, Top.arrayIndex, tasks, pos)
      BY <2>4 DEF tasks
    <3> QED BY <1>0, <1>e, <2>2, <2>7, <3>1, EmitSteps
  <2>9. ASSUME NEW e, Emits(e), stack' = tasks,
               frames' = Materialize("StructBegin"), e.state = "StructBegin"
        PROVE  StructBegun(a, b, e)
    <3>1. Swap(a, b)
      BY <2>1, <2>5, <2>6, <2>9, SwapStack DEF tasks
    <3> QED BY <2>1, <2>5, <2>6, <2>9, <3>1, Appends DEF StructBegun, Def
  <2> QED BY <2>8, <2>9 DEF Turned
<1>5. CASE taskFieldValue
  <2> DEFINE v == readWireValue(Def.encoding, data.payload, pos)
  <2>1. /\ stack # <<>> /\ Top.kind \in {"field", "element"}
        /\ Turn("field") \/ Turn("element")
    BY <1>5 DEF taskFieldValue, IsScalar, Turn
  <2>2. Top.arrayIndex \in Int /\ Def.encoding \in Scalars \cup {"struct", "bad"}
    BY <2>1, TopTask
  <2>3. CASE ~ v.ok
    <3>1. Fail("truncated")
      BY <1>5, <2>3 DEF taskFieldValue
    <3> QED BY <3>1
  <2>4. CASE v.ok
    <3>1. emit("Value", v.raw, 0, Top.arrayIndex, Front(stack), v.next)
      BY <1>5, <2>4 DEF taskFieldValue
    <3>2. v.raw \in Seq(Byte) /\ v.next \in pos..Len(data.payload)
      BY <1>e, <2>4, ValueWithin
    <3> HIDE DEF v
    <3>3. v.next \in 0..Len(data.payload) /\ "Value" \in States
      BY <1>0, <1>e, <3>2
    <3>4. \/ Fail("limit")
          \/ \E e : /\ Emits(e) /\ stack' = Front(stack)
                    /\ frames' = Materialize("Value") /\ e.state = "Value" /\ e.count = 0
      BY <1>0, <2>2, <3>1, <3>2, <3>3, EmitSteps
    <3>5. ASSUME NEW e, Emits(e), stack' = Front(stack), frames' = Materialize("Value"), e.state = "Value"
          PROVE  ValueRead(e)
      BY <2>1, <3>5, Appends, PopStack DEF ValueRead
    <3> QED BY <3>4, <3>5 DEF Turned
  <2> QED BY <2>3, <2>4
<1>6. CASE taskArrayEnd
  <2>1. /\ stack # <<>> /\ Turn("arrayEnd") /\ Top.kind = "arrayEnd"
        /\ emit("ArrayEnd", none, Top.count, minus, Front(stack), pos)
    BY <1>6 DEF taskArrayEnd, Turn, none, minus
  <2>2. Top.count \in Nat /\ Def.encoding \in Scalars \cup {"struct", "bad"} /\ "ArrayEnd" \in States
    BY <1>0, <2>1, TopTask
  <2>3. \/ Fail("limit")
        \/ \E e : /\ Emits(e) /\ stack' = Front(stack)
                  /\ frames' = Materialize("ArrayEnd") /\ e.state = "ArrayEnd" /\ e.count = Top.count
    BY <1>0, <1>e, <2>1, <2>2, EmitSteps
  <2>4. ASSUME NEW e, Emits(e), stack' = Front(stack), frames' = Materialize("ArrayEnd"), e.state = "ArrayEnd"
        PROVE  ArrayEnded(e)
    BY <2>1, <2>4, Appends, PopStack DEF ArrayEnded
  <2> QED BY <2>3, <2>4 DEF Turned
<1>7. CASE taskStructEnd
  <2>1. /\ stack # <<>> /\ Turn("structEnd") /\ Top.kind = "structEnd"
        /\ emit("StructEnd", none, 0, Top.arrayIndex, Front(stack), pos)
    BY <1>7 DEF taskStructEnd, Turn, none, minus
  <2>2. Top.arrayIndex \in Int /\ Def.encoding \in Scalars \cup {"struct", "bad"} /\ "StructEnd" \in States
    BY <1>0, <2>1, TopTask
  <2>3. \/ Fail("limit")
        \/ \E e : /\ Emits(e) /\ stack' = Front(stack)
                  /\ frames' = Materialize("StructEnd") /\ e.state = "StructEnd" /\ e.count = 0
    BY <1>0, <1>e, <2>1, <2>2, EmitSteps
  <2>4. ASSUME NEW e, Emits(e), stack' = Front(stack), frames' = Materialize("StructEnd"), e.state = "StructEnd"
        PROVE  StructEnded(e)
    BY <2>1, <2>4, Appends, PopStack DEF StructEnded
  <2> QED BY <2>3, <2>4 DEF Turned
<1> QED BY <1>1, <1>2, <1>3, <1>4, <1>5, <1>6, <1>7 DEF Next

LEMMA TypedTurned ==
  ASSUME Typed, TypedEvent, Walking, Turned
  PROVE  Typed'
<1>0. stack \in Seq(TaskOf(Fields)) /\ stack # <<>> /\ Len(stack) \in Nat \ {0}
  <2>1. stack # <<>>
    BY DEF Turned, FieldsDone, ArrayDone, FieldTaken, ElementTaken, ArrayBegun, StructBegun,
           ValueRead, ArrayEnded, StructEnded, Turn
  <2> QED BY <2>1, TopTask DEF TypedEvent
<1>1. Same /\ Fields' = Fields
  BY DEF Turned, FieldsDone, ArrayDone, FieldTaken, ElementTaken, ArrayBegun, StructBegun,
         ValueRead, ArrayEnded, StructEnded, Silent, Emits, Same, Fields
<1>2. Pop \/ \E a, b : Swap(a, b)
  BY DEF Turned, FieldsDone, ArrayDone, FieldTaken, ElementTaken, ArrayBegun, StructBegun,
         ValueRead, ArrayEnded, StructEnded
<1>3. Silent \/ \E e : Emits(e)
  BY DEF Turned, FieldsDone, ArrayDone, FieldTaken, ElementTaken, ArrayBegun, StructBegun,
         ValueRead, ArrayEnded, StructEnded
<1>4. /\ stack' \in Seq(TaskOf(Fields))
      /\ \A p \in 1..Len(stack') : stack'[p].kind # "fields" => stack'[p].def \in 1..Fields
  <2>1. CASE Pop
    BY <1>0, <2>1 DEF Pop, Popped, TypedEvent
  <2>2. ASSUME NEW a, NEW b, Swap(a, b)
        PROVE  /\ stack' \in Seq(TaskOf(Fields))
               /\ \A p \in 1..Len(stack') : stack'[p].kind # "fields" => stack'[p].def \in 1..Fields
    <3> SUFFICES ASSUME NEW p \in 1..Len(stack') PROVE stack'[p].kind # "fields" => stack'[p].def \in 1..Fields
      BY <2>2 DEF Swap
    <3>1. p \in 1 .. Len(stack) - 1 \/ p = Len(stack) \/ p = Len(stack) + 1
      BY <1>0, <2>2 DEF Swap, Replaced
    <3>2. (stack'[p] = stack[p] /\ p \in 1..Len(stack)) \/ stack'[p] = a \/ stack'[p] = b
      BY <1>0, <2>2, <3>1 DEF Swap, Replaced
    <3> QED BY <2>2, <3>2 DEF Swap, OfEvent, TypedEvent
  <2> QED BY <1>2, <2>1, <2>2
<1>5. /\ pos' \in 0..Len(data.payload)
      /\ items' \in Seq(ItemType) /\ Len(items') <= MaxTransitions
      /\ dstate' \in Quiet \cup States /\ dstate' \notin {"idle", "parsing", "Done"}
  <2>1. CASE Silent
    BY <2>1 DEF Silent, Typed, TypedEvent, Walking
  <2>2. ASSUME NEW e, Emits(e)
        PROVE  /\ pos' \in 0..Len(data.payload)
               /\ items' \in Seq(ItemType) /\ Len(items') <= MaxTransitions
               /\ dstate' \in Quiet \cup States /\ dstate' \notin {"idle", "parsing", "Done"}
    <3>1. e.state \in States
      BY <2>2, Zenon DEF Emits, ItemType
    <3>2. /\ items \in Seq(ItemType) /\ Len(items) \in Nat /\ Len(items) < MaxTransitions
          /\ e \in ItemType /\ items' = Append(items, e)
      BY <2>2 DEF Emits, Typed
    <3>3. items' \in Seq(ItemType) /\ Len(items') = Len(items) + 1
      BY <3>2, AppendProperties
    <3>4. Len(items') <= MaxTransitions
      BY <3>2, <3>3, LimitsAssumption
    <3> QED BY <2>2, <3>1, <3>3, <3>4 DEF Emits, States
  <2> QED BY <1>3, <2>1, <2>2
<1>6. TypedEvent'
  BY <1>1, <1>4, <1>5 DEF TypedEvent, Same
<1> QED BY <1>5, <1>6 DEF Typed

LEMMA TypedFinish ==
  ASSUME Typed, TypedEvent, finish
  PROVE  Typed'
<1>1. TypedEvent'
  BY DEF TypedEvent, finish, Fields
<1> QED BY <1>1 DEF Typed, finish, Quiet

-----------------------------------------------------------------------------
(* The order of the tasks *)

\* What is under each task.
Follows(s, p) ==
  LET k == s[p].kind IN
  /\ k = "fields" => p = 1 \/ s[p - 1].kind = "structEnd"
  /\ k = "field" => p > 1 /\ p = Len(s) /\ s[p - 1].kind = "fields"
  /\ k = "element" => p > 1 /\ p = Len(s) /\ s[p - 1].kind = "array"
  /\ k = "array" => p > 1 /\ s[p - 1].kind = "arrayEnd" /\ s[p - 1].count = s[p].count
  /\ k = "arrayEnd" => p > 1 /\ s[p - 1].kind = "fields"
  /\ k = "structEnd" => p > 1 /\ s[p - 1].kind \in {"fields", "array"}

Grammar(s) == \A p \in 1..Len(s) : s[p].kind \in TaskKinds /\ Follows(s, p)

LEMMA GrammarPopped ==
  ASSUME NEW s, NEW t, Len(s) \in Nat \ {0}, Grammar(s), Popped(s, t)
  PROVE  Grammar(t)
<1> SUFFICES ASSUME NEW p \in 1..Len(t) PROVE t[p].kind \in TaskKinds /\ Follows(t, p)
  BY DEF Grammar
<1>1. /\ p \in 1..Len(s) /\ p # Len(s) /\ t[p] = s[p] /\ p - 1 \in Int
      /\ p > 1 => t[p - 1] = s[p - 1]
  BY DEF Popped
<1>2. Follows(s, p) /\ s[p].kind \in TaskKinds
  BY <1>1 DEF Grammar
<1> QED BY <1>1, <1>2 DEF Follows

\* A task and what takes its place.
Becomes(u, a, b) ==
  \/ u.kind = "fields" /\ a.kind = "fields" /\ b.kind = "field"
  \/ /\ u.kind = "array" /\ a.kind = "array" /\ b.kind = "element" /\ a.count = u.count
  \/ /\ u.kind = "field" /\ a.kind = "arrayEnd" /\ b.kind = "array" /\ a.count = b.count
  \/ u.kind \in {"field", "element"} /\ a.kind = "structEnd" /\ b.kind = "fields"

LEMMA GrammarReplaced ==
  ASSUME NEW s, NEW t, NEW a, NEW b, Len(s) \in Nat \ {0}, Grammar(s), Replaced(s, t, a, b),
         Becomes(s[Len(s)], a, b)
  PROVE  Grammar(t)
<1> DEFINE n == Len(s)
<1>1. /\ Len(t) = n + 1 /\ t[n] = a /\ t[n + 1] = b /\ n \in Nat \ {0} /\ n + 1 > 1 /\ (n + 1) - 1 = n
      /\ \A p \in 1 .. n - 1 : t[p] = s[p]
  BY DEF Replaced
<1>2. Follows(s, n) /\ s[n].kind \in TaskKinds
  BY <1>1 DEF Grammar
<1>3. n > 1 => t[n - 1] = s[n - 1]
  BY <1>1
<1>4. a.kind \in TaskKinds /\ b.kind \in TaskKinds
  BY DEF Becomes, TaskKinds
<1>9. Becomes(s[n], a, b)
  OBVIOUS
<1> HIDE DEF n
<1>5. Follows(t, n)
  BY <1>1, <1>2, <1>3, <1>9 DEF Follows, Becomes
<1>6. Follows(t, n + 1)
  BY <1>1, <1>9 DEF Follows, Becomes
<1>7. ASSUME NEW p \in 1 .. n - 1 PROVE Follows(t, p) /\ t[p].kind \in TaskKinds
  <2>1. p \in 1..n /\ p # n /\ t[p] = s[p] /\ (p > 1 => t[p - 1] = s[p - 1])
    BY <1>1
  <2>2. Follows(s, p) /\ s[p].kind \in TaskKinds
    BY <2>1 DEF Grammar, n
  <2> QED BY <2>1, <2>2 DEF Follows, n
<1>8. \A p \in 1..Len(t) : p \in 1 .. n - 1 \/ p = n \/ p = n + 1
  BY <1>1
<1> QED BY <1>1, <1>4, <1>5, <1>6, <1>7, <1>8 DEF Grammar

-----------------------------------------------------------------------------
(* The frames of Decode are the ends to come *)

IsEnd(u) == u.kind \in {"arrayEnd", "structEnd"}

LEMMA EndsTop ==
  ASSUME NEW s, NEW p \in Nat \ {0}
  PROVE  /\ E(s, p) \in Nat /\ E(s, p - 1) \in Nat
         /\ E(s, p) = IF IsEnd(s[p]) THEN E(s, p - 1) + 1 ELSE E(s, p - 1)
<1>1. p - 1 \in Nat /\ (p - 1) + 1 = p
  OBVIOUS
<1>2. E(s, (p - 1) + 1) = IF s[(p - 1) + 1].kind \in {"arrayEnd", "structEnd"}
                          THEN E(s, p - 1) + 1 ELSE E(s, p - 1)
  BY <1>1, EndsNext
<1>3. E(s, p) \in Nat /\ E(s, p - 1) \in Nat
  BY <1>1, EndsFinite
<1> QED BY <1>1, <1>2, <1>3 DEF IsEnd

LEMMA EndsBelow ==
  ASSUME NEW s, NEW t, Len(s) \in Nat \ {0}, \A p \in 1 .. Len(s) - 1 : t[p] = s[p],
         NEW q \in 0 .. Len(s) - 1
  PROVE  E(t, q) = E(s, q)
<1>1. q \in Nat /\ \A p \in 1..q : t[p] = s[p]
  OBVIOUS
<1> QED BY <1>1, EndsSame

\* An end is the E-th of its stack.
LEMMA EndsRange ==
  ASSUME NEW s, NEW n \in Nat, NEW p \in 1..n
  PROVE  /\ E(s, p) \in Nat /\ E(s, n) \in Nat /\ E(s, p) <= E(s, n)
         /\ IsEnd(s[p]) => E(s, p) >= 1 /\ E(s, p - 1) = E(s, p) - 1
<1>1. p \in Nat \ {0} /\ p <= n
  OBVIOUS
<1>2. E(s, p) <= E(s, n) /\ E(s, n) \in Nat
  BY <1>1, EndsMonotone, EndsFinite
<1> QED BY <1>1, <1>2, EndsTop

FramesMatch(s, f) ==
  /\ f \in Seq(Begins)
  /\ Len(f) = E(s, Len(s))
  /\ \A p \in 1..Len(s) : IsEnd(s[p]) => f[E(s, p)] = Ends[s[p].kind]

\* A task that ends nothing is done.
LEMMA FramesPop ==
  ASSUME NEW s, NEW t, NEW f, Len(s) \in Nat \ {0}, Popped(s, t), FramesMatch(s, f), ~ IsEnd(s[Len(s)])
  PROVE  FramesMatch(t, f)
<1>1. E(s, Len(s)) = E(s, Len(s) - 1)
  BY EndsTop
<1>2. Len(t) = Len(s) - 1 /\ \A p \in 1 .. Len(s) - 1 : t[p] = s[p]
  BY DEF Popped
<1>3. \A q \in 0 .. Len(s) - 1 : E(t, q) = E(s, q)
  BY <1>2, EndsBelow
<1>4. Len(f) = E(t, Len(t))
  BY <1>1, <1>2, <1>3 DEF FramesMatch
<1>5. \A p \in 1..Len(t) : IsEnd(t[p]) => f[E(t, p)] = Ends[t[p].kind]
  <2> TAKE p \in 1..Len(t)
  <2>1. p \in 1..Len(s) /\ t[p] = s[p] /\ E(t, p) = E(s, p)
    BY <1>2, <1>3
  <2> QED BY <2>1 DEF FramesMatch
<1> QED BY <1>4, <1>5 DEF FramesMatch

\* The end of the innermost container.
LEMMA FramesEnd ==
  ASSUME NEW s, NEW t, NEW f, Len(s) \in Nat \ {0}, Popped(s, t), FramesMatch(s, f), IsEnd(s[Len(s)])
  PROVE  FramesMatch(t, Front(f)) /\ Len(f) \in Nat /\ Len(Front(f)) = Len(f) - 1
<1>1. /\ E(s, Len(s)) = E(s, Len(s) - 1) + 1
      /\ E(s, Len(s)) \in Nat /\ E(s, Len(s) - 1) \in Nat
  BY EndsTop
<1>2. Len(t) = Len(s) - 1 /\ \A p \in 1 .. Len(s) - 1 : t[p] = s[p]
  BY DEF Popped
<1>3. \A q \in 0 .. Len(s) - 1 : E(t, q) = E(s, q)
  BY <1>2, EndsBelow
<1>4. f \in Seq(Begins) /\ Len(f) \in Nat \ {0} /\ f # <<>>
  BY <1>1 DEF FramesMatch
<1>5. Front(f) \in Seq(Begins) /\ Len(Front(f)) = Len(f) - 1 /\ \A i \in 1 .. Len(f) - 1 : Front(f)[i] = f[i]
  BY <1>4, Pops DEF Popped
<1>6. Len(Front(f)) = E(t, Len(t))
  BY <1>1, <1>2, <1>3, <1>5 DEF FramesMatch
<1>7. \A p \in 1..Len(t) : IsEnd(t[p]) => Front(f)[E(t, p)] = Ends[t[p].kind]
  <2> SUFFICES ASSUME NEW p \in 1..Len(t), IsEnd(t[p]) PROVE Front(f)[E(t, p)] = Ends[t[p].kind]
    OBVIOUS
  <2>1. p \in 1..Len(s) /\ t[p] = s[p] /\ E(t, p) = E(s, p) /\ Len(s) - 1 \in Nat /\ p \in 1 .. Len(s) - 1
    BY <1>2, <1>3
  <2>2. E(s, p) \in 1 .. E(s, Len(s) - 1)
    BY <1>1, <2>1, EndsRange
  <2>3. E(s, p) \in 1 .. Len(f) - 1
    BY <1>1, <2>2 DEF FramesMatch
  <2>4. f[E(s, p)] = Ends[s[p].kind]
    BY <2>1 DEF FramesMatch
  <2> QED BY <1>5, <2>1, <2>3, <2>4
<1> QED BY <1>4, <1>5, <1>6, <1>7 DEF FramesMatch

\* Tasks that end nothing take the place of one.
LEMMA FramesSwap ==
  ASSUME NEW s, NEW t, NEW a, NEW b, NEW f, Len(s) \in Nat \ {0}, Replaced(s, t, a, b),
         FramesMatch(s, f), ~ IsEnd(s[Len(s)]), ~ IsEnd(a), ~ IsEnd(b)
  PROVE  FramesMatch(t, f)
<1> DEFINE n == Len(s)
<1>1. /\ Len(t) = n + 1 /\ \A p \in 1 .. n - 1 : t[p] = s[p]
      /\ t[n] = a /\ t[n + 1] = b /\ (n + 1) - 1 = n /\ n + 1 \in Nat \ {0}
  BY DEF Replaced
<1>2. \A q \in 0 .. n - 1 : E(t, q) = E(s, q)
  BY <1>1, EndsBelow
<1>3. E(s, n) = E(s, n - 1) /\ E(t, n) = E(t, n - 1)
  BY <1>1, EndsTop
<1>4. E(t, n + 1) = E(t, (n + 1) - 1)
  BY <1>1, EndsTop
<1>5. n - 1 \in 0 .. n - 1
  OBVIOUS
<1>6. Len(f) = E(t, Len(t))
  BY <1>1, <1>2, <1>3, <1>4, <1>5 DEF FramesMatch
<1>7. \A p \in 1..Len(t) : IsEnd(t[p]) => f[E(t, p)] = Ends[t[p].kind]
  <2> SUFFICES ASSUME NEW p \in 1..Len(t), IsEnd(t[p]) PROVE f[E(t, p)] = Ends[t[p].kind]
    OBVIOUS
  <2>1. p \in 1 .. n - 1
    BY <1>1
  <2>2. p \in 1..n /\ t[p] = s[p] /\ E(t, p) = E(s, p)
    BY <1>1, <1>2, <2>1
  <2> QED BY <2>2 DEF FramesMatch
<1> QED BY <1>6, <1>7 DEF FramesMatch

\* The beginning of a container.
LEMMA FramesBegin ==
  ASSUME NEW s, NEW t, NEW a, NEW b, NEW f, Len(s) \in Nat \ {0}, Replaced(s, t, a, b),
         FramesMatch(s, f), ~ IsEnd(s[Len(s)]), IsEnd(a), ~ IsEnd(b)
  PROVE  /\ FramesMatch(t, Append(f, Ends[a.kind]))
         /\ Len(f) \in Nat /\ Len(Append(f, Ends[a.kind])) = Len(f) + 1
         /\ E(t, Len(s)) = Len(f) + 1
<1> DEFINE n == Len(s)
           g == Append(f, Ends[a.kind])
<1>1. /\ Len(t) = n + 1 /\ \A p \in 1 .. n - 1 : t[p] = s[p]
      /\ t[n] = a /\ t[n + 1] = b /\ (n + 1) - 1 = n /\ n + 1 \in Nat \ {0}
  BY DEF Replaced
<1>2. \A q \in 0 .. n - 1 : E(t, q) = E(s, q)
  BY <1>1, EndsBelow
<1>3. E(s, n) = E(s, n - 1) /\ E(t, n) = E(t, n - 1) + 1 /\ E(s, n) \in Nat
  BY <1>1, EndsTop
<1>4. E(t, n + 1) = E(t, (n + 1) - 1)
  BY <1>1, EndsTop
<1>5. n - 1 \in 0 .. n - 1 /\ n - 1 \in Nat
  OBVIOUS
<1>6. Ends[a.kind] \in Begins
  BY DEF IsEnd, Ends, Begins
<1>7. f \in Seq(Begins) /\ Len(f) = E(s, n) /\ Len(f) \in Nat
  BY <1>3 DEF FramesMatch
<1>8. /\ g \in Seq(Begins) /\ Len(g) = Len(f) + 1 /\ g[Len(f) + 1] = Ends[a.kind]
      /\ \A i \in 1..Len(f) : g[i] = f[i]
  BY <1>6, <1>7, AppendProperties
<1> HIDE DEF g
<1>9. E(t, n) = Len(f) + 1 /\ Len(g) = E(t, Len(t))
  BY <1>1, <1>2, <1>3, <1>4, <1>5, <1>7, <1>8
<1>10. \A p \in 1..Len(t) : IsEnd(t[p]) => g[E(t, p)] = Ends[t[p].kind]
  <2> SUFFICES ASSUME NEW p \in 1..Len(t), IsEnd(t[p]) PROVE g[E(t, p)] = Ends[t[p].kind]
    OBVIOUS
  <2>0. p # n + 1 /\ p \in 1 .. n + 1
    BY <1>1
  <2>1. p \in 1 .. n - 1 \/ p = n
    BY <2>0
  <2>2. CASE p = n
    BY <1>1, <1>8, <1>9, <2>2
  <2>3. CASE p \in 1 .. n - 1
    <3>1. p \in 1..n /\ t[p] = s[p] /\ E(t, p) = E(s, p)
      BY <1>1, <1>2, <2>3
    <3>2. E(s, p) \in 1 .. Len(f)
      BY <1>3, <1>7, <3>1, EndsRange
    <3> QED BY <1>8, <3>1, <3>2 DEF FramesMatch
  <2> QED BY <2>1, <2>2, <2>3
<1> QED BY <1>7, <1>8, <1>9, <1>10 DEF FramesMatch, g

-----------------------------------------------------------------------------
(* The items of an array *)

\* Elements of the array that ends at p that have been reported: those the array
\* task has taken, except one that is still a task.
Progress(s, p) ==
  IF p = Len(s) THEN s[p].count
  ELSE IF p + 2 <= Len(s) /\ s[p + 2].kind = "element" THEN s[p + 1].arrayIndex - 1
  ELSE s[p + 1].arrayIndex

Complete(it, i) ==
  /\ \E j \in i..Len(it) : Nesting(it, j) < Nesting(it, i)
  /\ Cardinality(Inside(it, i)) = it[i].count

Pending(s, it, i, p) ==
  /\ s[p].kind = "arrayEnd" /\ s[p].count = it[i].count
  /\ Nesting(it, i) = E(s, p)
  /\ \A k \in i..Len(it) : Nesting(it, k) >= Nesting(it, i)
  /\ Cardinality(Inside(it, i)) = Progress(s, p)

ItemsMatch(s, it) ==
  /\ Nesting(it, Len(it)) = E(s, Len(s))
  /\ \A i \in 1..Len(it) : it[i].state = "ArrayBegin" =>
       Complete(it, i) \/ \E p \in 1..Len(s) : Pending(s, it, i, p)

\* Steps that report no item.
LEMMA ItemsSilent ==
  ASSUME NEW s, NEW t, NEW it, ItemsMatch(s, it), E(t, Len(t)) = E(s, Len(s)),
         \A p \in 1..Len(s) : s[p].kind = "arrayEnd" =>
           /\ p \in 1..Len(t) /\ t[p] = s[p] /\ E(t, p) = E(s, p)
           /\ Progress(t, p) = Progress(s, p)
  PROVE  ItemsMatch(t, it)
<1>1. \A i, p : p \in 1..Len(s) /\ Pending(s, it, i, p) => p \in 1..Len(t) /\ Pending(t, it, i, p)
  BY DEF Pending
<1> QED BY <1>1 DEF ItemsMatch

Inner == {"Value", "ArrayBegin", "StructBegin"}

\* Steps that report e.
LEMMA ItemsEmit ==
  ASSUME NEW s, NEW t, NEW it \in Seq(ItemType), NEW e \in ItemType, ItemsMatch(s, it),
         E(s, Len(s)) \in Nat, E(t, Len(t)) \in Nat,
         Nesting(Append(it, e), Len(it) + 1) = E(t, Len(t)),
         \A p \in 1..Len(s) : s[p].kind = "arrayEnd" =>
           \/ /\ p \in 1..Len(t) /\ t[p] = s[p] /\ E(t, p) = E(s, p) /\ E(t, Len(t)) >= E(t, p)
              /\ Progress(t, p) = IF E(s, Len(s)) = E(s, p) /\ e.state \in Inner
                                  THEN Progress(s, p) + 1 ELSE Progress(s, p)
           \/ /\ e.state = "ArrayEnd" /\ E(t, Len(t)) < E(s, p) /\ Progress(s, p) = s[p].count,
         e.state = "ArrayBegin" =>
           \E p \in 1..Len(t) : /\ t[p].kind = "arrayEnd" /\ t[p].count = e.count
                                /\ E(t, p) = E(t, Len(t)) /\ Progress(t, p) = 0
  PROVE  ItemsMatch(t, Append(it, e))
<1> DEFINE u == Append(it, e)
           n == Len(it)
<1>1. n = Len(it) /\ n \in Nat /\ Len(u) = n + 1 /\ u[n + 1] = e /\ \A j \in 1..n : u[j] = it[j]
  BY LenProperties, AppendProperties
<1>3. Nesting(u, n + 1) = E(t, Len(t)) /\ Nesting(it, n) = E(s, Len(s))
  BY DEF ItemsMatch
<1> HIDE DEF u, n
<1>2. \A k \in 0..n : Nesting(u, k) = Nesting(it, k)
  <2> TAKE k \in 0..n
  <2>1. k \in Nat /\ \A j \in 1..k : u[j] = it[j]
    BY <1>1
  <2> QED BY <2>1, NestingSame
<1>4. \A k \in Nat : Nesting(u, k) \in Int /\ Nesting(it, k) \in Int
  BY NestingType
<1>9. /\ \A i \in 1..n : \A k \in i .. n + 1 : k \in i..n \/ k = n + 1
      /\ \A i \in 1..n : \A k \in i..n : k \in Nat /\ k \in i .. n + 1
  <2>1. n \in Nat
    BY <1>1
  <2> QED BY <2>1
<1>5. ASSUME NEW i \in 1..n, u[i].state = "ArrayBegin"
      PROVE  Complete(u, i) \/ \E p \in 1..Len(t) : Pending(t, u, i, p)
  <2>1. /\ u[i] = it[i] /\ Nesting(u, i) = Nesting(it, i) /\ i \in 1..Len(it)
        /\ \A k \in i..n : Nesting(u, k) = Nesting(it, k)
        /\ i \in Nat /\ Nesting(it, i) \in Int /\ n + 1 \in i .. n + 1
    BY <1>1, <1>2, <1>4
  <2>2. Cardinality(Inside(u, i)) = IF Receives(it, i) /\ e.state \in Inner
                                    THEN Cardinality(Inside(it, i)) + 1 ELSE Cardinality(Inside(it, i))
    BY <2>1, InsideAppend DEF u, Inner
  <2>3. CASE Complete(it, i)
    <3>1. PICK j \in i..n : Nesting(it, j) < Nesting(it, i)
      BY <1>1, <2>3 DEF Complete
    <3>2. j \in i .. n + 1 /\ Nesting(u, j) < Nesting(u, i) /\ j \in Nat /\ Nesting(it, j) \in Int
      BY <1>4, <1>9, <2>1, <3>1
    <3>3. ~ Receives(it, i)
      BY <1>1, <2>1, <3>1, <3>2 DEF Receives
    <3> QED BY <1>1, <2>1, <2>2, <2>3, <3>2, <3>3 DEF Complete
  <2>4. ASSUME NEW p \in 1..Len(s), Pending(s, it, i, p)
        PROVE  Complete(u, i) \/ \E q \in 1..Len(t) : Pending(t, u, i, q)
    <3>0. /\ s[p].kind = "arrayEnd" /\ s[p].count = it[i].count /\ Nesting(it, i) = E(s, p)
          /\ \A k \in i..n : Nesting(it, k) >= Nesting(it, i)
          /\ Cardinality(Inside(it, i)) = Progress(s, p)
      BY <1>1, <2>4 DEF Pending
    <3>1. Receives(it, i) <=> E(s, Len(s)) = E(s, p)
      BY <1>1, <1>3, <3>0 DEF Receives
    <3>2. CASE /\ p \in 1..Len(t) /\ t[p] = s[p] /\ E(t, p) = E(s, p) /\ E(t, Len(t)) >= E(t, p)
               /\ Progress(t, p) = IF E(s, Len(s)) = E(s, p) /\ e.state \in Inner
                                   THEN Progress(s, p) + 1 ELSE Progress(s, p)
      <4>1. Cardinality(Inside(u, i)) = Progress(t, p)
        BY <2>2, <3>0, <3>1, <3>2
      <4>2. \A k \in i .. n + 1 : k \in i..n \/ k = n + 1
        BY <1>9
      <4>3. \A k \in i .. n + 1 : Nesting(u, k) >= Nesting(u, i)
        BY <1>3, <2>1, <3>0, <3>2, <4>2
      <4>4. Pending(t, u, i, p)
        BY <1>1, <2>1, <3>0, <3>2, <4>1, <4>3 DEF Pending
      <4> QED BY <3>2, <4>4
    <3>3. CASE e.state = "ArrayEnd" /\ E(t, Len(t)) < E(s, p) /\ Progress(s, p) = s[p].count
      <4>1. e.state \notin Inner
        BY <3>3 DEF Inner
      <4> QED BY <1>1, <1>3, <2>1, <2>2, <3>0, <3>3, <4>1 DEF Complete
    <3> QED BY <3>0, <3>2, <3>3
  <2> QED BY <1>1, <2>1, <2>3, <2>4, <1>5 DEF ItemsMatch
<1>6. ASSUME e.state = "ArrayBegin"
      PROVE  \E p \in 1..Len(t) : Pending(t, u, n + 1, p)
  <2>1. PICK p \in 1..Len(t) : /\ t[p].kind = "arrayEnd" /\ t[p].count = e.count
                               /\ E(t, p) = E(t, Len(t)) /\ Progress(t, p) = 0
    BY <1>6
  <2>2. Inside(u, n + 1) = {}
    BY <1>1 DEF Inside
  <2>3. Cardinality(Inside(u, n + 1)) = 0
    BY <2>2, FS_EmptySet
  <2>4. \A k \in n + 1 .. n + 1 : k = n + 1
    BY <1>1
  <2>5. n + 1 \in Nat /\ Nesting(u, n + 1) \in Int
    BY <1>1, <1>4
  <2>6. \A k \in n + 1 .. n + 1 : Nesting(u, k) >= Nesting(u, n + 1)
    BY <2>4, <2>5
  <2>7. Pending(t, u, n + 1, p)
    BY <1>1, <1>3, <2>1, <2>3, <2>6 DEF Pending
  <2> QED BY <2>7
<1>7. \A i \in 1 .. n + 1 : i \in 1..n \/ i = n + 1
  BY <1>1
<1> QED BY <1>1, <1>3, <1>5, <1>6, <1>7 DEF ItemsMatch, u

\* The array task is on its end, and an element or a struct of it on the array task.
LEMMA OnArrayEnd ==
  ASSUME NEW s, NEW n \in Nat, Len(s) = n, Grammar(s), NEW p \in 1..n, s[p].kind = "arrayEnd"
  PROVE  /\ p < n => s[p + 1].kind = "array" /\ s[p + 1].count = s[p].count
         /\ p + 1 < n => s[p + 2].kind \in {"element", "structEnd"}
         /\ p = n \/ p = n - 1 \/ p = n - 2 \/ p + 2 <= n - 1
<1>1. ASSUME p < n PROVE s[p + 1].kind = "array" /\ s[p + 1].count = s[p].count
  <2>1. p + 1 \in 1..n /\ (p + 1) - 1 = p /\ p + 1 # 1
    BY <1>1
  <2>2. s[p + 1].kind \in TaskKinds /\ Follows(s, p + 1)
    BY <2>1 DEF Grammar
  <2> QED BY <2>1, <2>2 DEF Follows, TaskKinds
<1>2. ASSUME p + 1 < n PROVE s[p + 2].kind \in {"element", "structEnd"}
  <2>1. p + 2 \in 1..n /\ (p + 2) - 1 = p + 1 /\ p + 2 # 1 /\ p < n
    BY <1>2
  <2>2. s[p + 2].kind \in TaskKinds /\ Follows(s, p + 2) /\ s[p + 1].kind = "array"
    BY <1>1, <2>1 DEF Grammar
  <2> QED BY <2>1, <2>2 DEF Follows, TaskKinds
<1> QED BY <1>1, <1>2

\* An array under the one, or the struct, that the top task belongs to.
LEMMA OuterArray ==
  ASSUME NEW s, NEW n \in Nat, Len(s) = n, Grammar(s), NEW p \in 1..n,
         p + 2 <= n - 1, s[n].kind \in {"field", "element"}
  PROVE  E(s, p) < E(s, n)
<1>1. n \in 1..n /\ n - 1 \in 1..n /\ n - 2 \in 1..n /\ n - 1 # 1 /\ (n - 1) - 1 = n - 2 /\ n # 1
  OBVIOUS
<1>2. s[n - 1].kind \in {"fields", "array"}
  <2>1. Follows(s, n)
    BY <1>1 DEF Grammar
  <2> QED BY <2>1 DEF Follows
<1>3. IsEnd(s[n - 2])
  <2>1. Follows(s, n - 1)
    BY <1>1 DEF Grammar
  <2> QED BY <1>1, <1>2, <2>1 DEF Follows, IsEnd
<1>4. E(s, n - 2) \in Nat /\ E(s, n) \in Nat /\ E(s, n - 2) <= E(s, n) /\ E(s, (n - 2) - 1) = E(s, n - 2) - 1
  BY <1>1, <1>3, EndsRange
<1>5. (n - 2) - 1 \in Nat /\ p \in 1 .. (n - 2) - 1
  OBVIOUS
<1>6. E(s, p) <= E(s, (n - 2) - 1) /\ E(s, p) \in Nat
  BY <1>5, EndsRange
<1> QED BY <1>4, <1>6

LEMMA ProgressBelow ==
  ASSUME NEW s, NEW t, NEW n \in Nat \ {0}, Len(s) = n, Len(t) \in Nat, Len(t) >= n - 1,
         \A q \in 1 .. n - 1 : t[q] = s[q], NEW p \in 1..n, p + 2 <= n - 1
  PROVE  p \in 1..Len(t) /\ t[p] = s[p] /\ E(t, p) = E(s, p) /\ Progress(t, p) = Progress(s, p)
<1>1. /\ p \in 1..Len(t) /\ p # n /\ p # Len(t) /\ p + 2 <= n /\ p + 2 <= Len(t)
      /\ p \in 1 .. n - 1 /\ p + 1 \in 1 .. n - 1 /\ p + 2 \in 1 .. n - 1 /\ p \in 0 .. n - 1
  OBVIOUS
<1>2. t[p] = s[p] /\ t[p + 1] = s[p + 1] /\ t[p + 2] = s[p + 2]
  BY <1>1
<1>3. E(t, p) = E(s, p)
  BY <1>1, EndsBelow
<1> QED BY <1>1, <1>2, <1>3 DEF Progress

Shape(s, f, it) == Grammar(s) /\ FramesMatch(s, f) /\ ItemsMatch(s, it)

\* The end of a list of fields, or of the elements of an array.
LEMMA ShapePop ==
  ASSUME NEW s, NEW t, NEW f, NEW it, NEW n \in Nat \ {0}, Len(s) = n, Shape(s, f, it), Popped(s, t),
         s[n].kind = "fields" \/ (s[n].kind = "array" /\ s[n].arrayIndex = s[n].count)
  PROVE  Shape(t, f, it)
<1>1. Len(t) = n - 1 /\ Len(t) \in Nat /\ \A q \in 1 .. n - 1 : t[q] = s[q]
  BY DEF Popped
<1>2. ~ IsEnd(s[n])
  BY DEF IsEnd
<1>3. Grammar(t) /\ FramesMatch(t, f) /\ Grammar(s)
  BY <1>2, GrammarPopped, FramesPop DEF Shape
<1>4. E(t, Len(t)) = E(s, Len(s))
  BY <1>3 DEF Shape, FramesMatch
<1>5. ASSUME NEW p \in 1..n, s[p].kind = "arrayEnd"
      PROVE  p \in 1..Len(t) /\ t[p] = s[p] /\ E(t, p) = E(s, p) /\ Progress(t, p) = Progress(s, p)
  <2>1. p # n /\ p # n - 2
    <3>1. p # n
      BY <1>5
    <3>2. p = n - 2 => p + 1 < n /\ p + 2 = n
      BY <3>1
    <3> QED BY <1>3, <1>5, <3>1, <3>2, OnArrayEnd
  <2>2. CASE p = n - 1
    <3>1. p + 1 = n /\ p < n /\ p \in 1 .. n - 1 /\ p \in 0 .. n - 1 /\ p # n /\ ~ (p + 2 <= n)
      BY <2>2
    <3>2. s[n].kind = "array" /\ s[n].count = s[p].count
      BY <1>3, <1>5, <3>1, OnArrayEnd
    <3>3. t[p] = s[p] /\ E(t, p) = E(s, p)
      BY <1>1, <3>1, EndsBelow
    <3>4. Progress(s, p) = s[n].arrayIndex
      BY <3>1 DEF Progress
    <3>5. Progress(t, p) = t[p].count
      BY <1>1, <2>2 DEF Progress
    <3> QED BY <1>1, <2>2, <3>1, <3>2, <3>3, <3>4, <3>5
  <2>3. CASE p + 2 <= n - 1
    <3>1. Len(t) >= n - 1
      BY <1>1
    <3> QED BY <1>1, <2>3, <3>1, ProgressBelow
  <2> QED BY <1>3, <1>5, <2>1, <2>2, <2>3, OnArrayEnd
<1>6. ItemsMatch(t, it)
  BY <1>4, <1>5, ItemsSilent DEF Shape
<1> QED BY <1>3, <1>6 DEF Shape

\* The next field, or the next element of an array.
LEMMA ShapeTake ==
  ASSUME NEW s, NEW t, NEW a, NEW b, NEW f, NEW it, NEW n \in Nat \ {0}, Len(s) = n, Shape(s, f, it),
         Replaced(s, t, a, b),
         \/ s[n].kind = "fields" /\ a.kind = "fields" /\ b.kind = "field"
         \/ /\ s[n].kind = "array" /\ a.kind = "array" /\ b.kind = "element" /\ a.count = s[n].count
            /\ s[n].arrayIndex \in Int /\ a.arrayIndex = s[n].arrayIndex + 1
  PROVE  Shape(t, f, it)
<1>1. /\ Len(t) = n + 1 /\ Len(t) \in Nat /\ \A q \in 1 .. n - 1 : t[q] = s[q]
      /\ t[n] = a /\ t[n + 1] = b
  BY DEF Replaced
<1>2. ~ IsEnd(s[n]) /\ ~ IsEnd(a) /\ ~ IsEnd(b) /\ Becomes(s[n], a, b)
  BY DEF IsEnd, Becomes
<1>3. Grammar(t) /\ FramesMatch(t, f) /\ Grammar(s)
  BY <1>2, GrammarReplaced, FramesSwap DEF Shape
<1>4. E(t, Len(t)) = E(s, Len(s))
  BY <1>3 DEF Shape, FramesMatch
<1>5. ASSUME NEW p \in 1..n, s[p].kind = "arrayEnd"
      PROVE  p \in 1..Len(t) /\ t[p] = s[p] /\ E(t, p) = E(s, p) /\ Progress(t, p) = Progress(s, p)
  <2>1. p # n /\ p # n - 2
    <3>1. p # n
      BY <1>5
    <3>2. p = n - 2 => p + 1 < n /\ p + 2 = n
      BY <3>1
    <3> QED BY <1>3, <1>5, <3>1, <3>2, OnArrayEnd
  <2>2. CASE p = n - 1
    <3>1. /\ p + 1 = n /\ p + 2 = n + 1 /\ p < n /\ p \in 1 .. n - 1 /\ p \in 0 .. n - 1 /\ p # n
          /\ ~ (p + 2 <= n) /\ p # n + 1 /\ n + 1 <= n + 1 /\ p \in 1 .. n + 1
      BY <2>2
    <3>2. s[n].kind = "array"
      BY <1>3, <1>5, <3>1, OnArrayEnd
    <3>3. t[p] = s[p] /\ E(t, p) = E(s, p)
      BY <1>1, <3>1, EndsBelow
    <3>4. Progress(s, p) = s[n].arrayIndex
      BY <3>1 DEF Progress
    <3>5. Progress(t, p) = a.arrayIndex - 1
      BY <1>1, <3>1, <3>2 DEF Progress
    <3> QED BY <1>1, <3>1, <3>2, <3>3, <3>4, <3>5
  <2>3. CASE p + 2 <= n - 1
    <3>1. Len(t) >= n - 1
      BY <1>1
    <3> QED BY <1>1, <2>3, <3>1, ProgressBelow
  <2> QED BY <1>3, <1>5, <2>1, <2>2, <2>3, OnArrayEnd
<1>6. ItemsMatch(t, it)
  BY <1>4, <1>5, ItemsSilent DEF Shape
<1> QED BY <1>3, <1>6 DEF Shape

LEMMA NestingAppend ==
  ASSUME NEW it \in Seq(ItemType), NEW e \in ItemType
  PROVE  /\ Nesting(it, Len(it)) \in Int
         /\ e.state \in Begins => Nesting(Append(it, e), Len(it) + 1) = Nesting(it, Len(it)) + 1
         /\ e.state \in {"ArrayEnd", "StructEnd"} =>
              Nesting(Append(it, e), Len(it) + 1) = Nesting(it, Len(it)) - 1
         /\ e.state = "Value" => Nesting(Append(it, e), Len(it) + 1) = Nesting(it, Len(it))
<1> DEFINE u == Append(it, e)
           n == Len(it)
<1>1. n \in Nat /\ u[n + 1] = e /\ \A j \in 1..n : u[j] = it[j]
  BY LenProperties, AppendProperties
<1> HIDE DEF u, n
<1>2. Nesting(u, n) = Nesting(it, n) /\ Nesting(it, n) \in Int
  BY <1>1, NestingSame, NestingType
<1>3. Nesting(u, n + 1) = CASE e.state \in Begins -> Nesting(u, n) + 1
                            [] e.state \in {"ArrayEnd", "StructEnd"} -> Nesting(u, n) - 1
                            [] OTHER -> Nesting(u, n)
  BY <1>1, NestingNext
<1>4. /\ e.state \in Begins => e.state \notin {"ArrayEnd", "StructEnd"}
      /\ e.state = "Value" => e.state \notin Begins /\ e.state \notin {"ArrayEnd", "StructEnd"}
  BY DEF Begins
<1> QED BY <1>2, <1>3, <1>4 DEF u, n

\* A container begins in the place of a field or of an element.
LEMMA ShapeBegin ==
  ASSUME NEW s, NEW t, NEW a, NEW b, NEW f, NEW it \in Seq(ItemType), NEW e \in ItemType,
         NEW n \in Nat \ {0}, Len(s) = n, Shape(s, f, it), Replaced(s, t, a, b),
         \/ /\ s[n].kind = "field" /\ a.kind = "arrayEnd" /\ b.kind = "array" /\ a.count = b.count
            /\ e.state = "ArrayBegin" /\ a.count = e.count /\ b.arrayIndex = 0
         \/ /\ s[n].kind \in {"field", "element"} /\ a.kind = "structEnd" /\ b.kind = "fields"
            /\ e.state = "StructBegin",
         \A p \in 1..n : s[p].arrayIndex \in Int
  PROVE  Shape(t, Append(f, e.state), Append(it, e))
<1>1. /\ Len(t) = n + 1 /\ Len(t) \in Nat /\ \A q \in 1 .. n - 1 : t[q] = s[q]
      /\ t[n] = a /\ t[n + 1] = b
  BY DEF Replaced
<1>2. ~ IsEnd(s[n]) /\ IsEnd(a) /\ ~ IsEnd(b) /\ Becomes(s[n], a, b) /\ Ends[a.kind] = e.state
  BY DEF IsEnd, Becomes, Ends
<1>3. Grammar(t) /\ Grammar(s) /\ FramesMatch(s, f)
  BY <1>2, GrammarReplaced DEF Shape
<1>4. /\ FramesMatch(t, Append(f, e.state)) /\ Len(f) \in Nat
      /\ Len(Append(f, e.state)) = Len(f) + 1 /\ E(t, n) = Len(f) + 1
  <2>1. /\ FramesMatch(t, Append(f, Ends[a.kind]))
        /\ Len(f) \in Nat /\ Len(Append(f, Ends[a.kind])) = Len(f) + 1
        /\ E(t, Len(s)) = Len(f) + 1
    BY <1>2, <1>3, FramesBegin
  <2> QED BY <1>2, <2>1
<1>5. Len(f) = E(s, n) /\ E(t, Len(t)) = Len(f) + 1 /\ E(s, n) \in Nat /\ E(t, Len(t)) \in Nat
  BY <1>3, <1>4 DEF FramesMatch
<1>6. Nesting(Append(it, e), Len(it) + 1) = E(t, Len(t))
  <2>1. e.state \in Begins
    BY DEF Begins
  <2>2. Nesting(it, Len(it)) = E(s, n)
    BY DEF Shape, ItemsMatch
  <2> QED BY <1>5, <2>1, <2>2, NestingAppend
<1>7. e.state \in Inner
  BY DEF Inner
<1>8. ASSUME NEW p \in 1..n, s[p].kind = "arrayEnd"
      PROVE  /\ p \in 1..Len(t) /\ t[p] = s[p] /\ E(t, p) = E(s, p) /\ E(t, Len(t)) >= E(t, p)
             /\ Progress(t, p) = IF E(s, n) = E(s, p) /\ e.state \in Inner
                                 THEN Progress(s, p) + 1 ELSE Progress(s, p)
  <2>1. p # n /\ p # n - 1
    <3>1. p # n
      BY <1>8
    <3>2. p = n - 1 => p < n /\ p + 1 = n
      BY <3>1
    <3> QED BY <1>3, <1>8, <3>1, <3>2, OnArrayEnd
  <2>2. E(s, p) <= E(s, n) /\ E(s, p) \in Nat
    BY EndsRange
  <2>3. CASE p = n - 2
    <3>1. /\ p + 1 = n - 1 /\ p + 2 = n /\ p + 1 < n /\ p < n /\ p \in 1 .. n - 1 /\ p \in 0 .. n - 1
          /\ n - 1 \in 1 .. n - 1 /\ n - 1 \in 1..n /\ p # n + 1 /\ n <= n + 1 /\ p \in 1 .. n + 1 /\ p # n
          /\ n \in 1..n /\ n \in Nat \ {0} /\ n - 1 \in Nat \ {0} /\ (n - 1) - 1 = p
      BY <2>3
    <3>2. s[n].kind = "element" /\ s[n - 1].kind = "array"
      BY <1>2, <1>3, <1>8, <3>1, OnArrayEnd DEF IsEnd
    <3>9. E(t, p) = E(s, p)
      <4>1. Len(s) \in Nat \ {0} /\ (\A q \in 1 .. Len(s) - 1 : t[q] = s[q]) /\ p \in 0 .. Len(s) - 1
        BY <1>1, <3>1
      <4> QED BY <4>1, EndsBelow
    <3>3. t[p] = s[p] /\ E(t, p) = E(s, p) /\ t[n - 1] = s[n - 1]
      BY <1>1, <3>1, <3>9
    <3>4. E(s, n) = E(s, n - 1) /\ E(s, n - 1) = E(s, (n - 1) - 1)
      BY <3>1, <3>2, EndsTop DEF IsEnd
    <3>5. Progress(s, p) = s[n - 1].arrayIndex - 1
      BY <3>1, <3>2 DEF Progress
    <3>6. t[p + 2].kind # "element"
      BY <1>1, <1>2, <3>1 DEF IsEnd
    <3>7. Progress(t, p) = s[n - 1].arrayIndex
      BY <1>1, <3>1, <3>3, <3>6 DEF Progress
    <3>8. s[n - 1].arrayIndex \in Int
      BY <3>1
    <3> QED BY <1>1, <1>5, <1>7, <2>2, <3>1, <3>3, <3>4, <3>5, <3>7, <3>8
  <2>4. CASE p + 2 <= n - 1
    <3>1. Len(t) >= n - 1
      BY <1>1
    <3>2. p \in 1..Len(t) /\ t[p] = s[p] /\ E(t, p) = E(s, p) /\ Progress(t, p) = Progress(s, p)
      BY <1>1, <2>4, <3>1, ProgressBelow
    <3>3. E(s, p) < E(s, n)
      BY <1>3, <2>4, OuterArray
    <3> QED BY <1>5, <2>2, <3>2, <3>3
  <2> QED BY <1>3, <1>8, <2>1, <2>3, <2>4, OnArrayEnd
<1>9. ASSUME e.state = "ArrayBegin"
      PROVE  \E p \in 1..Len(t) : /\ t[p].kind = "arrayEnd" /\ t[p].count = e.count
                                  /\ E(t, p) = E(t, Len(t)) /\ Progress(t, p) = 0
  <2>1. n \in 1..Len(t) /\ n # Len(t) /\ ~ (n + 2 <= Len(t))
    BY <1>1
  <2>2. t[n].kind = "arrayEnd" /\ t[n].count = e.count /\ t[n + 1].arrayIndex = 0
    BY <1>1, <1>9
  <2>3. Progress(t, n) = 0
    BY <2>1, <2>2 DEF Progress
  <2> QED BY <1>4, <1>5, <2>1, <2>2, <2>3
<1>10. ItemsMatch(s, it)
  BY DEF Shape
<1>11. ItemsMatch(t, Append(it, e))
  BY <1>5, <1>6, <1>8, <1>9, <1>10, ItemsEmit
<1> QED BY <1>3, <1>4, <1>11 DEF Shape

\* A value in the place of a field or of an element.
LEMMA ShapeValue ==
  ASSUME NEW s, NEW t, NEW f, NEW it \in Seq(ItemType), NEW e \in ItemType,
         NEW n \in Nat \ {0}, Len(s) = n, Shape(s, f, it), Popped(s, t),
         s[n].kind \in {"field", "element"}, e.state = "Value",
         \A p \in 1..n : s[p].arrayIndex \in Int
  PROVE  Shape(t, f, Append(it, e))
<1>1. Len(t) = n - 1 /\ Len(t) \in Nat /\ \A q \in 1 .. n - 1 : t[q] = s[q]
  BY DEF Popped
<1>2. ~ IsEnd(s[n])
  BY DEF IsEnd
<1>3. Grammar(t) /\ FramesMatch(t, f) /\ Grammar(s) /\ FramesMatch(s, f)
  BY <1>2, GrammarPopped, FramesPop DEF Shape
<1>5. E(t, Len(t)) = E(s, n) /\ E(s, n) \in Nat /\ E(t, Len(t)) \in Nat
  BY <1>1, <1>3, EndsFinite DEF FramesMatch
<1>6. Nesting(Append(it, e), Len(it) + 1) = E(t, Len(t))
  <2>1. Nesting(it, Len(it)) = E(s, n)
    BY DEF Shape, ItemsMatch
  <2> QED BY <1>5, <2>1, NestingAppend
<1>7. e.state \in Inner /\ e.state # "ArrayBegin"
  BY DEF Inner
<1>8. ASSUME NEW p \in 1..n, s[p].kind = "arrayEnd"
      PROVE  /\ p \in 1..Len(t) /\ t[p] = s[p] /\ E(t, p) = E(s, p) /\ E(t, Len(t)) >= E(t, p)
             /\ Progress(t, p) = IF E(s, n) = E(s, p) /\ e.state \in Inner
                                 THEN Progress(s, p) + 1 ELSE Progress(s, p)
  <2>1. p # n /\ p # n - 1
    <3>1. p # n
      BY <1>8
    <3>2. p = n - 1 => p < n /\ p + 1 = n
      BY <3>1
    <3> QED BY <1>3, <1>8, <3>1, <3>2, OnArrayEnd
  <2>2. E(s, p) <= E(s, n) /\ E(s, p) \in Nat
    BY EndsRange
  <2>3. CASE p = n - 2
    <3>1. /\ p + 1 = n - 1 /\ p + 2 = n /\ p + 1 < n /\ p < n /\ p \in 1 .. n - 1 /\ p \in 0 .. n - 1
          /\ n - 1 \in 1 .. n - 1 /\ n - 1 \in 1..n /\ p # n - 1 /\ ~ (n <= n - 1) /\ n <= n /\ p # n
          /\ n \in Nat \ {0} /\ n - 1 \in Nat \ {0} /\ (n - 1) - 1 = p
      BY <2>3
    <3>2. s[n].kind = "element" /\ s[n - 1].kind = "array"
      BY <1>2, <1>3, <1>8, <3>1, OnArrayEnd DEF IsEnd
    <3>9. E(t, p) = E(s, p)
      <4>1. Len(s) \in Nat \ {0} /\ (\A q \in 1 .. Len(s) - 1 : t[q] = s[q]) /\ p \in 0 .. Len(s) - 1
        BY <1>1, <3>1
      <4> QED BY <4>1, EndsBelow
    <3>3. t[p] = s[p] /\ E(t, p) = E(s, p) /\ t[n - 1] = s[n - 1]
      BY <1>1, <3>1, <3>9
    <3>4. E(s, n) = E(s, n - 1) /\ E(s, n - 1) = E(s, (n - 1) - 1)
      BY <3>1, <3>2, EndsTop DEF IsEnd
    <3>5. Progress(s, p) = s[n - 1].arrayIndex - 1
      BY <3>1, <3>2 DEF Progress
    <3>7. Progress(t, p) = s[n - 1].arrayIndex
      BY <1>1, <3>1, <3>3 DEF Progress
    <3>8. s[n - 1].arrayIndex \in Int
      BY <3>1
    <3> QED BY <1>1, <1>5, <1>7, <2>2, <3>1, <3>3, <3>4, <3>5, <3>7, <3>8
  <2>4. CASE p + 2 <= n - 1
    <3>1. Len(t) >= n - 1
      BY <1>1
    <3>2. p \in 1..Len(t) /\ t[p] = s[p] /\ E(t, p) = E(s, p) /\ Progress(t, p) = Progress(s, p)
      BY <1>1, <2>4, <3>1, ProgressBelow
    <3>3. E(s, p) < E(s, n)
      BY <1>3, <2>4, OuterArray
    <3> QED BY <1>5, <2>2, <3>2, <3>3
  <2> QED BY <1>3, <1>8, <2>1, <2>3, <2>4, OnArrayEnd
<1>10. ItemsMatch(s, it)
  BY DEF Shape
<1>11. ItemsMatch(t, Append(it, e))
  BY <1>5, <1>6, <1>7, <1>8, <1>10, ItemsEmit
<1> QED BY <1>3, <1>11 DEF Shape

\* The end of a container.
LEMMA ShapeEnd ==
  ASSUME NEW s, NEW t, NEW f, NEW it \in Seq(ItemType), NEW e \in ItemType,
         NEW n \in Nat \ {0}, Len(s) = n, Shape(s, f, it), Popped(s, t),
         \/ s[n].kind = "arrayEnd" /\ e.state = "ArrayEnd"
         \/ s[n].kind = "structEnd" /\ e.state = "StructEnd"
  PROVE  Shape(t, Front(f), Append(it, e))
<1>1. Len(t) = n - 1 /\ Len(t) \in Nat /\ \A q \in 1 .. n - 1 : t[q] = s[q]
  BY DEF Popped
<1>2. IsEnd(s[n])
  BY DEF IsEnd
<1>3. Grammar(t) /\ FramesMatch(t, Front(f)) /\ Grammar(s) /\ FramesMatch(s, f)
  BY <1>2, GrammarPopped, FramesEnd DEF Shape
<1>4. E(s, n) = E(s, n - 1) + 1 /\ E(s, n) \in Nat /\ E(s, n - 1) \in Nat
  BY <1>2, EndsTop
<1>5. E(t, Len(t)) = E(s, n - 1) /\ E(t, Len(t)) = E(s, n) - 1 /\ E(t, Len(t)) \in Nat
  <2>1. n - 1 \in 0 .. n - 1
    OBVIOUS
  <2>2. E(t, n - 1) = E(s, n - 1)
    BY <1>1, <2>1, EndsBelow
  <2> QED BY <1>1, <1>4, <2>2
<1>6. Nesting(Append(it, e), Len(it) + 1) = E(t, Len(t))
  <2>1. Nesting(it, Len(it)) = E(s, n)
    BY DEF Shape, ItemsMatch
  <2> QED BY <1>5, <2>1, NestingAppend
<1>7. e.state \notin Inner /\ e.state # "ArrayBegin"
  BY DEF Inner
<1>8. ASSUME NEW p \in 1..n, s[p].kind = "arrayEnd", p # n
      PROVE  /\ p \in 1..Len(t) /\ t[p] = s[p] /\ E(t, p) = E(s, p) /\ E(t, Len(t)) >= E(t, p)
             /\ Progress(t, p) = Progress(s, p)
  <2>1. p # n - 1
    <3>1. p = n - 1 => p < n /\ p + 1 = n
      BY <1>8
    <3> QED BY <1>2, <1>3, <1>8, <3>1, OnArrayEnd DEF IsEnd
  <2>2. E(s, p) <= E(s, n - 1) /\ E(s, p) \in Nat
    <3>1. p \in 1 .. n - 1 /\ n - 1 \in Nat
      BY <1>8
    <3> QED BY <3>1, EndsRange
  <2>3. CASE p = n - 2
    <3>1. /\ p + 1 = n - 1 /\ p + 2 = n /\ p \in 1 .. n - 1 /\ p \in 0 .. n - 1 /\ n - 1 \in 1 .. n - 1
          /\ p # n - 1 /\ ~ (n <= n - 1) /\ p # n
      BY <2>3
    <3>2. t[p] = s[p] /\ E(t, p) = E(s, p) /\ t[n - 1] = s[n - 1]
      BY <1>1, <3>1, EndsBelow
    <3>3. s[n].kind # "element"
      OBVIOUS
    <3>4. Progress(s, p) = s[n - 1].arrayIndex
      BY <3>1, <3>3 DEF Progress
    <3>5. Progress(t, p) = s[n - 1].arrayIndex
      BY <1>1, <3>1, <3>2 DEF Progress
    <3> QED BY <1>1, <1>5, <2>2, <3>1, <3>2, <3>4, <3>5
  <2>4. CASE p + 2 <= n - 1
    <3>1. Len(t) >= n - 1
      BY <1>1
    <3>2. p \in 1..Len(t) /\ t[p] = s[p] /\ E(t, p) = E(s, p) /\ Progress(t, p) = Progress(s, p)
      BY <1>1, <2>4, <3>1, ProgressBelow
    <3> QED BY <1>5, <2>2, <3>2
  <2> QED BY <1>3, <1>8, <2>1, <2>3, <2>4, OnArrayEnd
<1>9. s[n].kind = "arrayEnd" =>
        e.state = "ArrayEnd" /\ E(t, Len(t)) < E(s, n) /\ Progress(s, n) = s[n].count
  BY <1>4, <1>5 DEF Progress
<1>10. ItemsMatch(s, it)
  BY DEF Shape
<1>11. ItemsMatch(t, Append(it, e))
  BY <1>4, <1>5, <1>6, <1>7, <1>8, <1>9, <1>10, ItemsEmit
<1> QED BY <1>3, <1>11 DEF Shape

LEMMA ShapeEmpty == Shape(<<>>, <<>>, <<>>)
<1>1. E(<<>>, 0) = 0
  BY EndsZero
<1>2. Nesting(<<>>, 0) = 0
  <2>1. \A S : {j \in 1..0 : <<>>[j].state \in S} = {}
    OBVIOUS
  <2>2. \A S : Count(<<>>, 0, S) = 0
    BY <2>1, FS_EmptySet DEF Count
  <2> QED BY <2>2 DEF Nesting
<1>3. Len(<<>>) = 0 /\ 1..0 = {} /\ <<>> \in Seq(Begins)
  OBVIOUS
<1>4. Grammar(<<>>) /\ FramesMatch(<<>>, <<>>)
  BY <1>1, <1>3 DEF Grammar, FramesMatch
<1>5. ItemsMatch(<<>>, <<>>)
  BY <1>1, <1>2, <1>3 DEF ItemsMatch
<1> QED BY <1>4, <1>5 DEF Shape

LEMMA ShapeStart ==
  ASSUME NEW u, u.kind = "fields"
  PROVE  Shape(<<u>>, <<>>, <<>>)
<1> DEFINE s == <<u>>
<1>1. Len(s) = 1 /\ s[1] = u /\ 1 \in Nat \ {0} /\ 1 - 1 = 0
  OBVIOUS
<1> HIDE DEF s
<1>2. ~ IsEnd(u)
  BY DEF IsEnd
<1>3. E(s, 1) = 0
  <2>1. E(s, 1) = E(s, 1 - 1)
    BY <1>1, <1>2, EndsTop
  <2> QED BY <1>1, <2>1, EndsZero
<1>4. \A p \in 1..Len(s) : p = 1
  BY <1>1
<1>5. Grammar(s)
  BY <1>1, <1>4 DEF Grammar, Follows, TaskKinds
<1>6. FramesMatch(s, <<>>) /\ ItemsMatch(s, <<>>)
  <2>1. FramesMatch(<<>>, <<>>) /\ ItemsMatch(<<>>, <<>>) /\ E(<<>>, 0) = 0 /\ Len(<<>>) = 0
    BY ShapeEmpty, EndsZero DEF Shape
  <2>2. \A i \in 1..0 : FALSE
    OBVIOUS
  <2> QED BY <1>1, <1>2, <1>3, <1>4, <2>1, <2>2 DEF FramesMatch, ItemsMatch
<1> QED BY <1>5, <1>6 DEF Shape, s

LEMMA ShapeTurned ==
  ASSUME Typed, TypedEvent, Turned, Shape(stack, frames, items)
  PROVE  Shape(stack', frames', items')
<1>0. stack # <<>>
  BY DEF Turned, FieldsDone, ArrayDone, FieldTaken, ElementTaken, ArrayBegun, StructBegun,
         ValueRead, ArrayEnded, StructEnded, Turn
<1> DEFINE n == Len(stack)
<1>1. /\ n \in Nat \ {0} /\ Len(stack) = n /\ Top = stack[n] /\ items \in Seq(ItemType)
      /\ Top.arrayIndex \in Int
  BY <1>0, TopTask DEF Typed
<1>2. \A p \in 1..n : stack[p].arrayIndex \in Int
  <2> TAKE p \in 1..n
  <2>1. stack[p] \in TaskOf(Fields) /\ Fields \in Nat
    BY ElementOfSeq, EventFacts DEF TypedEvent
  <2> QED BY <2>1, TaskFields
<1> HIDE DEF n
<1>3. CASE FieldsDone
  <2>1. Popped(stack, stack') /\ frames' = frames /\ items' = items /\ stack[n].kind = "fields"
    BY <1>1, <1>3 DEF FieldsDone, Pop, Silent, Turn
  <2>2. Shape(stack', frames, items)
    BY <1>1, <2>1, ShapePop
  <2> QED BY <2>1, <2>2
<1>4. CASE ArrayDone
  <2>1. /\ Popped(stack, stack') /\ frames' = frames /\ items' = items /\ stack[n].kind = "array"
        /\ stack[n].arrayIndex = stack[n].count
    BY <1>1, <1>4 DEF ArrayDone, Pop, Silent, Turn
  <2>2. Shape(stack', frames, items)
    BY <1>1, <2>1, ShapePop
  <2> QED BY <2>1, <2>2
<1>5. ASSUME NEW a, NEW b, FieldTaken(a, b)
      PROVE  Shape(stack', frames', items')
  <2>1. /\ Replaced(stack, stack', a, b) /\ frames' = frames /\ items' = items
        /\ stack[n].kind = "fields" /\ a.kind = "fields" /\ b.kind = "field"
    BY <1>1, <1>5 DEF FieldTaken, Swap, Silent, Turn
  <2>2. Shape(stack', frames, items)
    BY <1>1, <2>1, ShapeTake
  <2> QED BY <2>1, <2>2
<1>6. ASSUME NEW a, NEW b, ElementTaken(a, b)
      PROVE  Shape(stack', frames', items')
  <2>1. /\ Replaced(stack, stack', a, b) /\ frames' = frames /\ items' = items
        /\ stack[n].kind = "array" /\ a.kind = "array" /\ b.kind = "element" /\ a.count = stack[n].count
        /\ stack[n].arrayIndex \in Int /\ a.arrayIndex = stack[n].arrayIndex + 1
    BY <1>1, <1>6 DEF ElementTaken, Swap, Silent, Turn
  <2>2. Shape(stack', frames, items)
    BY <1>1, <2>1, ShapeTake
  <2> QED BY <2>1, <2>2
<1>7. ASSUME NEW a, NEW b, NEW e, ArrayBegun(a, b, e)
      PROVE  Shape(stack', frames', items')
  <2>1. /\ Replaced(stack, stack', a, b) /\ frames' = Append(frames, e.state) /\ items' = Append(items, e)
        /\ stack[n].kind = "field" /\ a.kind = "arrayEnd" /\ b.kind = "array" /\ a.count = b.count
        /\ e.state = "ArrayBegin" /\ a.count = e.count /\ b.arrayIndex = 0 /\ e \in ItemType
    BY <1>1, <1>7 DEF ArrayBegun, Swap, Emits, Turn
  <2>2. Shape(stack', Append(frames, e.state), Append(items, e))
    BY <1>1, <1>2, <2>1, ShapeBegin
  <2> QED BY <2>1, <2>2
<1>8. ASSUME NEW a, NEW b, NEW e, StructBegun(a, b, e)
      PROVE  Shape(stack', frames', items')
  <2>1. /\ Replaced(stack, stack', a, b) /\ frames' = Append(frames, e.state) /\ items' = Append(items, e)
        /\ stack[n].kind \in {"field", "element"} /\ a.kind = "structEnd" /\ b.kind = "fields"
        /\ e.state = "StructBegin" /\ e \in ItemType
    BY <1>1, <1>8 DEF StructBegun, Swap, Emits, Turn
  <2>2. Shape(stack', Append(frames, e.state), Append(items, e))
    BY <1>1, <1>2, <2>1, ShapeBegin
  <2> QED BY <2>1, <2>2
<1>9. ASSUME NEW e, ValueRead(e)
      PROVE  Shape(stack', frames', items')
  <2>1. /\ Popped(stack, stack') /\ frames' = frames /\ items' = Append(items, e)
        /\ stack[n].kind \in {"field", "element"} /\ e.state = "Value" /\ e \in ItemType
    BY <1>1, <1>9 DEF ValueRead, Pop, Emits, Turn
  <2>2. Shape(stack', frames, Append(items, e))
    BY <1>1, <1>2, <2>1, ShapeValue
  <2> QED BY <2>1, <2>2
<1>10. ASSUME NEW e, ArrayEnded(e) \/ StructEnded(e)
       PROVE  Shape(stack', frames', items')
  <2>1. /\ Popped(stack, stack') /\ frames' = Front(frames) /\ items' = Append(items, e) /\ e \in ItemType
        /\ \/ stack[n].kind = "arrayEnd" /\ e.state = "ArrayEnd"
           \/ stack[n].kind = "structEnd" /\ e.state = "StructEnd"
    BY <1>1, <1>10 DEF ArrayEnded, StructEnded, Pop, Emits, Turn
  <2>2. Shape(stack', Front(frames), Append(items, e))
    BY <1>1, <2>1, ShapeEnd
  <2> QED BY <2>1, <2>2
<1> QED BY <1>3, <1>4, <1>5, <1>6, <1>7, <1>8, <1>9, <1>10 DEF Turned

-----------------------------------------------------------------------------
(* Depth: how many structs a field is in, by the way parse found it *)

Ranking == [Nat -> Nat]

DefDepth(P, d) ==
  /\ P[d] <= MaxDepth
  /\ data.metadata[d].encoding = "struct" => P[d] + 1 <= MaxDepth

KidsDepth(P) ==
  \A a \in 0..Fields : \A i \in 1..Len(kids[a]) :
    /\ kids[a][i] \in 1..parsed /\ a <= parsed
    /\ P[kids[a][i]] = IF a = 0 THEN 0 ELSE P[a] + 1
    /\ DefDepth(P, kids[a][i])

\* The k-th open struct is k - 2 structs deep; the first is the event.
OpenDepth(P) ==
  /\ pstack # <<>> => pstack[1].at = 0
  /\ \A k \in 2..Len(pstack) : pstack[k].at \in 1..parsed /\ P[pstack[k].at] = k - 2 /\ k - 1 <= MaxDepth

\* Ends up to a task of a field at most: its structs, their arrays and its own.
TaskDepth(P, u, ends) ==
  /\ u.kind = "fields" => \A i \in 1..Len(u.fields) : DefDepth(P, u.fields[i]) /\ ends <= 2 * P[u.fields[i]]
  /\ u.kind # "fields" => DefDepth(P, u.def)
  /\ u.kind = "field" => ends <= 2 * P[u.def]
  /\ u.kind \in {"arrayEnd", "array", "element"} => ends <= 2 * P[u.def] + 1
  /\ u.kind = "structEnd" => ends <= 2 * P[u.def] + 2 /\ P[u.def] + 1 <= MaxDepth

StackDepth(P, s) == \A p \in 1..Len(s) : TaskDepth(P, s[p], E(s, p))

Depth(P) == KidsDepth(P) /\ OpenDepth(P) /\ StackDepth(P, stack)

ParseOpen ==
  dstate = "parsing" /\ parsed < Fields =>
    pstack # <<>> /\ pstack[1].left >= Fields - parsed

LEMMA KidAppended ==
  ASSUME NEW M, NEW s \in Seq(1..M), NEW d \in 1..M
  PROVE  /\ Len(Append(s, d)) = Len(s) + 1 /\ Append(s, d)[Len(s) + 1] = d
         /\ \A j \in 1..Len(s) : Append(s, d)[j] = s[j]
<1> DEFINE S == 1..M
<1>1. s \in Seq(S) /\ d \in S
  OBVIOUS
<1> HIDE DEF S
<1> QED BY <1>1, AppendProperties

LEMMA DepthParsedField ==
  ASSUME Typed, ParsedField, ParseOpen, NEW P \in Ranking, Depth(P)
  PROVE  ParseOpen' /\ \E Q \in Ranking : Depth(Q)'
<1>0. TypedEvent /\ parsed < Fields /\ pstack # <<>> /\ stack = <<>> /\ pstack[1].left >= Fields - parsed
  BY DEF Typed, ParsedField, ParseOpen
<1> DEFINE n == Len(pstack)
           at == parsed + 1
           T == [at : 0..Fields, left : Int]
<1>1. /\ Fields \in Nat /\ parsed \in Nat /\ at \in 1..Fields /\ at \in Nat /\ at = parsed + 1
      /\ Fields' = Fields /\ n \in Nat \ {0} /\ n \in 1..n
  <2>1. Fields \in Nat /\ parsed \in 0..Fields /\ pstack \in Seq(T) /\ Fields' = Fields
    BY <1>0, EventFacts DEF TypedEvent, ParsedField, Fields
  <2>2. n \in Nat \ {0}
    BY <1>0, <2>1, TopOf
  <2> QED BY <1>0, <2>1, <2>2
<1>12. pstack \in Seq(T)
  BY <1>0 DEF TypedEvent
<1>2. pstack' = Open(Structs) /\ parsed' = at /\ stack' = stack /\ data' = data
  BY DEF ParsedField
<1>3. /\ Structs \in Seq(T)
      /\ \A i \in 1 .. n - 1 : Structs[i] = pstack[i]
      /\ Structs[n].at = pstack[n].at
      /\ Structs[n].left = pstack[n].left - 1
      /\ \/ Len(Structs) = n
         \/ /\ Len(Structs) = n + 1 /\ data.metadata[at].encoding = "struct"
            /\ Structs[n + 1].at = at
  BY <1>0, StructsAfter
<1> HIDE DEF T
<1>4. /\ pstack' \in Seq(T) /\ Len(pstack') <= Len(Structs)
      /\ \A i \in 1..Len(pstack') : pstack'[i] = Structs[i]
      /\ Structs # <<>> /\ Structs[1].left > 0 => pstack' # <<>>
  BY <1>1, <1>2, <1>3, OpenPrefix DEF T
<1>5. PICK Q \in Ranking : Q[at] = n - 1 /\ \A d \in 0..parsed : Q[d] = P[d]
  <2> DEFINE R == [P EXCEPT ![at] = n - 1]
  <2>1. R \in Ranking /\ R[at] = n - 1 /\ \A d \in 0..parsed : R[d] = P[d]
    BY <1>1 DEF Ranking
  <2> HIDE DEF R
  <2> QED BY <2>1
<1> HIDE DEF n, at
<1>13. /\ \A x \in 1..parsed : x \in 0..parsed /\ x \in 1..at
       /\ \A x \in 0..parsed : x <= at
       /\ at \in 1..at
  BY <1>1
<1>6. KidsDepth(P) /\ OpenDepth(P)
  BY DEF Depth
<1>7. \A i \in 1..n : pstack[i].left \in Int
  <2>1. \A i \in 1..n : pstack[i] \in T
    BY <1>12, ElementOfSeq DEF n
  <2>2. \A u \in T : u.left \in Int
    BY DEF T
  <2> QED BY <2>1, <2>2
<1>8. ParseOpen'
  <2> SUFFICES ASSUME at < Fields PROVE pstack' # <<>> /\ pstack'[1].left >= Fields - at
    BY <1>1, <1>2 DEF ParseOpen
  <2>1. Structs[1].left \in Int /\ Structs[1].left >= pstack[1].left - 1 /\ pstack[1].left \in Int
    <3>1. CASE n = 1
      <4>1. Structs[n].left = pstack[n].left - 1 /\ pstack[n].left \in Int
        BY <1>1, <1>3, <1>7
      <4>2. Structs[1].left = pstack[1].left - 1 /\ pstack[1].left \in Int
        BY <3>1, <4>1
      <4> QED BY <4>2
    <3>2. CASE n # 1
      <4>1. 1 \in 1 .. n - 1 /\ 1 \in 1..n
        BY <1>1, <3>2
      <4>2. pstack[1].left \in Int /\ Structs[1] = pstack[1]
        BY <1>3, <1>7, <4>1
      <4> QED BY <4>2
    <3> QED BY <3>1, <3>2
  <2>2. Structs[1].left >= Fields - at /\ Structs[1].left > 0
    <3> DEFINE x == Structs[1].left
               y == pstack[1].left
    <3>1. x \in Int /\ y \in Int /\ x >= y - 1 /\ y >= Fields - parsed
      BY <1>0, <2>1
    <3> HIDE DEF x, y
    <3>2. x >= Fields - at /\ x > 0
      BY <1>1, <3>1
    <3> QED BY <3>2 DEF x
  <2>3. Structs # <<>>
    BY <1>1, <1>3
  <2>4. pstack' # <<>>
    BY <1>4, <2>2, <2>3
  <2>5. 1 \in 1..Len(pstack')
    BY <1>4, <2>4
  <2> QED BY <1>4, <2>2, <2>4, <2>5
<1>9. OpenDepth(Q)'
  <2>1. pstack' # <<>> => pstack'[1].at = 0
    <3> SUFFICES ASSUME pstack' # <<>> PROVE pstack'[1].at = 0
      OBVIOUS
    <3>1. 1 \in 1..Len(pstack')
      BY <1>4
    <3>2. Structs[1].at = pstack[1].at
      <4>1. n = 1 \/ 1 \in 1 .. n - 1
        BY <1>1
      <4> QED BY <1>3, <4>1
    <3> QED BY <1>0, <1>4, <1>6, <3>1, <3>2 DEF OpenDepth
  <2>2. ASSUME NEW k \in 2..Len(pstack')
        PROVE  pstack'[k].at \in 1..at /\ Q[pstack'[k].at] = k - 2 /\ k - 1 <= MaxDepth
    <3>1. Len(pstack') \in Nat /\ Len(Structs) \in Nat
      BY <1>3, <1>4, LenProperties
    <3>2. k \in 1..Len(pstack') /\ pstack'[k] = Structs[k] /\ k \in 2..Len(Structs)
      <4>1. Len(pstack') <= Len(Structs)
        BY <1>4
      <4>2. k \in 1..Len(pstack') /\ k \in 2..Len(Structs)
        BY <3>1, <4>1
      <4> QED BY <1>4, <4>2
    <3>3. CASE k \in 2..n
      <4>1. Structs[k].at = pstack[k].at
        <5>1. k = n \/ k \in 1 .. n - 1
          BY <1>1, <3>3
        <5> QED BY <1>3, <5>1
      <4>2. pstack[k].at \in 1..parsed /\ P[pstack[k].at] = k - 2 /\ k - 1 <= MaxDepth
        BY <1>6, <3>3 DEF OpenDepth, n
      <4>3. pstack[k].at \in 0..parsed /\ pstack[k].at \in 1..at
        BY <1>13, <4>2
      <4> QED BY <1>5, <3>2, <4>1, <4>2, <4>3
    <3>4. CASE k \notin 2..n
      <4>0. Len(Structs) = n \/ Len(Structs) = n + 1
        BY <1>3
      <4>1. k = n + 1 /\ Len(Structs) = n + 1
        <5>1. CASE Len(Structs) = n
          BY <3>2, <3>4, <5>1
        <5>2. CASE Len(Structs) = n + 1
          <6>1. k \in 2 .. n + 1
            BY <3>2, <5>2
          <6>2. k = n + 1
            BY <1>1, <3>4, <6>1
          <6> QED BY <5>2, <6>2
        <5> QED BY <4>0, <5>1, <5>2
      <4>2. data.metadata[at].encoding = "struct" /\ Structs[n + 1].at = at
        <5>1. Len(Structs) # n
          BY <1>1, <4>1
        <5> QED BY <1>3, <5>1
      <4>3. n - 1 + 1 <= MaxDepth
        BY <4>2 DEF ParsedField, n, at
      <4>4. n - 1 = k - 2 /\ k - 1 <= MaxDepth /\ at \in 1..at
        BY <1>1, <1>13, <4>1, <4>3
      <4> QED BY <1>5, <3>2, <4>1, <4>2, <4>4
    <3> QED BY <3>3, <3>4
  <2>3. \A k \in 2..Len(pstack') : pstack'[k].at \in 1..parsed' /\ Q[pstack'[k].at] = k - 2 /\ k - 1 <= MaxDepth
    BY <1>2, <2>2
  <2> QED BY <2>1, <2>3 DEF OpenDepth
<1>10. KidsDepth(Q)'
  <2> DEFINE top == Last(pstack).at
  <2>1. /\ top \in 0..Fields /\ top = pstack[n].at
        /\ kids \in [0..Fields -> Seq(1..Fields)]
        /\ kids' = [kids EXCEPT ![top] = Append(@, at)]
    <3>1. Last(pstack) \in T /\ Last(pstack) = pstack[n]
      BY <1>0, <1>12, TopOf DEF n
    <3>2. Last(pstack).at \in 0..Fields
      BY <3>1 DEF T
    <3> QED BY <1>0, <3>1, <3>2 DEF TypedEvent, ParsedField, at
  <2>2. /\ top \in 0..parsed /\ n - 1 = IF top = 0 THEN 0 ELSE P[top] + 1
        /\ n - 1 \in Nat /\ n - 1 <= MaxDepth
        /\ data.metadata[at].encoding = "struct" => n - 1 + 1 <= MaxDepth
    <3>1. CASE n = 1
      <4>1. top = 0
        BY <1>0, <1>6, <2>1, <3>1 DEF OpenDepth
      <4>2. data.metadata[at].encoding = "struct" => n - 1 + 1 <= MaxDepth
        BY DEF ParsedField, n, at
      <4>3. 0 \in 0..parsed /\ n - 1 = 0 /\ 0 <= MaxDepth
        BY <1>1, <3>1, LimitsAssumption
      <4> QED BY <4>1, <4>2, <4>3
    <3>2. CASE n # 1
      <4>1. n \in 2..n
        BY <1>1, <3>2
      <4>2. top \in 1..parsed /\ P[top] = n - 2 /\ n - 1 <= MaxDepth
        BY <1>6, <2>1, <4>1 DEF OpenDepth, n
      <4>3. data.metadata[at].encoding = "struct" => n - 1 + 1 <= MaxDepth
        BY DEF ParsedField, n, at
      <4>4. top \in 0..parsed /\ top # 0 /\ n - 1 = (n - 2) + 1 /\ n - 1 \in Nat
        BY <1>1, <1>13, <4>2
      <4> QED BY <4>2, <4>3, <4>4
    <3> QED BY <3>1, <3>2
  <2> HIDE DEF top
  <2>3. ASSUME NEW a \in 0..Fields, NEW i \in 1..Len(kids'[a])
        PROVE  /\ kids'[a][i] \in 1..at /\ a <= at
               /\ Q[kids'[a][i]] = IF a = 0 THEN 0 ELSE Q[a] + 1
               /\ Q[kids'[a][i]] <= MaxDepth
               /\ data.metadata[kids'[a][i]].encoding = "struct" => Q[kids'[a][i]] + 1 <= MaxDepth
    <3>1. kids[a] \in Seq(1..Fields) /\ Len(kids[a]) \in Nat
      <4>1. kids[a] \in Seq(1..Fields)
        BY <2>1
      <4> QED BY <4>1, LenProperties
    <3>2. CASE i \in 1..Len(kids[a]) /\ kids'[a][i] = kids[a][i]
      <4> DEFINE c == kids[a][i]
      <4>1. /\ c \in 1..parsed /\ a <= parsed /\ P[c] = (IF a = 0 THEN 0 ELSE P[a] + 1)
            /\ P[c] <= MaxDepth /\ (data.metadata[c].encoding = "struct" => P[c] + 1 <= MaxDepth)
        BY <1>6, <3>2 DEF KidsDepth, DefDepth
      <4> HIDE DEF c
      <4>2. c \in 0..parsed /\ a \in 0..parsed /\ c \in 1..at /\ a <= at
        <5>1. c \in 0..parsed /\ c \in 1..at
          BY <1>13, <4>1
        <5>2. a \in 0..parsed
          BY <1>1, <4>1
        <5> QED BY <1>13, <5>1, <5>2
      <4>3. Q[c] = P[c] /\ Q[a] = P[a]
        BY <1>5, <4>2
      <4> QED BY <3>2, <4>1, <4>2, <4>3 DEF c
    <3>3. CASE a = top /\ kids'[a][i] = at
      <4>1. Q[a] = P[a] /\ a <= at /\ at \in 1..at
        BY <1>5, <1>13, <2>2, <3>3
      <4> QED BY <1>5, <2>2, <3>3, <4>1
    <3>4. CASE a = top
      <4>1. kids'[a] = Append(kids[a], at)
        BY <2>1, <3>4
      <4>2. /\ Len(Append(kids[a], at)) = Len(kids[a]) + 1
            /\ Append(kids[a], at)[Len(kids[a]) + 1] = at
            /\ \A j \in 1..Len(kids[a]) : Append(kids[a], at)[j] = kids[a][j]
        <5> DEFINE w == kids[a]
        <5>1. at \in 1..Fields /\ w \in Seq(1..Fields)
          BY <1>1, <3>1
        <5> HIDE DEF w
        <5>2. /\ Len(Append(w, at)) = Len(w) + 1 /\ Append(w, at)[Len(w) + 1] = at
              /\ \A j \in 1..Len(w) : Append(w, at)[j] = w[j]
          BY <5>1, KidAppended
        <5> QED BY <5>2 DEF w
      <4>3. i \in 1..Len(kids[a]) \/ i = Len(kids[a]) + 1
        <5> DEFINE m == Len(kids[a])
        <5>1. m \in Nat /\ i \in 1 .. m + 1
          BY <3>1, <4>1, <4>2
        <5> HIDE DEF m
        <5>2. i \in 1..m \/ i = m + 1
          BY <5>1
        <5> QED BY <5>2 DEF m
      <4> QED BY <3>2, <3>3, <3>4, <4>1, <4>2, <4>3
    <3>5. CASE a # top
      <4>1. kids'[a] = kids[a]
        BY <2>1, <3>5
      <4> QED BY <3>2, <4>1
    <3> QED BY <3>4, <3>5
  <2>4. \A a \in 0..Fields' : \A i \in 1..Len(kids'[a]) :
          /\ kids'[a][i] \in 1..parsed' /\ a <= parsed'
          /\ Q[kids'[a][i]] = IF a = 0 THEN 0 ELSE Q[a] + 1
          /\ Q[kids'[a][i]] <= MaxDepth
          /\ data'.metadata[kids'[a][i]].encoding = "struct" => Q[kids'[a][i]] + 1 <= MaxDepth
    BY <1>1, <1>2, <2>3
  <2> QED BY <2>4 DEF KidsDepth, DefDepth
<1>11. StackDepth(Q, stack)'
  <2>1. stack' = <<>> /\ Len(stack') = 0
    BY <1>0, <1>2
  <2> QED BY <2>1 DEF StackDepth
<1> QED BY <1>5, <1>8, <1>9, <1>10, <1>11 DEF Depth

LEMMA DepthPop ==
  ASSUME NEW P, NEW s, NEW t, Len(s) \in Nat \ {0}, StackDepth(P, s), Popped(s, t)
  PROVE  StackDepth(P, t)
<1> SUFFICES ASSUME NEW p \in 1..Len(t) PROVE TaskDepth(P, t[p], E(t, p))
  BY DEF StackDepth
<1>1. /\ Len(t) = Len(s) - 1 /\ \A q \in 1 .. Len(s) - 1 : t[q] = s[q]
      /\ p \in 1..Len(s) /\ p \in 0 .. Len(s) - 1 /\ t[p] = s[p]
  BY DEF Popped
<1>2. E(t, p) = E(s, p)
  BY <1>1, EndsBelow
<1> QED BY <1>1, <1>2 DEF StackDepth

LEMMA DepthSwap ==
  ASSUME NEW P, NEW s, NEW t, NEW a, NEW b, NEW n \in Nat \ {0}, Len(s) = n, StackDepth(P, s),
         Replaced(s, t, a, b), ~ IsEnd(s[n]), ~ IsEnd(b),
         NEW k \in Nat, k = IF IsEnd(a) THEN E(s, n) + 1 ELSE E(s, n),
         TaskDepth(P, a, k), TaskDepth(P, b, k)
  PROVE  StackDepth(P, t)
<1>1. /\ Len(t) = n + 1 /\ \A q \in 1 .. n - 1 : t[q] = s[q]
      /\ t[n] = a /\ t[n + 1] = b /\ (n + 1) - 1 = n /\ n + 1 \in Nat \ {0} /\ n - 1 \in 0 .. n - 1
  BY DEF Replaced
<1>2. \A q \in 0 .. n - 1 : E(t, q) = E(s, q)
  BY <1>1, EndsBelow
<1>3. E(s, n) = E(s, n - 1) /\ E(t, n) = IF IsEnd(a) THEN E(t, n - 1) + 1 ELSE E(t, n - 1)
  BY <1>1, EndsTop
<1>4. E(t, n + 1) = E(t, (n + 1) - 1)
  BY <1>1, EndsTop
<1>5. E(t, n) = k /\ E(t, n + 1) = k
  BY <1>1, <1>2, <1>3, <1>4
<1>6. ASSUME NEW p \in 1..Len(t) PROVE TaskDepth(P, t[p], E(t, p))
  <2>1. p \in 1 .. n + 1
    BY <1>1
  <2>2. p \in 1 .. n - 1 \/ p = n \/ p = n + 1
    BY <2>1
  <2>3. CASE p \in 1 .. n - 1
    <3>1. p \in 0 .. n - 1 /\ p \in 1..n /\ t[p] = s[p]
      BY <1>1, <2>3
    <3> QED BY <1>2, <3>1 DEF StackDepth
  <2> QED BY <1>1, <1>5, <2>2, <2>3
<1> QED BY <1>6 DEF StackDepth

LEMMA DepthTurned ==
  ASSUME Typed, TypedEvent, Turned, NEW P \in Ranking, Depth(P)
  PROVE  Depth(P)'
<1>0. stack # <<>>
  BY DEF Turned, FieldsDone, ArrayDone, FieldTaken, ElementTaken, ArrayBegun, StructBegun,
         ValueRead, ArrayEnded, StructEnded, Turn
<1> DEFINE n == Len(stack)
<1>1. n \in Nat \ {0} /\ n \in 1..n /\ Len(stack) = n /\ Top = stack[n] /\ Fields \in Nat
      /\ Top.def \in 0..Fields /\ Top.def \in Nat /\ (Top.kind # "fields" => Top.def # 0)
      /\ Top.fields \in Seq(1..Fields) /\ Top.kind \in TaskKinds
  <2>1. n \in Nat \ {0} /\ Len(stack) = n /\ Top = stack[n] /\ Fields \in Nat /\ Top.def \in 0..Fields
        /\ (Top.kind # "fields" => Top.def \in 1..Fields)
        /\ Top.fields \in Seq(1..Fields) /\ Top.kind \in TaskKinds
    BY <1>0, TopTask
  <2> HIDE DEF n
  <2>2. n \in 1..n /\ Top.def \in Nat /\ (Top.kind # "fields" => Top.def # 0)
    BY <2>1
  <2> QED BY <2>1, <2>2
<1>2. Same /\ Fields' = Fields
  BY DEF Turned, FieldsDone, ArrayDone, FieldTaken, ElementTaken, ArrayBegun, StructBegun,
         ValueRead, ArrayEnded, StructEnded, Silent, Emits, Same, Fields
<1>3. KidsDepth(P)' /\ OpenDepth(P)'
  BY <1>2 DEF Depth, KidsDepth, OpenDepth, DefDepth, Same
<1> HIDE DEF n
<1>4. StackDepth(P, stack) /\ TaskDepth(P, Top, E(stack, n)) /\ E(stack, n) \in Nat
  <2>2. E(stack, n) \in Nat
    BY <1>1, EndsFinite
  <2> QED BY <1>1, <2>2 DEF Depth, StackDepth
<1>n. P[Top.def] \in Nat
  BY <1>1 DEF Ranking
<1>m. E(stack, n) + 1 \in Nat
  BY <1>4
<1>5. StackDepth(P, stack')
  <2>1. CASE Pop
    BY <1>1, <1>4, <2>1, DepthPop DEF Pop
  <2>2. ASSUME NEW a, NEW b, FieldTaken(a, b)
        PROVE  StackDepth(P, stack')
    <3>1. /\ Replaced(stack, stack', a, b) /\ Top.kind = "fields" /\ a.kind = "fields" /\ b.kind = "field"
          /\ Top.fields # <<>> /\ a.fields = Tail(Top.fields) /\ b.def = Head(Top.fields)
      BY <2>2 DEF FieldTaken, Swap, Turn
    <3>2. \A i \in 1..Len(Top.fields) : DefDepth(P, Top.fields[i]) /\ E(stack, n) <= 2 * P[Top.fields[i]]
      BY <1>4, <3>1 DEF TaskDepth
    <3> DEFINE w == Top.fields
    <3>3. /\ Len(w) \in Nat \ {0} /\ Head(w) = w[1] /\ Len(Tail(w)) = Len(w) - 1
          /\ \A i \in 1 .. Len(w) - 1 : Tail(w)[i] = w[i + 1]
      <4>1. w \in Seq(1..Fields) /\ w # <<>>
        BY <1>1, <3>1
      <4> HIDE DEF w
      <4> QED BY <4>1
    <3> HIDE DEF w
    <3>4. TaskDepth(P, b, E(stack, n))
      <4>1. 1 \in 1..Len(w)
        BY <3>3
      <4> QED BY <3>1, <3>2, <3>3, <4>1 DEF TaskDepth, w
    <3>5. TaskDepth(P, a, E(stack, n))
      <4>1. ASSUME NEW i \in 1..Len(a.fields)
            PROVE  DefDepth(P, a.fields[i]) /\ E(stack, n) <= 2 * P[a.fields[i]]
        <5>1. a.fields = Tail(w)
          BY <3>1 DEF w
        <5>2. i \in 1 .. Len(w) - 1 /\ i + 1 \in 1..Len(w)
          BY <3>3, <5>1
        <5>3. a.fields[i] = w[i + 1]
          BY <3>3, <5>1, <5>2
        <5> QED BY <3>2, <5>2, <5>3 DEF w
      <4> QED BY <3>1, <4>1 DEF TaskDepth
    <3>6. ~ IsEnd(stack[n]) /\ ~ IsEnd(a) /\ ~ IsEnd(b)
      BY <1>1, <3>1 DEF IsEnd
    <3> QED BY <1>1, <1>4, <3>1, <3>4, <3>5, <3>6, DepthSwap
  <2>3. ASSUME NEW a, NEW b, ElementTaken(a, b)
        PROVE  StackDepth(P, stack')
    <3>1. /\ Replaced(stack, stack', a, b) /\ Top.kind = "array" /\ a.kind = "array" /\ b.kind = "element"
          /\ a.def = Top.def /\ b.def = Top.def
      BY <2>3 DEF ElementTaken, Swap, Turn
    <3>2. TaskDepth(P, a, E(stack, n)) /\ TaskDepth(P, b, E(stack, n))
      BY <1>4, <3>1 DEF TaskDepth
    <3>3. ~ IsEnd(stack[n]) /\ ~ IsEnd(a) /\ ~ IsEnd(b)
      BY <1>1, <3>1 DEF IsEnd
    <3> QED BY <1>1, <1>4, <3>1, <3>2, <3>3, DepthSwap
  <2>4. ASSUME NEW a, NEW b, NEW e, ArrayBegun(a, b, e)
        PROVE  StackDepth(P, stack')
    <3>1. /\ Replaced(stack, stack', a, b) /\ Top.kind = "field" /\ a.kind = "arrayEnd" /\ b.kind = "array"
          /\ a.def = Top.def /\ b.def = Top.def
      BY <2>4 DEF ArrayBegun, Swap, Turn
    <3>2. DefDepth(P, Top.def) /\ E(stack, n) <= 2 * P[Top.def] /\ P[Top.def] \in Nat
      BY <1>1, <1>4, <1>n, <3>1 DEF TaskDepth
    <3>3. E(stack, n) + 1 <= 2 * P[Top.def] + 1
      BY <1>4, <3>2
    <3>4. TaskDepth(P, a, E(stack, n) + 1) /\ TaskDepth(P, b, E(stack, n) + 1)
      BY <3>1, <3>2, <3>3 DEF TaskDepth
    <3>5. ~ IsEnd(stack[n]) /\ IsEnd(a) /\ ~ IsEnd(b) /\ E(stack, n) + 1 \in Nat
      BY <1>1, <1>m, <3>1 DEF IsEnd
    <3> QED BY <1>1, <1>4, <3>1, <3>4, <3>5, DepthSwap
  <2>5. ASSUME NEW a, NEW b, NEW e, StructBegun(a, b, e)
        PROVE  StackDepth(P, stack')
    <3>1. /\ Replaced(stack, stack', a, b) /\ Top.kind \in {"field", "element"}
          /\ a.kind = "structEnd" /\ b.kind = "fields" /\ a.def = Top.def /\ b.fields = kids[Top.def]
          /\ data.metadata[Top.def].encoding = "struct"
      BY <2>5 DEF StructBegun, Swap, Turn
    <3>2. /\ DefDepth(P, Top.def) /\ E(stack, n) <= 2 * P[Top.def] + 1 /\ P[Top.def] \in Nat
          /\ P[Top.def] + 1 <= MaxDepth
      <4>1. P[Top.def] \in Nat
        BY <1>1, <1>n
      <4>2. DefDepth(P, Top.def) /\ (E(stack, n) <= 2 * P[Top.def] \/ E(stack, n) <= 2 * P[Top.def] + 1)
        BY <1>4, <3>1 DEF TaskDepth
      <4>3. E(stack, n) <= 2 * P[Top.def] + 1
        BY <1>4, <4>1, <4>2
      <4> QED BY <3>1, <4>1, <4>2, <4>3 DEF DefDepth
    <3>3. E(stack, n) + 1 <= 2 * P[Top.def] + 2 /\ E(stack, n) + 1 <= 2 * (P[Top.def] + 1)
      BY <1>4, <3>2
    <3>4. TaskDepth(P, a, E(stack, n) + 1)
      BY <3>1, <3>2, <3>3 DEF TaskDepth
    <3>5. ASSUME NEW i \in 1..Len(b.fields)
          PROVE  DefDepth(P, b.fields[i]) /\ E(stack, n) + 1 <= 2 * P[b.fields[i]]
      <4>1. Top.def # 0
        BY <1>1, <3>1
      <4>2. P[kids[Top.def][i]] = P[Top.def] + 1 /\ DefDepth(P, kids[Top.def][i])
        BY <1>1, <3>1, <4>1 DEF Depth, KidsDepth
      <4> QED BY <3>1, <3>3, <4>2
    <3>6. TaskDepth(P, b, E(stack, n) + 1)
      BY <3>1, <3>5 DEF TaskDepth
    <3>7. ~ IsEnd(stack[n]) /\ IsEnd(a) /\ ~ IsEnd(b) /\ E(stack, n) + 1 \in Nat
      BY <1>1, <1>m, <3>1 DEF IsEnd
    <3> QED BY <1>1, <1>4, <3>1, <3>4, <3>6, <3>7, DepthSwap
  <2> QED BY <2>1, <2>2, <2>3, <2>4, <2>5 DEF Turned, FieldsDone, ArrayDone, ValueRead, ArrayEnded, StructEnded
<1>6. StackDepth(P, stack)'
  BY <1>2, <1>5 DEF StackDepth, TaskDepth, DefDepth, Same
<1> QED BY <1>3, <1>6 DEF Depth

\* MaxDepth bounds the ends to come.
LEMMA DepthBound ==
  ASSUME TypedEvent, Grammar(stack), NEW P \in Ranking, StackDepth(P, stack)
  PROVE  E(stack, Len(stack)) <= 2 * MaxDepth + 1
<1>0. Fields \in Nat /\ Len(stack) \in Nat /\ MaxDepth \in Nat
  BY EventFacts, LenProperties, LimitsAssumption DEF TypedEvent
<1>1. ASSUME NEW p \in 1..Len(stack), stack[p].kind # "fields"
      PROVE  E(stack, p) <= 2 * MaxDepth + 1
  <2> DEFINE d == stack[p].def
             k == E(stack, p)
  <2>1. d \in Nat /\ P[d] \in Nat /\ k \in Nat
    <3>1. d \in 1..Fields
      BY <1>0, <1>1 DEF TypedEvent
    <3>2. p \in Nat /\ d \in Nat
      BY <1>0, <3>1
    <3> QED BY <3>2, EndsFinite DEF Ranking
  <2>2. TaskDepth(P, stack[p], k) /\ stack[p].kind \in TaskKinds
    BY DEF StackDepth, Grammar
  <2>3. P[d] <= MaxDepth
    BY <1>1, <2>2 DEF TaskDepth, DefDepth
  <2>4. k <= 2 * P[d] \/ k <= 2 * P[d] + 1 \/ (k <= 2 * P[d] + 2 /\ P[d] + 1 <= MaxDepth)
    BY <1>1, <2>2 DEF TaskDepth, TaskKinds
  <2> HIDE DEF d, k
  <2> DEFINE x == P[d]
  <2> HIDE DEF x
  <2>5. k <= 2 * MaxDepth + 1
    <3>1. x \in Nat /\ k \in Nat /\ x <= MaxDepth
          /\ (k <= 2 * x \/ k <= 2 * x + 1 \/ (k <= 2 * x + 2 /\ x + 1 <= MaxDepth))
      BY <2>1, <2>3, <2>4 DEF x
    <3> QED BY <1>0, <3>1
  <2> QED BY <2>5 DEF k
<1>2. CASE Len(stack) = 0
  <2>1. E(stack, Len(stack)) = 0
    BY <1>2, EndsZero
  <2> QED BY <1>0, <2>1
<1>3. CASE Len(stack) # 0 /\ stack[Len(stack)].kind # "fields"
  <2>1. Len(stack) \in 1..Len(stack)
    BY <1>0, <1>3
  <2> QED BY <1>1, <1>3, <2>1
<1>4. CASE Len(stack) # 0 /\ stack[Len(stack)].kind = "fields"
  <2> DEFINE n == Len(stack)
  <2>1. n \in Nat \ {0} /\ n \in 1..n
    BY <1>0, <1>4
  <2>2. E(stack, n) = E(stack, n - 1)
    BY <1>4, <2>1, EndsTop DEF IsEnd
  <2>3. CASE n = 1
    <3>1. E(stack, n) = 0
      BY <2>2, <2>3, EndsZero
    <3> QED BY <1>0, <3>1
  <2>4. CASE n # 1
    <3>1. Follows(stack, n)
      BY <2>1 DEF Grammar
    <3>2. stack[n - 1].kind = "structEnd"
      BY <1>4, <2>4, <3>1 DEF Follows
    <3>3. n - 1 \in 1..n
      <4> HIDE DEF n
      <4> QED BY <2>1, <2>4
    <3> QED BY <1>1, <2>2, <3>2, <3>3
  <2> QED BY <2>3, <2>4
<1> QED BY <1>2, <1>3, <1>4

-----------------------------------------------------------------------------
(* The decoder *)

DecoderInv ==
  /\ Typed
  /\ Shape(stack, frames, items)
  /\ dstate # "idle" => ParseOpen /\ \E P \in Ranking : Depth(P)

LEMMA InvInit ==
  ASSUME DecoderInit
  PROVE  DecoderInv
<1>1. stack = <<>> /\ frames = <<>> /\ items = <<>> /\ dstate = "idle"
  BY DEF DecoderInit
<1> QED BY <1>1, TypedInit, ShapeEmpty DEF DecoderInv

LEMMA InvParse ==
  ASSUME NEW event \in WireEvent, NEW name, parse(event, name)
  PROVE  DecoderInv'
<1>1. Typed'
  BY TypedParse
<1>2. /\ data' = event /\ parsed' = 0 /\ stack' = <<>> /\ items' = <<>> /\ frames' = <<>>
      /\ kids' = [i \in 0..Len(event.metadata) |-> <<>>]
      /\ pstack' = <<[at |-> 0, left |-> Len(event.metadata)]>>
      /\ dstate' # "idle"
  BY DEF parse, Started
<1>3. Shape(stack, frames, items)'
  BY <1>2, ShapeEmpty
<1>4. Fields' = Len(event.metadata) /\ Fields' \in Nat
  <2>1. TypedEvent'
    BY <1>1, <1>2 DEF Typed
  <2>2. Len(event.metadata) \in Nat
    <3>1. event.metadata \in Seq(WireField)
      BY Zenon DEF WireEvent
    <3> QED BY <3>1, LenProperties
  <2> QED BY <1>2, <2>2 DEF Fields
<1>5. /\ pstack'[1] = [at |-> 0, left |-> Fields'] /\ Len(pstack') = 1
      /\ pstack'[1].at = 0 /\ pstack'[1].left = Fields' /\ pstack' # <<>>
  BY <1>2, <1>4
<1>6. ParseOpen'
  BY <1>2, <1>4, <1>5 DEF ParseOpen
<1>7. PICK P \in Ranking : TRUE
  <2>1. [d \in Nat |-> 0] \in Ranking
    BY DEF Ranking
  <2> QED BY <2>1
<1>8. \A a \in 0..Fields' : Len(kids'[a]) = 0
  BY <1>2, <1>4
<1>9. KidsDepth(P)'
  BY <1>8 DEF KidsDepth
<1>10. OpenDepth(P)'
  <2>1. \A k \in 2..Len(pstack') : FALSE
    BY <1>5
  <2> QED BY <1>5, <2>1 DEF OpenDepth
<1>11. StackDepth(P, stack)'
  <2>1. Len(stack') = 0
    BY <1>2
  <2> QED BY <2>1 DEF StackDepth
<1> QED BY <1>1, <1>3, <1>6, <1>7, <1>9, <1>10, <1>11 DEF DecoderInv, Depth

LEMMA InvStart ==
  ASSUME DecoderInv, Start
  PROVE  DecoderInv'
<1> DEFINE u == Task("fields", 0, kids[0], 0, 0, -1)
<1>1. /\ Typed' /\ dstate = "parsing" /\ dstate' = "BeforeFirst" /\ stack' = <<u>>
      /\ UNCHANGED <<data, kids, parsed, pstack, items, frames>>
  BY TypedStart DEF DecoderInv, Start
<1>2. items = <<>> /\ frames = <<>> /\ TypedEvent
  BY <1>1 DEF DecoderInv, Typed
<1>3. u.kind = "fields" /\ u.fields = kids[0]
  BY DEF Task
<1> HIDE DEF u
<1>4. Shape(stack, frames, items)'
  BY <1>1, <1>2, <1>3, ShapeStart
<1>5. ParseOpen'
  BY <1>1 DEF ParseOpen
<1>6. PICK P \in Ranking : Depth(P)
  BY <1>1 DEF DecoderInv
<1>7. KidsDepth(P)' /\ OpenDepth(P)' /\ Fields' = Fields
  BY <1>1, <1>6 DEF Depth, KidsDepth, OpenDepth, DefDepth, Fields
<1>8. Len(stack') = 1 /\ stack'[1] = u /\ \A p \in 1..Len(stack') : p = 1
  BY <1>1
<1>9. E(stack', 1) = 0
  <2>1. Len(frames') = E(stack', Len(stack'))
    BY <1>4 DEF Shape, FramesMatch
  <2> QED BY <1>1, <1>2, <1>8, <2>1
<1>10. TaskDepth(P, u, 0)
  <2>1. \A i \in 1..Len(kids[0]) : P[kids[0][i]] = 0 /\ DefDepth(P, kids[0][i])
    <3>1. 0 \in 0..Fields
      BY <1>2, EventFacts
    <3> QED BY <1>6, <3>1 DEF Depth, KidsDepth
  <2> QED BY <1>3, <2>1 DEF TaskDepth
<1>11. StackDepth(P, stack')
  BY <1>8, <1>9, <1>10 DEF StackDepth
<1>12. StackDepth(P, stack)'
  BY <1>1, <1>11 DEF StackDepth, TaskDepth, DefDepth
<1> QED BY <1>1, <1>4, <1>5, <1>7, <1>12 DEF DecoderInv, Depth

\* Steps that leave the parsed event, the tasks and the items alone.
LEMMA InvKept ==
  ASSUME DecoderInv, dstate # "idle", Typed', dstate' # "parsing",
         UNCHANGED <<data, kids, parsed, pstack, stack, items, frames>>
  PROVE  DecoderInv'
<1>1. Shape(stack, frames, items)' /\ ParseOpen'
  BY DEF DecoderInv, ParseOpen
<1>2. PICK P \in Ranking : Depth(P)
  BY DEF DecoderInv
<1>3. Depth(P)'
  BY <1>2 DEF Depth, KidsDepth, OpenDepth, StackDepth, TaskDepth, DefDepth, Fields
<1> QED BY <1>1, <1>2, <1>3 DEF DecoderInv

LEMMA InvStep ==
  ASSUME DecoderInv, [DecoderNext]_decoderVars
  PROVE  DecoderInv'
<1>1. CASE \E event \in WireEvent, name \in Nat : parse(event, name)
  BY <1>1, InvParse
<1>2. CASE Discard
  <2>1. stack' = <<>> /\ frames' = <<>> /\ items' = <<>> /\ dstate' = "idle"
    BY <1>2 DEF Discard
  <2> QED BY <1>2, <2>1, TypedDiscard, ShapeEmpty DEF DecoderInv
<1>3. CASE parseField
  <2>1. dstate = "parsing" /\ TypedEvent /\ Typed
    BY <1>3 DEF parseField, DecoderInv, Typed
  <2>2. CASE ParsedField
    <3>1. PICK P \in Ranking : Depth(P)
      BY <2>1 DEF DecoderInv
    <3>2. ParseOpen /\ parsed < Fields
      BY <2>1, <2>2 DEF DecoderInv, ParsedField
    <3>3. ParseOpen' /\ \E Q \in Ranking : Depth(Q)'
      BY <2>1, <2>2, <3>1, <3>2, DepthParsedField
    <3>4. Typed'
      BY <2>1, <2>2, <3>2, TypedParsedField DEF ParseOpen
    <3>5. Shape(stack, frames, items)'
      BY <2>2 DEF ParsedField, DecoderInv
    <3> QED BY <3>3, <3>4, <3>5 DEF DecoderInv
  <2>3. ASSUME NEW why, Fail(why) PROVE DecoderInv'
    <3>1. Typed'
      BY <2>1, <2>3, TypedFail
    <3> QED BY <2>1, <2>3, <3>1, InvKept DEF Fail
  <2> QED BY <1>3, <2>2, <2>3, ParseFieldSteps
<1>4. CASE Start
  BY <1>4, InvStart
<1>5. CASE Next
  <2>1. Walking /\ dstate # "idle" /\ TypedEvent /\ Typed
    BY <1>5 DEF Next, Walking, DecoderInv, Typed
  <2>2. ASSUME NEW why, Fail(why) PROVE DecoderInv'
    <3>1. Typed'
      BY <2>1, <2>2, TypedFail
    <3> QED BY <2>1, <2>2, <3>1, InvKept DEF Fail
  <2>3. CASE finish
    <3>1. Typed'
      BY <2>1, <2>3, TypedFinish
    <3> QED BY <2>1, <2>3, <3>1, InvKept DEF finish
  <2>4. CASE Turned
    <3>1. Typed' /\ Shape(stack', frames', items')
      BY <2>1, <2>4, TypedTurned, ShapeTurned DEF DecoderInv
    <3>2. PICK P \in Ranking : Depth(P)
      BY <2>1 DEF DecoderInv
    <3>3. Depth(P)'
      BY <2>1, <2>4, <3>2, DepthTurned
    <3>4. dstate' # "parsing"
      <4>1. Silent \/ \E e : Emits(e)
        BY <2>4 DEF Turned, FieldsDone, ArrayDone, FieldTaken, ElementTaken, ArrayBegun, StructBegun,
               ValueRead, ArrayEnded, StructEnded
      <4>2. ASSUME NEW e, Emits(e) PROVE dstate' # "parsing"
        <5>1. e.state \in States
          BY <4>2, Zenon DEF Emits, ItemType
        <5> QED BY <4>2, <5>1 DEF Emits, States
      <4> QED BY <2>1, <4>1, <4>2 DEF Silent, Walking
    <3>5. ParseOpen'
      BY <3>4 DEF ParseOpen
    <3> QED BY <3>1, <3>2, <3>3, <3>5 DEF DecoderInv
  <2> QED BY <1>5, <2>1, <2>2, <2>3, <2>4, NextTurns
<1>6. CASE UNCHANGED decoderVars
  <2>1. Typed' /\ Shape(stack, frames, items)' /\ ParseOpen' = ParseOpen /\ dstate' = dstate
    BY <1>6 DEF decoderVars, DecoderInv, Typed, TypedEvent, ParseOpen, Fields
  <2>2. \A P : Depth(P)' <=> Depth(P)
    BY <1>6 DEF decoderVars, Depth, KidsDepth, OpenDepth, StackDepth, TaskDepth, DefDepth, Fields
  <2> QED BY <2>1, <2>2 DEF DecoderInv
<1> QED BY <1>1, <1>2, <1>3, <1>4, <1>5, <1>6 DEF DecoderNext, Decode

\* The inductive invariant: the stack of Next obeys its grammar, its end tasks are
\* Decode's frames and the nesting of the items, every array reported so far is
\* complete or has the items its tasks say, and parse gave each field a depth.
THEOREM DecoderInductive == DecoderSpec => []DecoderInv
<1>1. DecoderInit => DecoderInv
  BY InvInit
<1>2. DecoderInv /\ [DecoderNext]_decoderVars => DecoderInv'
  BY InvStep
<1> QED BY <1>1, <1>2, PTL DEF DecoderSpec

\* Whatever an event says, the decoder stays inside its payload, its metadata and
\* its limits (Enumerator.pos, Limits.MaxTransitions, Limits.MaxDepth).
THEOREM DecoderBounded == DecoderSpec => []Bounded
<1>1. DecoderInv => Bounded
  <2> SUFFICES ASSUME DecoderInv PROVE Bounded
    OBVIOUS
  <2>1. Typed /\ FramesMatch(stack, frames) /\ Grammar(stack)
    BY DEF DecoderInv, Shape
  <2>2. Len(items) <= MaxTransitions
    BY <2>1 DEF Typed
  <2>3. CASE dstate = "idle"
    <3>1. data = <<>> /\ frames = <<>>
      BY <2>1, <2>3 DEF Typed
    <3>2. Len(frames) <= 2 * MaxDepth + 1
      BY <3>1, LimitsAssumption
    <3> QED BY <2>2, <3>1, <3>2 DEF Bounded
  <2>4. CASE dstate # "idle"
    <3>1. TypedEvent
      BY <2>1, <2>4 DEF Typed
    <3>2. PICK P \in Ranking : Depth(P)
      BY <2>4 DEF DecoderInv
    <3>3. Len(frames) <= 2 * MaxDepth + 1
      BY <2>1, <3>1, <3>2, DepthBound DEF Depth, FramesMatch
    <3>4. DOMAIN data.metadata = 1..Fields /\ DOMAIN stack = 1..Len(stack)
      BY <3>1, EventFacts, LenProperties DEF TypedEvent, Fields
    <3>5. \A p \in 1..Len(stack) : stack[p].fields \in Seq(1..Fields)
      <4> TAKE p \in 1..Len(stack)
      <4>1. stack[p] \in TaskOf(Fields) /\ Fields \in Nat
        BY <3>1, ElementOfSeq, EventFacts DEF TypedEvent
      <4> QED BY <4>1, TaskFields
    <3>6. \A p \in 1..Len(stack) : \A i \in DOMAIN stack[p].fields : stack[p].fields[i] \in 1..Fields
      BY <3>5, LenProperties, ElementOfSeq
    <3> QED BY <2>2, <3>1, <3>3, <3>4, <3>6 DEF Bounded, TypedEvent
  <2> QED BY <2>3, <2>4
<1> QED BY <1>1, DecoderInductive, PTL

\* What Decode makes of an event is well formed whatever its bytes were: an end
\* meets its own beginning, everything that began has ended in a decoded event, and
\* an array has as many elements as it announced.
THEOREM DecoderWellFormed == DecoderSpec => []WellFormed
<1>1. DecoderInv => WellFormed
  <2> SUFFICES ASSUME DecoderInv PROVE WellFormed
    OBVIOUS
  <2>1. Typed /\ FramesMatch(stack, frames) /\ ItemsMatch(stack, items)
    BY DEF DecoderInv, Shape
  <2>2. ASSUME Walking
        PROVE  /\ Len(frames) = Cardinality(EndsUpTo(stack, Len(stack)))
               /\ \A p \in EndsUpTo(stack, Len(stack)) :
                    frames[Cardinality(EndsUpTo(stack, p))] = Ends[stack[p].kind]
    <3>1. \A p \in EndsUpTo(stack, Len(stack)) : p \in 1..Len(stack) /\ IsEnd(stack[p])
      BY DEF EndsUpTo, IsEnd, Ends
    <3> QED BY <2>1, <3>1 DEF FramesMatch, E
  <2>3. ASSUME dstate = "Done"
        PROVE  /\ Nesting(items, Len(items)) = 0
               /\ \A i \in DOMAIN items : items[i].state = "ArrayBegin" =>
                    Cardinality(Inside(items, i)) = items[i].count
    <3>1. Len(stack) = 0 /\ items \in Seq(ItemType)
      BY <2>1, <2>3 DEF Typed
    <3>2. E(stack, Len(stack)) = 0
      BY <3>1, EndsZero
    <3>3. \A i \in 1..Len(items) : items[i].state = "ArrayBegin" => Complete(items, i)
      BY <2>1, <3>1 DEF ItemsMatch
    <3>4. DOMAIN items = 1..Len(items)
      BY <3>1, LenProperties
    <3> QED BY <2>1, <3>2, <3>3, <3>4 DEF ItemsMatch, Complete
  <2> QED BY <2>2, <2>3 DEF WellFormed
<1> QED BY <1>1, DecoderInductive, PTL
=============================================================================

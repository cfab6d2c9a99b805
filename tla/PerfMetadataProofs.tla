------------------------- MODULE PerfMetadataProofs -------------------------
(***************************************************************************)
(* What a perfdata.Reader learns from metadata is consistent, and the      *)
(* records of the kernel are read with it as they were written, for any    *)
(* attributes, IDs, formats, limits and order of the metadata.             *)
(***************************************************************************)
EXTENDS PerfMetadata, FiniteSetTheorems, SequenceTheorems, WellFoundedInduction, TLAPS

-----------------------------------------------------------------------------
(* Induction over sets of naturals *)

LEMMA LeastNatural ==
  ASSUME NEW T \in SUBSET Nat, T # {}
  PROVE  \E x \in T : \A y \in T : x <= y
<1> DEFINE R == OpToRel(<, Nat)
<1>1. IsWellFoundedOn(R, Nat)
  BY NatLessThanWellFounded
<1>2. \A x, y \in Nat : x < y => <<x, y>> \in R
  BY DEF OpToRel
<1> HIDE DEF R
<1>3. PICK x \in T : \A y \in T : <<y, x>> \notin R
  BY <1>1, WFMin
<1>4. \A y \in T : ~ (y < x)
  BY <1>2, <1>3
<1> QED BY <1>4

LEMMA SetInduction ==
  ASSUME NEW S \in SUBSET Nat, 0 \in S, \A n \in S : n + 1 \in S
  PROVE  S = Nat
<1> SUFFICES ASSUME Nat \ S # {} PROVE FALSE
  OBVIOUS
<1>1. PICK x \in Nat \ S : \A y \in Nat \ S : x <= y
  BY LeastNatural
<1>2. x # 0 /\ x - 1 \in Nat /\ x - 1 \notin Nat \ S
  BY <1>1
<1> QED BY <1>1, <1>2

-----------------------------------------------------------------------------
(* The loops of addDescriptor and parseTracingData *)

\* The readers after each ID of addIDs.
IsIDLoop(after, r, d, ids) ==
  after = [i \in 0..Len(ids) |-> IF i = 0 THEN r ELSE addID(after[i - 1], d, ids[i])]

LEMMA IDLoopExists ==
  ASSUME NEW r, NEW d, NEW ids \in Seq(Nat)
  PROVE  \E after : IsIDLoop(after, r, d, ids)
<1> DEFINE Upto(n, g) == g = [i \in 0..n |-> IF i = 0 THEN r ELSE addID(g[i - 1], d, ids[i])]
           S == {n \in Nat : \E g : Upto(n, g)}
<1>1. 0 \in S
  <2>1. Upto(0, [i \in 0..0 |-> r])
    OBVIOUS
  <2> QED BY <2>1
<1>2. ASSUME NEW n \in S PROVE n + 1 \in S
  <2>1. PICK g : Upto(n, g)
    BY <1>2
  <2> DEFINE h == [i \in 0..(n + 1) |-> IF i = n + 1 THEN addID(g[n], d, ids[n + 1]) ELSE g[i]]
  <2>2. \A i \in 0..n : h[i] = g[i]
    OBVIOUS
  <2>3. ASSUME NEW i \in 0..(n + 1)
        PROVE  h[i] = IF i = 0 THEN r ELSE addID(h[i - 1], d, ids[i])
    <3>1. CASE i = n + 1
      BY <2>2, <3>1
    <3>2. CASE i \in 0..n
      <4>1. g[i] = IF i = 0 THEN r ELSE addID(g[i - 1], d, ids[i])
        BY <2>1, <3>2
      <4>2. i # 0 => h[i - 1] = g[i - 1]
        BY <2>2, <3>2
      <4> QED BY <2>2, <3>2, <4>1, <4>2
    <3> QED BY <3>1, <3>2
  <2>4. Upto(n + 1, h)
    BY <2>3
  <2> HIDE DEF h, Upto
  <2>5. \E f : Upto(n + 1, f)
    BY <2>4
  <2> QED BY <2>5
<1>3. S \in SUBSET Nat
  OBVIOUS
<1> HIDE DEF S
<1>4. S = Nat
  BY <1>1, <1>2, <1>3, SetInduction
<1>5. Len(ids) \in S
  BY <1>4
<1> QED BY <1>5 DEF S, IsIDLoop

LEMMA IDLoop ==
  ASSUME NEW r, NEW d, NEW ids \in Seq(Nat)
  PROVE  \E after : IsIDLoop(after, r, d, ids) /\ addIDs(r, d, ids) = after[Len(ids)]
<1> DEFINE after == CHOOSE f : IsIDLoop(f, r, d, ids)
<1>1. IsIDLoop(after, r, d, ids)
  BY IDLoopExists
<1>2. addIDs(r, d, ids) = after[Len(ids)]
  BY DEF addIDs, IsIDLoop
<1> QED BY <1>1, <1>2

-----------------------------------------------------------------------------
(* The reader *)

\* r is a record with the fields of a Reader.
Shape(r) ==
  r = [attrs |-> r.attrs, byID |-> r.byID, formats |-> r.formats, metadata |-> r.metadata,
       clock |-> r.clock, layoutSet |-> r.layoutSet, sampleIDOffset |-> r.sampleIDOffset,
       suffixLayoutSet |-> r.suffixLayoutSet, suffixMask |-> r.suffixMask,
       suffixIDAll |-> r.suffixIDAll, noSampleIDAll |-> r.noSampleIDAll, err |-> r.err]

Descriptor == [attr : Attrs, name : Names, ids : Seq(Nat), format : BOOLEAN]

\* Indexed, of any reader, with types.
Index(r) ==
  /\ Shape(r)
  /\ r.attrs \in Seq(Descriptor)
  /\ Len(r.attrs) <= MaxAttrs
  /\ IsFiniteSet(DOMAIN r.byID)
  /\ Cardinality(DOMAIN r.byID) <= MaxIDs
  /\ r.metadata \in 0..MaxMetadata
  /\ \A id \in DOMAIN r.byID : r.byID[id] \in DOMAIN r.attrs
  /\ \A d \in DOMAIN r.attrs :
       /\ IDsOf(r.attrs[d].ids) = {id \in DOMAIN r.byID : r.byID[id] = d}
       /\ Cardinality(IDsOf(r.attrs[d].ids)) = Len(r.attrs[d].ids)

Layout(r) ==
  <<r.layoutSet, r.sampleIDOffset, r.suffixLayoutSet, r.suffixMask, r.suffixIDAll, r.noSampleIDAll>>

\* An error changes nothing else.
LEMMA ErrorKeeps ==
  ASSUME NEW r, Shape(r), NEW why
  PROVE  /\ Shape(Error(r, why)) /\ Error(r, why).err = why
         /\ Error(r, why).attrs = r.attrs /\ Error(r, why).byID = r.byID
         /\ Error(r, why).formats = r.formats /\ Error(r, why).metadata = r.metadata
         /\ Layout(Error(r, why)) = Layout(r)
BY DEF Shape, Error, Layout

LEMMA ErrorIndex ==
  ASSUME NEW r, Index(r), NEW why
  PROVE  Index(Error(r, why))
BY ErrorKeeps DEF Index

\* What addIDs leaves alone.
Kept(r, s) ==
  /\ Layout(s) = Layout(r) /\ s.formats = r.formats
  /\ DOMAIN s.attrs = DOMAIN r.attrs
  /\ \A d \in DOMAIN r.attrs : s.attrs[d].attr = r.attrs[d].attr
                               /\ s.attrs[d].format = r.attrs[d].format
  /\ s.err = r.err \/ s.err = "limit"

LEMMA IDsOfAppend ==
  ASSUME NEW ids \in Seq(Nat), NEW id \in Nat
  PROVE  IDsOf(Append(ids, id)) = IDsOf(ids) \cup {id}
<1>1. DOMAIN Append(ids, id) = DOMAIN ids \cup {Len(ids) + 1}
  OBVIOUS
<1>2. \A i \in DOMAIN ids : Append(ids, id)[i] = ids[i]
  OBVIOUS
<1>3. Append(ids, id)[Len(ids) + 1] = id /\ Len(ids) + 1 \notin DOMAIN ids
  OBVIOUS
<1> QED BY <1>1, <1>2, <1>3 DEF IDsOf

\* A new ID of a descriptor.
LEMMA AddID ==
  ASSUME NEW r, Index(r), NEW d \in DOMAIN r.attrs, NEW id \in Nat,
         id \in DOMAIN r.byID => r.byID[id] = d
  PROVE  /\ Index(addID(r, d, id)) /\ Kept(r, addID(r, d, id))
         /\ \A j \in DOMAIN addID(r, d, id).byID :
              \/ addID(r, d, id).byID[j] = d
              \/ j \in DOMAIN r.byID /\ addID(r, d, id).byID[j] = r.byID[j]
<1>1. CASE r.err # "none" \/ id \in IDsOf(r.attrs[d].ids)
  BY <1>1 DEF addID, Kept
<1>2. CASE /\ ~(r.err # "none" \/ id \in IDsOf(r.attrs[d].ids))
           /\ Cardinality(DOMAIN r.byID) >= MaxIDs
  <2>1. addID(r, d, id) = Error(r, "limit")
    BY <1>2 DEF addID
  <2>2. Shape(r)
    BY DEF Index
  <2> QED BY <2>1, <2>2, ErrorKeeps, ErrorIndex DEF Kept
<1>3. CASE /\ ~(r.err # "none" \/ id \in IDsOf(r.attrs[d].ids))
           /\ ~(Cardinality(DOMAIN r.byID) >= MaxIDs)
  <2> DEFINE new == [r.attrs[d] EXCEPT !.ids = Append(r.attrs[d].ids, id)]
             attrs == [r.attrs EXCEPT ![d] = new]
             byID == [i \in DOMAIN r.byID \cup {id} |-> IF i = id THEN d ELSE r.byID[i]]
             s == addID(r, d, id)
  <2>1. s = [r EXCEPT !.attrs = attrs, !.byID = byID]
    BY <1>3 DEF addID
  <2>2. Shape(r)
    BY DEF Index
  <2>3. /\ Shape(s) /\ s.attrs = attrs /\ s.byID = byID /\ s.formats = r.formats
        /\ s.metadata = r.metadata /\ Layout(s) = Layout(r) /\ s.err = r.err
    <3> HIDE DEF attrs, byID, s
    <3> QED BY <2>1, <2>2 DEF Shape, Layout
  <2>4. id \notin DOMAIN r.byID
    BY <1>3 DEF Index
  <2>5. r.attrs \in Seq(Descriptor) /\ r.attrs[d] \in Descriptor
    BY DEF Index
  <2>6. new \in Descriptor /\ new.ids = Append(r.attrs[d].ids, id)
        /\ new.attr = r.attrs[d].attr /\ new.format = r.attrs[d].format
    <3> DEFINE old == r.attrs[d]
               added == Append(old.ids, id)
    <3>1. old \in Descriptor /\ added \in Seq(Nat)
      BY <2>5 DEF Descriptor
    <3> HIDE DEF old, added
    <3>2. new = [old EXCEPT !.ids = added]
      BY DEF old, added
    <3> HIDE DEF new
    <3>3. /\ new \in Descriptor /\ new.ids = added /\ new.attr = old.attr
          /\ new.format = old.format
      BY <3>1, <3>2 DEF Descriptor
    <3> QED BY <3>3 DEF old, added
  <2> HIDE DEF new
  <2>7. /\ attrs \in Seq(Descriptor) /\ Len(attrs) = Len(r.attrs)
        /\ DOMAIN attrs = DOMAIN r.attrs /\ attrs[d] = new
        /\ \A e \in DOMAIN r.attrs \ {d} : attrs[e] = r.attrs[e]
    BY <2>5, <2>6
  <2>8. /\ DOMAIN byID = DOMAIN r.byID \cup {id} /\ byID[id] = d
        /\ \A j \in DOMAIN r.byID : byID[j] = r.byID[j]
    BY <2>4
  <2> HIDE DEF attrs, byID, s
  <2>9. /\ IsFiniteSet(DOMAIN byID)
        /\ Cardinality(DOMAIN byID) <= MaxIDs
    <3>1. IsFiniteSet(DOMAIN r.byID) /\ Cardinality(DOMAIN r.byID) \in Nat
          /\ Cardinality(DOMAIN byID) = Cardinality(DOMAIN r.byID) + 1
      BY <2>4, <2>8, FS_AddElement, FS_CardinalityType DEF Index
    <3> QED BY <1>3, <2>8, <3>1, FS_AddElement, MetadataAssumption
  <2>10. \A j \in DOMAIN byID : byID[j] \in DOMAIN attrs
    BY <2>7, <2>8 DEF Index
  <2>11. ASSUME NEW e \in DOMAIN attrs
         PROVE  /\ IDsOf(attrs[e].ids) = {j \in DOMAIN byID : byID[j] = e}
                /\ Cardinality(IDsOf(attrs[e].ids)) = Len(attrs[e].ids)
    <3>1. /\ IDsOf(r.attrs[e].ids) = {j \in DOMAIN r.byID : r.byID[j] = e}
          /\ Cardinality(IDsOf(r.attrs[e].ids)) = Len(r.attrs[e].ids)
      BY <2>7 DEF Index
    <3>2. CASE e # d
      BY <2>7, <2>8, <3>1, <3>2
    <3>3. CASE e = d
      <4>1. r.attrs[d].ids \in Seq(Nat)
        BY <2>5 DEF Descriptor
      <4>2. IDsOf(attrs[d].ids) = IDsOf(r.attrs[d].ids) \cup {id}
        BY <2>6, <2>7, <4>1, IDsOfAppend
      <4>3. IDsOf(attrs[d].ids) = {j \in DOMAIN byID : byID[j] = d}
        BY <2>8, <3>1, <3>3, <4>2
      <4>4. IsFiniteSet(IDsOf(r.attrs[d].ids)) /\ id \notin IDsOf(r.attrs[d].ids)
        <5>1. IDsOf(r.attrs[d].ids) \subseteq DOMAIN r.byID
          BY <3>1, <3>3
        <5> QED BY <2>4, <5>1, FS_Subset DEF Index
      <4>5. Cardinality(IDsOf(attrs[d].ids)) = Cardinality(IDsOf(r.attrs[d].ids)) + 1
        BY <4>2, <4>4, FS_AddElement
      <4>6. Len(attrs[d].ids) = Len(r.attrs[d].ids) + 1
        BY <2>6, <2>7, <4>1
      <4> QED BY <3>1, <3>3, <4>3, <4>5, <4>6
    <3> QED BY <3>2, <3>3
  <2>12. Index(s)
    BY <2>3, <2>7, <2>9, <2>10, <2>11 DEF Index
  <2>13. Kept(r, s)
    BY <2>3, <2>6, <2>7 DEF Kept
  <2>14. \A j \in DOMAIN s.byID : s.byID[j] = d \/ (j \in DOMAIN r.byID /\ s.byID[j] = r.byID[j])
    BY <2>3, <2>8
  <2> QED BY <2>12, <2>13, <2>14 DEF s
<1> QED BY <1>1, <1>2, <1>3

\* All the IDs of a call of addDescriptor.
LEMMA AddIDs ==
  ASSUME NEW r, Index(r), NEW d \in DOMAIN r.attrs, NEW ids \in Seq(Nat),
         \A id \in IDsOf(ids) \cap DOMAIN r.byID : r.byID[id] = d
  PROVE  Index(addIDs(r, d, ids)) /\ Kept(r, addIDs(r, d, ids))
<1>1. PICK after : IsIDLoop(after, r, d, ids) /\ addIDs(r, d, ids) = after[Len(ids)]
  BY IDLoop
<1> DEFINE Good(s) == /\ Index(s) /\ Kept(r, s)
                      /\ \A id \in IDsOf(ids) \cap DOMAIN s.byID : s.byID[id] = d
           S == {n \in Nat : n <= Len(ids) => Good(after[n])}
<1>2. 0 \in S
  <2>1. after[0] = r
    BY <1>1 DEF IsIDLoop
  <2>2. Good(r)
    BY DEF Kept
  <2> QED BY <2>1, <2>2
<1>3. ASSUME NEW n \in S PROVE n + 1 \in S
  <2> SUFFICES ASSUME n + 1 <= Len(ids) PROVE Good(after[n + 1])
    OBVIOUS
  <2> DEFINE s == after[n]
             id == ids[n + 1]
  <2>1. Good(s)
    OBVIOUS
  <2>2. after[n + 1] = addID(s, d, id)
    BY <1>1 DEF IsIDLoop
  <2>3. id \in Nat /\ id \in IDsOf(ids)
    BY DEF IDsOf
  <2> HIDE DEF s, id
  <2>4. d \in DOMAIN s.attrs
    BY <2>1 DEF Kept
  <2>5. /\ Index(addID(s, d, id)) /\ Kept(s, addID(s, d, id))
        /\ \A j \in DOMAIN addID(s, d, id).byID :
             \/ addID(s, d, id).byID[j] = d
             \/ j \in DOMAIN s.byID /\ addID(s, d, id).byID[j] = s.byID[j]
    BY <2>1, <2>3, <2>4, AddID
  <2>6. Kept(r, addID(s, d, id))
    BY <2>1, <2>5 DEF Kept
  <2> QED BY <2>1, <2>2, <2>5, <2>6
<1>4. S \in SUBSET Nat
  OBVIOUS
<1> HIDE DEF S
<1>5. S = Nat
  BY <1>2, <1>3, <1>4, SetInduction
<1>6. Len(ids) \in S
  BY <1>5
<1> QED BY <1>1, <1>6 DEF S

\* Attributes of no tracepoint have no format.
NoneFalse(r) ==
  \A d \in DOMAIN r.attrs : r.attrs[d].attr.format = None => r.attrs[d].format = FALSE

\* The descriptors have the attributes they had, and a new one has attr.
OldOrNew(r, attr, s) ==
  \A d \in DOMAIN s.attrs :
    s.attrs[d].attr = attr \/ (d \in DOMAIN r.attrs /\ s.attrs[d].attr = r.attrs[d].attr)

\* What the descriptors of a call of addDescriptor leave alone.
Added(r, attr, s) ==
  /\ Layout(s) = Layout(r) /\ s.formats = r.formats
  /\ OldOrNew(r, attr, s)
  /\ s.err \in {"none", "invalid", "limit"}
  /\ NoneFalse(r) => NoneFalse(s)

LEMMA AddNew ==
  ASSUME NEW r, Index(r), r.err = "none", NEW attr \in Attrs, NEW name \in Names,
         NEW ids \in Seq(Nat), owning(r, ids) = {}, Len(r.attrs) < MaxAttrs
  PROVE  LET desc == [attr |-> attr, name |-> name, ids |-> <<>>, format |-> FALSE]
             s == addIDs([r EXCEPT !.attrs = Append(@, desc)], Len(r.attrs) + 1, ids)
         IN  Index(s) /\ Added(r, attr, s)
<1> DEFINE desc == [attr |-> attr, name |-> name, ids |-> <<>>, format |-> FALSE]
           attrs == Append(r.attrs, desc)
           d == Len(r.attrs) + 1
           t == [r EXCEPT !.attrs = attrs]
           s == addIDs(t, d, ids)
<1>1. Shape(r) /\ r.attrs \in Seq(Descriptor) /\ Len(r.attrs) \in Nat
  BY DEF Index
<1>2. desc \in Descriptor /\ desc.ids = <<>> /\ desc.attr = attr /\ desc.format = FALSE
  BY DEF Descriptor
<1> HIDE DEF desc
<1>3. /\ attrs \in Seq(Descriptor) /\ Len(attrs) = d
      /\ DOMAIN attrs = DOMAIN r.attrs \cup {d} /\ d \notin DOMAIN r.attrs
      /\ attrs[d] = desc /\ \A e \in DOMAIN r.attrs : attrs[e] = r.attrs[e]
  BY <1>1, <1>2
<1> HIDE DEF attrs, d
<1>4. /\ Shape(t) /\ t.attrs = attrs /\ t.byID = r.byID /\ t.formats = r.formats
      /\ t.metadata = r.metadata /\ Layout(t) = Layout(r) /\ t.err = r.err
  <2>1. t = [r EXCEPT !.attrs = attrs]
    OBVIOUS
  <2> HIDE DEF t
  <2> QED BY <1>1, <2>1 DEF Shape, Layout
<1> HIDE DEF t
<1>5. Index(t)
  <2>1. Len(attrs) <= MaxAttrs
    BY <1>1, <1>3, MetadataAssumption DEF d
  <2>2. ASSUME NEW e \in DOMAIN attrs
        PROVE  /\ IDsOf(attrs[e].ids) = {id \in DOMAIN r.byID : r.byID[id] = e}
               /\ Cardinality(IDsOf(attrs[e].ids)) = Len(attrs[e].ids)
    <3>1. CASE e = d
      <4>1. IDsOf(attrs[e].ids) = {} /\ Len(attrs[e].ids) = 0
        BY <1>2, <1>3, <3>1 DEF IDsOf
      <4>2. \A id \in DOMAIN r.byID : r.byID[id] # d
        BY <1>3 DEF Index
      <4> QED BY <3>1, <4>1, <4>2, FS_EmptySet
    <3>2. CASE e \in DOMAIN r.attrs
      BY <1>3, <3>2 DEF Index
    <3> QED BY <1>3, <3>1, <3>2
  <2>3. \A id \in DOMAIN r.byID : r.byID[id] \in DOMAIN attrs
    BY <1>3 DEF Index
  <2>4. /\ IsFiniteSet(DOMAIN r.byID) /\ Cardinality(DOMAIN r.byID) <= MaxIDs
        /\ r.metadata \in 0..MaxMetadata
    BY DEF Index
  <2>5. \A e \in DOMAIN attrs :
          /\ IDsOf(attrs[e].ids) = {id \in DOMAIN r.byID : r.byID[id] = e}
          /\ Cardinality(IDsOf(attrs[e].ids)) = Len(attrs[e].ids)
    BY <2>2
  <2>6. /\ Shape(t) /\ t.attrs \in Seq(Descriptor) /\ Len(t.attrs) <= MaxAttrs
        /\ IsFiniteSet(DOMAIN t.byID) /\ Cardinality(DOMAIN t.byID) <= MaxIDs
        /\ t.metadata \in 0..MaxMetadata
    BY <1>3, <1>4, <2>1, <2>4
  <2>7. /\ \A id \in DOMAIN t.byID : t.byID[id] \in DOMAIN t.attrs
        /\ \A e \in DOMAIN t.attrs :
             /\ IDsOf(t.attrs[e].ids) = {id \in DOMAIN t.byID : t.byID[id] = e}
             /\ Cardinality(IDsOf(t.attrs[e].ids)) = Len(t.attrs[e].ids)
    BY <1>4, <2>3, <2>5
  <2> QED BY <2>6, <2>7 DEF Index
<1>6. IDsOf(ids) \cap DOMAIN r.byID = {}
  BY DEF owning
<1>7. Index(s) /\ Kept(t, s)
  BY <1>3, <1>4, <1>5, <1>6, AddIDs
<1> HIDE DEF s
<1>8. Added(r, attr, s)
  <2>1. ASSUME NoneFalse(r) PROVE NoneFalse(s)
    <3>1. DOMAIN s.attrs = DOMAIN r.attrs \cup {d}
      BY <1>3, <1>4, <1>7 DEF Kept
    <3>2. s.attrs[d].format = FALSE
      BY <1>2, <1>3, <1>4, <1>7 DEF Kept
    <3>3. \A e \in DOMAIN r.attrs :
            s.attrs[e].attr = r.attrs[e].attr /\ s.attrs[e].format = r.attrs[e].format
      BY <1>3, <1>4, <1>7 DEF Kept
    <3> QED BY <2>1, <3>1, <3>2, <3>3 DEF NoneFalse
  <2>2. OldOrNew(r, attr, s)
    <3>1. DOMAIN s.attrs = DOMAIN r.attrs \cup {d}
      BY <1>3, <1>4, <1>7 DEF Kept
    <3>2. s.attrs[d].attr = attr
      BY <1>2, <1>3, <1>4, <1>7 DEF Kept
    <3>3. \A e \in DOMAIN r.attrs : s.attrs[e].attr = r.attrs[e].attr
      BY <1>3, <1>4, <1>7 DEF Kept
    <3> QED BY <3>1, <3>2, <3>3 DEF OldOrNew
  <2> QED BY <1>4, <1>7, <2>1, <2>2 DEF Added, Kept
<1>9. Index(s) /\ Added(r, attr, s)
  BY <1>7, <1>8
<1> QED BY <1>9 DEF s, t, d, attrs, desc

\* The name of a descriptor is not in the index.
LEMMA SetName ==
  ASSUME NEW r, Index(r), NEW d \in DOMAIN r.attrs, NEW name \in Names
  PROVE  LET t == [r EXCEPT !.attrs[d].name = name]
         IN  Index(t) /\ Kept(r, t) /\ t.byID = r.byID /\ t.err = r.err
<1> DEFINE new == [r.attrs[d] EXCEPT !.name = name]
           attrs == [r.attrs EXCEPT ![d] = new]
           t == [r EXCEPT !.attrs = attrs]
<1>1. Shape(r) /\ r.attrs \in Seq(Descriptor) /\ r.attrs[d] \in Descriptor
  BY DEF Index
<1>2. new \in Descriptor /\ new.ids = r.attrs[d].ids
      /\ new.attr = r.attrs[d].attr /\ new.format = r.attrs[d].format
  BY <1>1 DEF Descriptor
<1> HIDE DEF new
<1>3. /\ attrs \in Seq(Descriptor) /\ Len(attrs) = Len(r.attrs)
      /\ DOMAIN attrs = DOMAIN r.attrs /\ attrs[d] = new
      /\ \A e \in DOMAIN r.attrs \ {d} : attrs[e] = r.attrs[e]
  BY <1>1, <1>2
<1> HIDE DEF attrs
<1>4. /\ Shape(t) /\ t.attrs = attrs /\ t.byID = r.byID /\ t.formats = r.formats
      /\ t.metadata = r.metadata /\ Layout(t) = Layout(r) /\ t.err = r.err
  BY <1>1 DEF Shape, Layout
<1> HIDE DEF t
<1>5. \A e \in DOMAIN attrs : attrs[e].ids = r.attrs[e].ids
  BY <1>2, <1>3
<1>6. Index(t)
  BY <1>3, <1>4, <1>5 DEF Index
<1>7. Kept(r, t)
  BY <1>2, <1>3, <1>4 DEF Kept
<1> QED BY <1>4, <1>6, <1>7 DEF t, attrs, new

LEMMA AddOwned ==
  ASSUME NEW r, Index(r), r.err = "none", NEW attr \in Attrs, NEW name \in Names,
         NEW ids \in Seq(Nat)
  PROVE  Index(addOwned(r, attr, name, ids)) /\ Added(r, attr, addOwned(r, attr, name, ids))
<1> DEFINE owners == owning(r, ids)
           d == CHOOSE e \in owners : TRUE
           s == addOwned(r, attr, name, ids)
<1>0. Shape(r) /\ Len(r.attrs) \in Nat /\ DOMAIN r.attrs = 1..Len(r.attrs)
  BY DEF Index
<1>1. owners \subseteq DOMAIN r.attrs
  BY DEF owning, Index
<1>2. IsFiniteSet(owners)
  <2>1. IsFiniteSet(1..Len(r.attrs))
    BY <1>0, FS_Interval
  <2> HIDE DEF owners
  <2> QED BY <1>0, <1>1, <2>1, FS_Subset
<1>3. ASSUME NEW why \in {"invalid", "limit"}
      PROVE  Index(Error(r, why)) /\ Added(r, attr, Error(r, why))
  <2>1. NoneFalse(r) => NoneFalse(Error(r, why))
    BY <1>0, ErrorKeeps DEF NoneFalse
  <2>2. OldOrNew(r, attr, Error(r, why))
    BY <1>0, ErrorKeeps DEF OldOrNew
  <2> QED BY <1>0, <2>1, <2>2, ErrorKeeps, ErrorIndex DEF Added
<1>4. CASE \/ \E e \in owners : ~attrsCompatible(r.attrs[e].attr, attr)
           \/ Cardinality(owners) > 1
  <2>1. s = Error(r, "invalid")
    BY <1>4 DEF addOwned
  <2> QED BY <1>3, <2>1
<1>5. CASE /\ ~(\/ \E e \in owners : ~attrsCompatible(r.attrs[e].attr, attr)
                \/ Cardinality(owners) > 1)
           /\ owners = {}
  <2>1. CASE Len(r.attrs) >= MaxAttrs
    <3>1. s = Error(r, "limit")
      BY <1>5, <2>1 DEF addOwned
    <3> QED BY <1>3, <3>1
  <2>2. CASE ~(Len(r.attrs) >= MaxAttrs)
    <3>1. s = addIDs([r EXCEPT !.attrs =
                       Append(@, [attr |-> attr, name |-> name, ids |-> <<>>, format |-> FALSE])],
                     Len(r.attrs) + 1, ids)
      BY <1>5, <2>2 DEF addOwned
    <3>2. Len(r.attrs) < MaxAttrs
      BY <1>0, <2>2, MetadataAssumption
    <3> HIDE DEF s
    <3>3. Index(s) /\ Added(r, attr, s)
      BY <1>5, <3>1, <3>2, AddNew
    <3> QED BY <3>3 DEF s
  <2> QED BY <2>1, <2>2
<1>6. CASE /\ ~(\/ \E e \in owners : ~attrsCompatible(r.attrs[e].attr, attr)
                \/ Cardinality(owners) > 1)
           /\ owners # {}
  <2>1. owners = {d} /\ d \in DOMAIN r.attrs
    <3>1. Cardinality(owners) = 1
      BY <1>2, <1>6, FS_EmptySet, FS_CardinalityType
    <3> QED BY <1>1, <1>2, <3>1, FS_Singleton
  <2>2. \A id \in IDsOf(ids) \cap DOMAIN r.byID : r.byID[id] = d
    BY <2>1 DEF owning
  <2>3. ASSUME NEW t, Index(t), Kept(r, t), t.byID = r.byID, t.err = r.err
        PROVE  Index(addIDs(t, d, ids)) /\ Added(r, attr, addIDs(t, d, ids))
    <3>1. d \in DOMAIN t.attrs
      BY <2>1, <2>3 DEF Kept
    <3>2. Index(addIDs(t, d, ids)) /\ Kept(t, addIDs(t, d, ids))
      BY <2>2, <2>3, <3>1, AddIDs
    <3>3. Kept(r, addIDs(t, d, ids))
      BY <2>3, <3>2 DEF Kept
    <3>4. NoneFalse(r) => NoneFalse(addIDs(t, d, ids))
      BY <3>3 DEF NoneFalse, Kept
    <3>5. OldOrNew(r, attr, addIDs(t, d, ids))
      BY <3>3 DEF OldOrNew, Kept
    <3> QED BY <3>2, <3>3, <3>4, <3>5 DEF Added, Kept
  <2>4. CASE name = NoName
    <3>1. s = addIDs(r, d, ids)
      BY <1>6, <2>4 DEF addOwned
    <3>2. Kept(r, r)
      BY DEF Kept
    <3> QED BY <2>3, <3>1, <3>2
  <2>5. CASE name # NoName /\ r.attrs[d].name \notin {NoName, name}
    <3>1. s = Error(r, "invalid")
      BY <1>6, <2>5 DEF addOwned
    <3> QED BY <1>3, <3>1
  <2>6. CASE name # NoName /\ r.attrs[d].name \in {NoName, name}
    <3>1. s = addIDs([r EXCEPT !.attrs[d].name = name], d, ids)
      BY <1>6, <2>6 DEF addOwned
    <3> HIDE DEF d, s
    <3>2. Index(s) /\ Added(r, attr, s)
      BY <2>1, <2>3, <3>1, SetName
    <3> QED BY <3>2 DEF s
  <2> QED BY <2>4, <2>5, <2>6
<1> QED BY <1>4, <1>5, <1>6

-----------------------------------------------------------------------------
(* The layout *)

Flags(r) == {r.layoutSet, r.suffixLayoutSet, r.suffixIDAll, r.noSampleIDAll}

\* What the layout flags say about the attributes that were compared.
Summary(r, A) ==
  /\ Flags(r) \subseteq BOOLEAN
  /\ r.layoutSet <=> A # {}
  /\ \A a \in A : sampleLookupOffset(a.sampleType) = r.sampleIDOffset
  /\ r.suffixLayoutSet <=> \E a \in A : a.sampleIDAll
  /\ r.noSampleIDAll <=> \E a \in A : ~a.sampleIDAll
  /\ ~(r.suffixLayoutSet /\ r.noSampleIDAll)
  /\ r.suffixLayoutSet =>
       /\ r.suffixIDAll <=> \A a \in A : "IDENTIFIER" \in a.sampleType
       /\ r.suffixIDAll \/ \A a \in A : suffixOf(a.sampleType) = r.suffixMask
       /\ \E a \in A : suffixOf(a.sampleType) = r.suffixMask

LEMMA SummaryCompatible ==
  ASSUME NEW r, NEW A \in SUBSET Attrs, Summary(r, A), NEW a \in A, NEW b \in A
  PROVE  CompatiblePair(a, b)
BY MetadataAssumption DEF Summary, CompatiblePair, Flags

\* Readers with the same layout say the same.
LEMMA SummaryOfLayout ==
  ASSUME NEW r, NEW s, NEW A, Layout(r) = Layout(s), Summary(r, A)
  PROVE  Summary(s, A)
<1>1. /\ s.layoutSet = r.layoutSet /\ s.sampleIDOffset = r.sampleIDOffset
      /\ s.suffixLayoutSet = r.suffixLayoutSet /\ s.suffixMask = r.suffixMask
      /\ s.suffixIDAll = r.suffixIDAll /\ s.noSampleIDAll = r.noSampleIDAll
  BY DEF Layout
<1> QED BY <1>1 DEF Summary, Flags

\* An attribute that does not agree with the layout contradicts one of the
\* attributes before it.
LEMMA DisagreesWithOne ==
  ASSUME NEW r, NEW A \in SUBSET Attrs, Summary(r, A), NEW attr \in Attrs, ~layoutAgrees(r, attr)
  PROVE  \E a \in A : ~CompatiblePair(a, attr)
<1>0. \A a \in Attrs : a.sampleIDAll \in BOOLEAN
  BY MetadataAssumption
<1>1. \A t : "IDENTIFIER" \in suffixOf(t) <=> "IDENTIFIER" \in t
  BY DEF suffixOf, SuffixFields
<1>2. CASE r.layoutSet /\ r.sampleIDOffset # sampleLookupOffset(attr.sampleType)
  BY <1>2 DEF Summary, CompatiblePair
<1>3. CASE attr.sampleIDAll /\ r.noSampleIDAll
  BY <1>0, <1>3 DEF Summary, CompatiblePair
<1>4. CASE /\ attr.sampleIDAll /\ r.suffixLayoutSet
           /\ ~suffixAgrees(r, suffixOf(attr.sampleType))
  <2>1. r.suffixMask # suffixOf(attr.sampleType)
        /\ ~(r.suffixIDAll /\ "IDENTIFIER" \in attr.sampleType)
    BY <1>1, <1>4 DEF suffixAgrees
  <2>2. PICK a \in A : suffixOf(a.sampleType) = r.suffixMask
    BY <1>4 DEF Summary
  <2>3. CASE r.suffixIDAll
    <3>1. "IDENTIFIER" \notin attr.sampleType
      BY <2>1, <2>3
    <3> QED BY <1>4, <2>1, <2>2, <3>1 DEF CompatiblePair, Summary
  <2>4. CASE ~r.suffixIDAll
    <3>1. PICK c \in A : "IDENTIFIER" \notin c.sampleType
      BY <1>4, <2>4 DEF Summary
    <3>2. suffixOf(c.sampleType) = r.suffixMask
      BY <1>4, <2>4 DEF Summary
    <3> QED BY <1>4, <2>1, <3>1, <3>2 DEF CompatiblePair
  <2> QED BY <2>3, <2>4
<1>5. CASE ~attr.sampleIDAll /\ r.suffixLayoutSet
  BY <1>0, <1>5 DEF Summary, CompatiblePair
<1> QED BY <1>2, <1>3, <1>4, <1>5 DEF layoutAgrees

\* What withLayout does to a reader.
AfterLayout(r, attr, s) ==
  /\ Shape(s) /\ s.attrs = r.attrs /\ s.byID = r.byID /\ s.formats = r.formats
  /\ s.metadata = r.metadata /\ s.err = r.err
  /\ s.layoutSet = TRUE /\ s.sampleIDOffset = sampleLookupOffset(attr.sampleType)
  /\ IF attr.sampleIDAll
     THEN /\ s.suffixIDAll = /\ r.suffixLayoutSet => r.suffixIDAll
                             /\ "IDENTIFIER" \in suffixOf(attr.sampleType)
          /\ s.suffixLayoutSet = TRUE /\ s.suffixMask = suffixOf(attr.sampleType)
          /\ s.noSampleIDAll = r.noSampleIDAll
     ELSE /\ s.suffixIDAll = r.suffixIDAll /\ s.suffixLayoutSet = r.suffixLayoutSet
          /\ s.suffixMask = r.suffixMask /\ s.noSampleIDAll = TRUE

LEMMA WithLayout ==
  ASSUME NEW r, Shape(r), NEW attr \in Attrs
  PROVE  AfterLayout(r, attr, withLayout(r, attr))
<1> USE DEF AfterLayout
<1> DEFINE lookup == sampleLookupOffset(attr.sampleType)
           suffix == suffixOf(attr.sampleType)
           all == (r.suffixLayoutSet => r.suffixIDAll) /\ "IDENTIFIER" \in suffix
           s == withLayout(r, attr)
<1>1. CASE attr.sampleIDAll
  <2>1. s = [r EXCEPT !.layoutSet = TRUE, !.sampleIDOffset = lookup, !.suffixIDAll = all,
                      !.suffixLayoutSet = TRUE, !.suffixMask = suffix]
    BY <1>1 DEF withLayout, Shape
  <2> HIDE DEF s, all, lookup, suffix
  <2>2. /\ Shape(s) /\ s.attrs = r.attrs /\ s.byID = r.byID /\ s.formats = r.formats
        /\ s.metadata = r.metadata /\ s.err = r.err
        /\ s.layoutSet = TRUE /\ s.sampleIDOffset = lookup
        /\ s.suffixIDAll = all /\ s.suffixLayoutSet = TRUE /\ s.suffixMask = suffix
        /\ s.noSampleIDAll = r.noSampleIDAll
    BY <2>1 DEF Shape
  <2> QED BY <1>1, <2>2 DEF s, all, lookup, suffix
<1>2. CASE ~attr.sampleIDAll
  <2>1. s = [r EXCEPT !.layoutSet = TRUE, !.sampleIDOffset = lookup, !.noSampleIDAll = TRUE]
    BY <1>2 DEF withLayout, Shape
  <2> HIDE DEF s, lookup
  <2>2. /\ Shape(s) /\ s.attrs = r.attrs /\ s.byID = r.byID /\ s.formats = r.formats
        /\ s.metadata = r.metadata /\ s.err = r.err
        /\ s.layoutSet = TRUE /\ s.sampleIDOffset = lookup
        /\ s.suffixIDAll = r.suffixIDAll /\ s.suffixLayoutSet = r.suffixLayoutSet
        /\ s.suffixMask = r.suffixMask /\ s.noSampleIDAll = TRUE
    BY <2>1 DEF Shape
  <2> QED BY <1>2, <2>2 DEF s, lookup
<1> QED BY <1>1, <1>2

\* One that agrees is added to the summary.
LEMMA AgreesWithAll ==
  ASSUME NEW r, Shape(r), NEW A \in SUBSET Attrs, Summary(r, A), NEW attr \in Attrs,
         layoutAgrees(r, attr)
  PROVE  Summary(withLayout(r, attr), A \cup {attr})
<1> DEFINE s == withLayout(r, attr)
           suffix == suffixOf(attr.sampleType)
           B == A \cup {attr}
<1>0. \A a \in Attrs : a.sampleIDAll \in BOOLEAN
  BY MetadataAssumption
<1>1. \A t : "IDENTIFIER" \in suffixOf(t) <=> "IDENTIFIER" \in t
  BY DEF suffixOf, SuffixFields
<1>2. /\ s.layoutSet = TRUE /\ s.sampleIDOffset = sampleLookupOffset(attr.sampleType)
      /\ attr.sampleIDAll =>
           /\ s.suffixIDAll = ((r.suffixLayoutSet => r.suffixIDAll) /\ "IDENTIFIER" \in suffix)
           /\ s.suffixLayoutSet = TRUE /\ s.suffixMask = suffix
           /\ s.noSampleIDAll = r.noSampleIDAll
      /\ ~attr.sampleIDAll =>
           /\ s.suffixIDAll = r.suffixIDAll /\ s.suffixLayoutSet = r.suffixLayoutSet
           /\ s.suffixMask = r.suffixMask /\ s.noSampleIDAll = TRUE
  BY WithLayout DEF AfterLayout
<1> HIDE DEF s
<1>3. {r.layoutSet, r.suffixLayoutSet, r.suffixIDAll, r.noSampleIDAll} \subseteq BOOLEAN
  BY DEF Summary, Flags
<1>4. \A a \in B : sampleLookupOffset(a.sampleType) = s.sampleIDOffset
  BY <1>2 DEF layoutAgrees, Summary
<1>5. ASSUME attr.sampleIDAll PROVE Summary(s, B)
  <2>1. r.noSampleIDAll = FALSE /\ s.noSampleIDAll = FALSE /\ s.suffixLayoutSet = TRUE
        /\ s.suffixMask = suffix
    BY <1>2, <1>3, <1>5 DEF layoutAgrees
  <2>2. \A a \in B : a.sampleIDAll
    BY <1>0, <1>5, <2>1 DEF Summary
  <2>3. r.suffixLayoutSet \/ A = {}
    BY <1>0, <2>2 DEF Summary
  <2>4. s.suffixIDAll \in BOOLEAN /\ (s.suffixIDAll <=> \A a \in B : "IDENTIFIER" \in a.sampleType)
    <3>1. s.suffixIDAll = ((r.suffixLayoutSet => r.suffixIDAll) /\ "IDENTIFIER" \in suffix)
      BY <1>2, <1>5
    <3>2. CASE A = {}
      <4>1. r.suffixLayoutSet = FALSE
        BY <1>3, <3>2 DEF Summary
      <4> QED BY <1>1, <3>1, <3>2, <4>1
    <3>3. CASE r.suffixLayoutSet
      <4>1. r.suffixIDAll <=> \A a \in A : "IDENTIFIER" \in a.sampleType
        BY <3>3 DEF Summary
      <4> QED BY <1>1, <1>3, <3>1, <3>3, <4>1
    <3> QED BY <2>3, <3>2, <3>3
  <2>5. s.suffixIDAll \/ \A a \in B : suffixOf(a.sampleType) = suffix
    <3>1. CASE A = {}
      BY <3>1
    <3>2. CASE r.suffixLayoutSet
      <4>1. r.suffixMask = suffix \/ (r.suffixIDAll /\ "IDENTIFIER" \in suffix)
        BY <1>5, <3>2 DEF layoutAgrees, suffixAgrees
      <4>2. CASE r.suffixIDAll /\ "IDENTIFIER" \in suffix
        BY <1>2, <1>5, <4>2
      <4>3. CASE ~r.suffixIDAll /\ r.suffixMask = suffix
        BY <3>2, <4>3 DEF Summary
      <4>4. CASE r.suffixIDAll /\ r.suffixMask = suffix
        <5>1. PICK a \in A : suffixOf(a.sampleType) = suffix
          BY <3>2, <4>4 DEF Summary
        <5>2. "IDENTIFIER" \in a.sampleType
          BY <3>2, <4>4 DEF Summary
        <5>3. "IDENTIFIER" \in suffix
          BY <1>1, <5>1, <5>2
        <5> QED BY <4>2, <4>4, <5>3
      <4> QED BY <4>1, <4>2, <4>3, <4>4
    <3> QED BY <2>3, <3>1, <3>2
  <2>6. \E a \in B : suffixOf(a.sampleType) = suffix
    OBVIOUS
  <2>7. Flags(s) \subseteq BOOLEAN
    BY <1>2, <2>1, <2>4 DEF Flags
  <2> HIDE DEF suffix
  <2>8. s.layoutSet /\ B # {} /\ s.suffixLayoutSet /\ ~s.noSampleIDAll
    BY <1>2, <2>1
  <2>9. (\E a \in B : a.sampleIDAll) /\ ~ \E a \in B : ~a.sampleIDAll
    BY <2>2
  <2> HIDE DEF B
  <2> QED BY <1>4, <2>1, <2>4, <2>5, <2>6, <2>7, <2>8, <2>9 DEF Summary
<1>6. ASSUME ~attr.sampleIDAll PROVE Summary(s, B)
  <2>1. r.suffixLayoutSet = FALSE /\ s.suffixLayoutSet = FALSE /\ s.noSampleIDAll = TRUE
    BY <1>2, <1>3, <1>6 DEF layoutAgrees
  <2>2. \A a \in B : ~a.sampleIDAll
    BY <1>0, <1>6, <2>1 DEF Summary
  <2>3. Flags(s) \subseteq BOOLEAN
    BY <1>2, <1>3, <1>6 DEF Flags
  <2>4. s.layoutSet /\ B # {} /\ ~s.suffixLayoutSet /\ s.noSampleIDAll
    BY <1>2, <2>1
  <2>5. (\E a \in B : ~a.sampleIDAll) /\ ~ \E a \in B : a.sampleIDAll
    BY <2>2
  <2> HIDE DEF B
  <2> QED BY <1>4, <2>3, <2>4, <2>5 DEF Summary
<1>7. Summary(s, B)
  BY <1>0, <1>5, <1>6
<1> QED BY <1>7 DEF s

-----------------------------------------------------------------------------
(* addDescriptor *)

\* What a call of addDescriptor does to a reader that has not failed.
Describes(r, attr, s) ==
  /\ Index(s) /\ s.formats = r.formats
  /\ OldOrNew(r, attr, s)
  /\ NoneFalse(r) => NoneFalse(s)
  /\ \/ s.err = "clock"
     \/ s.err = "layout" /\ ~layoutAgrees(r, attr)
     \/ /\ s.err \in {"none", "invalid", "limit"}
        /\ layoutAgrees(r, attr) /\ Layout(s) = Layout(withLayout(r, attr))

LEMMA AddDescriptor ==
  ASSUME NEW r, Index(r), r.err = "none", NEW attr \in Attrs, NEW name \in Names,
         NEW ids \in Seq(Nat)
  PROVE  Describes(r, attr, addDescriptor(r, attr, name, ids))
<1> DEFINE s == addDescriptor(r, attr, name, ids)
           clocked == [r EXCEPT !.clock = IF attr.clock = None THEN @ ELSE attr.clock]
<1>0. Shape(r)
  BY DEF Index
<1>1. CASE attr.clock # None /\ r.clock \notin {None, attr.clock}
  <2>1. s = Error(r, "clock")
    BY <1>1 DEF addDescriptor
  <2> QED BY <1>0, <2>1, ErrorKeeps, ErrorIndex DEF Describes, NoneFalse, OldOrNew
<1>2. CASE ~(attr.clock # None /\ r.clock \notin {None, attr.clock})
  <2>1. s = IF ~layoutAgrees(r, attr) THEN Error(clocked, "layout")
            ELSE addOwned(withLayout(clocked, attr), attr, name, ids)
    BY <1>2 DEF addDescriptor
  <2>2. /\ Shape(clocked) /\ clocked.attrs = r.attrs /\ clocked.byID = r.byID
        /\ clocked.formats = r.formats /\ clocked.metadata = r.metadata
        /\ Layout(clocked) = Layout(r) /\ clocked.err = r.err
    <3> DEFINE c == IF attr.clock = None THEN r.clock ELSE attr.clock
    <3>1. clocked = [r EXCEPT !.clock = c]
      BY <1>0 DEF Shape
    <3> HIDE DEF clocked, c
    <3> QED BY <1>0, <3>1 DEF Shape, Layout
  <2> HIDE DEF clocked, s
  <2>3. Index(clocked)
    BY <2>2 DEF Index
  <2>4. CASE ~layoutAgrees(r, attr)
    <3>1. s = Error(clocked, "layout")
      BY <2>1, <2>4
    <3>2. NoneFalse(r) => NoneFalse(s)
      BY <2>2, <3>1, ErrorKeeps DEF NoneFalse
    <3>3. OldOrNew(r, attr, s)
      BY <2>2, <3>1, ErrorKeeps DEF OldOrNew
    <3>4. Describes(r, attr, s)
      BY <2>2, <2>3, <2>4, <3>1, <3>2, <3>3, ErrorKeeps, ErrorIndex DEF Describes
    <3> QED BY <3>4 DEF s
  <2>5. CASE layoutAgrees(r, attr)
    <3> DEFINE t == withLayout(clocked, attr)
    <3>1. /\ Shape(t) /\ t.attrs = r.attrs /\ t.byID = r.byID /\ t.formats = r.formats
          /\ t.metadata = r.metadata /\ t.err = r.err
      BY <2>2, WithLayout DEF AfterLayout
    <3>2. Layout(t) = Layout(withLayout(r, attr))
      <4>1. /\ clocked.suffixLayoutSet = r.suffixLayoutSet /\ clocked.suffixIDAll = r.suffixIDAll
            /\ clocked.suffixMask = r.suffixMask /\ clocked.noSampleIDAll = r.noSampleIDAll
        BY <2>2 DEF Layout
      <4>2. /\ t.layoutSet = withLayout(r, attr).layoutSet
            /\ t.sampleIDOffset = withLayout(r, attr).sampleIDOffset
            /\ t.suffixLayoutSet = withLayout(r, attr).suffixLayoutSet
            /\ t.suffixMask = withLayout(r, attr).suffixMask
            /\ t.suffixIDAll = withLayout(r, attr).suffixIDAll
            /\ t.noSampleIDAll = withLayout(r, attr).noSampleIDAll
        <5> DEFINE u == withLayout(r, attr)
        <5>1. AfterLayout(r, attr, u) /\ AfterLayout(clocked, attr, t)
          BY <1>0, <2>2, WithLayout
        <5> HIDE DEF t, u
        <5>2. /\ t.layoutSet = u.layoutSet /\ t.sampleIDOffset = u.sampleIDOffset
              /\ t.suffixLayoutSet = u.suffixLayoutSet /\ t.suffixMask = u.suffixMask
              /\ t.suffixIDAll = u.suffixIDAll /\ t.noSampleIDAll = u.noSampleIDAll
          BY <4>1, <5>1 DEF AfterLayout
        <5> QED BY <5>2 DEF u
      <4> QED BY <4>2 DEF Layout
    <3>3. s = addOwned(t, attr, name, ids)
      BY <2>1, <2>5
    <3> HIDE DEF t
    <3>4. Index(t)
      BY <3>1 DEF Index
    <3>5. Index(s) /\ Added(t, attr, s)
      BY <3>1, <3>3, <3>4, AddOwned
    <3>6. NoneFalse(r) => NoneFalse(s)
      BY <3>1, <3>5 DEF Added, NoneFalse
    <3>7. OldOrNew(r, attr, s)
      BY <3>1, <3>5 DEF Added, OldOrNew
    <3>8. Describes(r, attr, s)
      BY <2>5, <3>1, <3>2, <3>5, <3>6, <3>7 DEF Describes, Added
    <3> QED BY <3>8 DEF s
  <2> QED BY <2>4, <2>5
<1> QED BY <1>1, <1>2

-----------------------------------------------------------------------------
(* Features *)

\* s is r with other formats and another count of metadata, or failed.
Counted(r, s) ==
  /\ Index(s) /\ s.attrs = r.attrs /\ Layout(s) = Layout(r)
  /\ s.err \in {r.err, "limit", "invalid"}

LEMMA AddMetadata ==
  ASSUME NEW r, Index(r), NEW n \in Nat
  PROVE  /\ Counted(r, addMetadata(r, n)) /\ addMetadata(r, n).formats = r.formats
         /\ addMetadata(r, n).err \in {r.err, "limit"}
<1>0. Shape(r)
  BY DEF Index
<1>1. CASE r.metadata + n > MaxMetadata
  <2>1. addMetadata(r, n) = Error(r, "limit")
    BY <1>1 DEF addMetadata
  <2> QED BY <1>0, <2>1, ErrorKeeps, ErrorIndex DEF Counted
<1>2. CASE ~(r.metadata + n > MaxMetadata)
  <2> DEFINE m == r.metadata + n
             s == addMetadata(r, n)
  <2>1. m \in 0..MaxMetadata
    BY <1>2, MetadataAssumption DEF Index
  <2>2. s = [r EXCEPT !.metadata = m]
    BY <1>0, <1>2 DEF addMetadata, Shape
  <2> HIDE DEF m, s
  <2>3. /\ Shape(s) /\ s.attrs = r.attrs /\ s.byID = r.byID /\ s.formats = r.formats
        /\ s.metadata = m /\ Layout(s) = Layout(r) /\ s.err = r.err
    BY <1>0, <2>2 DEF Shape, Layout
  <2>4. Index(s)
    BY <2>1, <2>3 DEF Index
  <2> QED BY <2>3, <2>4 DEF Counted, s
<1> QED BY <1>1, <1>2

LEMMA AddFormat ==
  ASSUME NEW r, Index(r), NEW id
  PROVE  Counted(r, addFormat(r, id))
<1>0. Shape(r)
  BY DEF Index
<1>1. CASE r.err # "none"
  BY <1>1 DEF addFormat, Counted
<1>2. CASE r.err = "none" /\ id \in r.formats
  <2>1. addFormat(r, id) = Error(r, "invalid")
    BY <1>2 DEF addFormat
  <2> QED BY <1>0, <2>1, ErrorKeeps, ErrorIndex DEF Counted
<1>3. CASE r.err = "none" /\ id \notin r.formats
  <2> DEFINE fs == r.formats \cup {id}
             s == addFormat(r, id)
  <2>1. s = [r EXCEPT !.formats = fs]
    BY <1>0, <1>3 DEF addFormat, Shape
  <2> HIDE DEF fs, s
  <2>2. /\ Shape(s) /\ s.attrs = r.attrs /\ s.byID = r.byID
        /\ s.metadata = r.metadata /\ Layout(s) = Layout(r) /\ s.err = r.err
    BY <1>0, <2>1 DEF Shape, Layout
  <2>3. Index(s)
    BY <2>2 DEF Index
  <2> QED BY <2>2, <2>3 DEF Counted, s
<1> QED BY <1>1, <1>2, <1>3

\* The readers after each format of parseTracingData.
IsFormatLoop(after, r, ids) ==
  after = [i \in 0..Len(ids) |-> IF i = 0 THEN addMetadata(r, 1) ELSE addFormat(after[i - 1], ids[i])]

LEMMA FormatLoopExists ==
  ASSUME NEW r, NEW ids \in Seq(Nat)
  PROVE  \E after : IsFormatLoop(after, r, ids)
<1> DEFINE first == addMetadata(r, 1)
           Upto(n, g) == g = [i \in 0..n |-> IF i = 0 THEN first ELSE addFormat(g[i - 1], ids[i])]
           S == {n \in Nat : \E g : Upto(n, g)}
<1> HIDE DEF first
<1>1. 0 \in S
  <2>1. Upto(0, [i \in 0..0 |-> first])
    OBVIOUS
  <2> QED BY <2>1
<1>2. ASSUME NEW n \in S PROVE n + 1 \in S
  <2>1. PICK g : Upto(n, g)
    BY <1>2
  <2> DEFINE h == [i \in 0..(n + 1) |-> IF i = n + 1 THEN addFormat(g[n], ids[n + 1]) ELSE g[i]]
  <2>2. \A i \in 0..n : h[i] = g[i]
    OBVIOUS
  <2>3. ASSUME NEW i \in 0..(n + 1)
        PROVE  h[i] = IF i = 0 THEN first ELSE addFormat(h[i - 1], ids[i])
    <3>1. CASE i = n + 1
      BY <2>2, <3>1
    <3>2. CASE i \in 0..n
      <4>1. g[i] = IF i = 0 THEN first ELSE addFormat(g[i - 1], ids[i])
        BY <2>1, <3>2
      <4>2. i # 0 => h[i - 1] = g[i - 1]
        BY <2>2, <3>2
      <4> QED BY <2>2, <3>2, <4>1, <4>2
    <3> QED BY <3>1, <3>2
  <2>4. Upto(n + 1, h)
    BY <2>3
  <2> HIDE DEF h, Upto
  <2>5. \E f : Upto(n + 1, f)
    BY <2>4
  <2> QED BY <2>5
<1>3. S \in SUBSET Nat
  OBVIOUS
<1> HIDE DEF S
<1>4. S = Nat
  BY <1>1, <1>2, <1>3, SetInduction
<1>5. Len(ids) \in S
  BY <1>4
<1> QED BY <1>5 DEF S, IsFormatLoop, first

\* What parseTracingData has read when it attaches the formats.
LEMMA FormatLoop ==
  ASSUME NEW r, Index(r), NEW ids \in Seq(Nat)
  PROVE  \E s : Counted(r, s) /\ parseTracingData(r, ids) = attachFormats(s)
<1> DEFINE after == CHOOSE f : IsFormatLoop(f, r, ids)
<1>1. IsFormatLoop(after, r, ids)
  BY FormatLoopExists
<1>2. parseTracingData(r, ids) = attachFormats(after[Len(ids)])
  BY DEF parseTracingData, IsFormatLoop
<1> HIDE DEF after
<1> DEFINE S == {n \in Nat : n <= Len(ids) => Counted(r, after[n])}
<1>3. 0 \in S
  <2>1. after[0] = addMetadata(r, 1)
    BY <1>1 DEF IsFormatLoop
  <2> QED BY <2>1, AddMetadata
<1>4. ASSUME NEW n \in S PROVE n + 1 \in S
  <2> SUFFICES ASSUME n + 1 <= Len(ids) PROVE Counted(r, after[n + 1])
    OBVIOUS
  <2> DEFINE s == after[n]
  <2>1. Counted(r, s)
    OBVIOUS
  <2>2. after[n + 1] = addFormat(s, ids[n + 1])
    BY <1>1 DEF IsFormatLoop
  <2> HIDE DEF s
  <2>3. Counted(s, after[n + 1])
    BY <2>1, <2>2, AddFormat DEF Counted
  <2> QED BY <2>1, <2>3 DEF Counted
<1>5. S \in SUBSET Nat
  OBVIOUS
<1> HIDE DEF S
<1>6. S = Nat
  BY <1>3, <1>4, <1>5, SetInduction
<1>7. Len(ids) \in S
  BY <1>6
<1>8. Counted(r, after[Len(ids)])
  BY <1>7 DEF S
<1> QED BY <1>2, <1>8

\* FormatsAttached, of any reader.
Attached(r) ==
  \A d \in DOMAIN r.attrs :
    r.attrs[d].format <=> r.attrs[d].attr.format # None /\ r.attrs[d].attr.format \in r.formats

\* The attributes of the descriptors.
Within(r, B) == \A d \in DOMAIN r.attrs : r.attrs[d].attr \in B

LEMMA AttachFormats ==
  ASSUME NEW r, Index(r), NoneFalse(r)
  PROVE  LET s == attachFormats(r)
         IN  /\ Index(s) /\ NoneFalse(s) /\ Layout(s) = Layout(r) /\ s.err = r.err
             /\ s.err = "none" => Attached(s)
             /\ \A B : Within(r, B) => Within(s, B)
<1> DEFINE s == attachFormats(r)
           new == [d \in DOMAIN r.attrs |->
                     IF r.attrs[d].attr.format = None THEN r.attrs[d]
                     ELSE [r.attrs[d] EXCEPT !.format = r.attrs[d].attr.format \in r.formats]]
<1>0. Shape(r) /\ r.attrs \in Seq(Descriptor) /\ \A d \in DOMAIN r.attrs : r.attrs[d] \in Descriptor
  BY DEF Index
<1>1. CASE r.err # "none"
  <2>1. s = r
    BY <1>1 DEF attachFormats
  <2> QED BY <1>1, <2>1
<1>2. CASE r.err = "none"
  <2>1. s = [r EXCEPT !.attrs = new]
    BY <1>0, <1>2 DEF attachFormats, Shape
  <2>2. ASSUME NEW d \in DOMAIN r.attrs
        PROVE  /\ new[d] \in Descriptor /\ new[d].ids = r.attrs[d].ids
               /\ new[d].attr = r.attrs[d].attr
               /\ new[d].attr.format = None => new[d].format = FALSE
               /\ new[d].attr.format # None =>
                    (new[d].format <=> new[d].attr.format \in r.formats)
    <3> DEFINE old == r.attrs[d]
               v == old.attr.format \in r.formats
    <3>1. new[d] = IF old.attr.format = None THEN old ELSE [old EXCEPT !.format = v]
      OBVIOUS
    <3>2. old \in Descriptor /\ (old.attr.format = None => old.format = FALSE)
      BY <1>0 DEF NoneFalse
    <3>3. v \in BOOLEAN
      OBVIOUS
    <3> HIDE DEF old, v, new
    <3>4. CASE old.attr.format = None
      BY <3>1, <3>2, <3>4 DEF old
    <3>5. CASE old.attr.format # None
      <4>1. new[d] = [old EXCEPT !.format = v]
        BY <3>1, <3>5
      <4>2. /\ new[d] \in Descriptor /\ new[d].ids = old.ids /\ new[d].attr = old.attr
            /\ new[d].format = v
        BY <3>2, <3>3, <4>1 DEF Descriptor
      <4> QED BY <3>5, <4>2 DEF old, v
    <3> QED BY <3>4, <3>5
  <2>3. /\ new \in Seq(Descriptor) /\ Len(new) = Len(r.attrs) /\ DOMAIN new = DOMAIN r.attrs
    <3>1. Len(r.attrs) \in Nat /\ DOMAIN r.attrs = 1..Len(r.attrs)
      BY <1>0
    <3>2. new \in [1..Len(r.attrs) -> Descriptor]
      BY <2>2, <3>1
    <3> HIDE DEF new
    <3> QED BY <3>1, <3>2
  <2> HIDE DEF new, s
  <2>4. /\ Shape(s) /\ s.attrs = new /\ s.byID = r.byID /\ s.formats = r.formats
        /\ s.metadata = r.metadata /\ Layout(s) = Layout(r) /\ s.err = r.err
    BY <1>0, <2>1 DEF Shape, Layout
  <2>5. Index(s)
    <3>1. \A d \in DOMAIN new : new[d].ids = r.attrs[d].ids
      BY <2>2, <2>3
    <3>2. /\ Shape(s) /\ s.attrs \in Seq(Descriptor) /\ Len(s.attrs) <= MaxAttrs
          /\ IsFiniteSet(DOMAIN s.byID) /\ Cardinality(DOMAIN s.byID) <= MaxIDs
          /\ s.metadata \in 0..MaxMetadata
      BY <2>3, <2>4 DEF Index
    <3>3. \A d \in DOMAIN r.attrs :
            /\ IDsOf(r.attrs[d].ids) = {id \in DOMAIN r.byID : r.byID[id] = d}
            /\ Cardinality(IDsOf(r.attrs[d].ids)) = Len(r.attrs[d].ids)
      BY DEF Index
    <3>4. \A d \in DOMAIN s.attrs :
            /\ IDsOf(s.attrs[d].ids) = {id \in DOMAIN s.byID : s.byID[id] = d}
            /\ Cardinality(IDsOf(s.attrs[d].ids)) = Len(s.attrs[d].ids)
      BY <2>3, <2>4, <3>1, <3>3
    <3>5. \A id \in DOMAIN s.byID : s.byID[id] \in DOMAIN s.attrs
      BY <2>3, <2>4 DEF Index
    <3> QED BY <3>2, <3>4, <3>5 DEF Index
  <2>6. NoneFalse(s)
    BY <2>2, <2>3, <2>4 DEF NoneFalse
  <2>7. Attached(s)
    BY <2>2, <2>3, <2>4 DEF Attached
  <2>8. \A B : Within(r, B) => Within(s, B)
    BY <2>2, <2>3, <2>4 DEF Within
  <2> QED BY <2>4, <2>5, <2>6, <2>7, <2>8 DEF s
<1> QED BY <1>1, <1>2

-----------------------------------------------------------------------------
(* What the kernel writes *)

\* The fields of records and of reads.
Text ==
  {"header", "body", "IDENTIFIER", "IP", "TID", "TIME", "ADDR", "ID", "STREAM_ID", "CPU", "PERIOD",
   "nr", "value", "ENABLED", "RUNNING", "READ_ID", "LOST", "depth", "frame", "size", "raw", "other"}

CellType == [of : Text, n : Nat]

IDNames == {"ID", "IDENTIFIER"}

\* The words up to each field of Words.
IsWordLoop(upto, order, fields, id) ==
  upto = [i \in 0..Len(order) |->
            IF i = 0 THEN <<>> ELSE upto[i - 1] \o WordIf(order[i], fields, id)]

LEMMA WordLoopExists ==
  ASSUME NEW order, Len(order) \in Nat, NEW fields, NEW id
  PROVE  \E upto : IsWordLoop(upto, order, fields, id)
<1> DEFINE Upto(n, g) == g = [i \in 0..n |->
                           IF i = 0 THEN <<>> ELSE g[i - 1] \o WordIf(order[i], fields, id)]
           S == {n \in Nat : \E g : Upto(n, g)}
<1>1. 0 \in S
  <2>1. Upto(0, [i \in 0..0 |-> <<>>])
    OBVIOUS
  <2> QED BY <2>1
<1>2. ASSUME NEW n \in S PROVE n + 1 \in S
  <2>1. PICK g : Upto(n, g)
    BY <1>2
  <2> DEFINE h == [i \in 0..(n + 1) |->
                     IF i = n + 1 THEN g[n] \o WordIf(order[n + 1], fields, id) ELSE g[i]]
  <2>2. \A i \in 0..n : h[i] = g[i]
    OBVIOUS
  <2>3. ASSUME NEW i \in 0..(n + 1)
        PROVE  h[i] = IF i = 0 THEN <<>> ELSE h[i - 1] \o WordIf(order[i], fields, id)
    <3>1. CASE i = n + 1
      BY <2>2, <3>1
    <3>2. CASE i \in 0..n
      <4>1. g[i] = IF i = 0 THEN <<>> ELSE g[i - 1] \o WordIf(order[i], fields, id)
        BY <2>1, <3>2
      <4>2. i # 0 => h[i - 1] = g[i - 1]
        BY <2>2, <3>2
      <4> QED BY <2>2, <3>2, <4>1, <4>2
    <3> QED BY <3>1, <3>2
  <2>4. Upto(n + 1, h)
    BY <2>3
  <2> HIDE DEF h, Upto
  <2>5. \E f : Upto(n + 1, f)
    BY <2>4
  <2> QED BY <2>5
<1>3. S \in SUBSET Nat
  OBVIOUS
<1> HIDE DEF S
<1>4. S = Nat
  BY <1>1, <1>2, <1>3, SetInduction
<1>5. Len(order) \in S
  BY <1>4
<1> QED BY <1>5 DEF S, IsWordLoop

LEMMA WordIfType ==
  ASSUME NEW f \in Text, NEW fields, NEW id \in Nat
  PROVE  LET w == WordIf(f, fields, id) IN
         /\ w \in Seq(CellType)
         /\ Len(w) = IF f \in fields THEN 2 ELSE 0
         /\ f \in fields => w[1].of = f /\ (f \in IDNames => w[1].n = id)
<1> DEFINE c == Cell(f, IF f \in {"ID", "IDENTIFIER"} THEN id ELSE 0)
<1>1. c \in CellType /\ c.of = f /\ (f \in IDNames => c.n = id)
  BY DEF Cell, CellType, IDNames
<1>2. WordIf(f, fields, id) = IF f \notin fields THEN <<>> ELSE <<c, c>>
  BY DEF WordIf, Word
<1> HIDE DEF c
<1>3. CASE f \notin fields
  BY <1>2, <1>3
<1>4. CASE f \in fields
  BY <1>1, <1>2, <1>4
<1> QED BY <1>3, <1>4

WordSteps(upto, order, fields, id) ==
  /\ Words(order, fields, id) = upto[Len(order)]
  /\ upto[0] = <<>>
  /\ \A i \in 1..Len(order) : upto[i] = upto[i - 1] \o WordIf(order[i], fields, id)
  /\ \A i \in 0..Len(order) : upto[i] \in Seq(CellType)

LEMMA WordLoop ==
  ASSUME NEW order \in Seq(Text), NEW fields, NEW id \in Nat
  PROVE  \E upto : WordSteps(upto, order, fields, id)
<1> DEFINE upto == CHOOSE g : IsWordLoop(g, order, fields, id)
           S == {n \in Nat : n <= Len(order) => upto[n] \in Seq(CellType)}
<1>1. IsWordLoop(upto, order, fields, id)
  BY WordLoopExists
<1>2. Words(order, fields, id) = upto[Len(order)]
  BY DEF Words, IsWordLoop
<1> HIDE DEF upto
<1>3. upto[0] = <<>> /\ \A i \in 1..Len(order) : upto[i] = upto[i - 1] \o WordIf(order[i], fields, id)
  BY <1>1 DEF IsWordLoop
<1>4. 0 \in S
  <2> DEFINE none == <<>>
  <2>1. none \in Seq(CellType)
    OBVIOUS
  <2>2. upto[0] = none
    BY <1>3
  <2> HIDE DEF none
  <2> QED BY <2>1, <2>2
<1>5. ASSUME NEW n \in S PROVE n + 1 \in S
  <2> SUFFICES ASSUME n + 1 <= Len(order) PROVE upto[n + 1] \in Seq(CellType)
    OBVIOUS
  <2>0. n + 1 \in 1..Len(order) /\ (n + 1) - 1 = n
    OBVIOUS
  <2>1. upto[n + 1] = upto[n] \o WordIf(order[n + 1], fields, id)
    BY <1>3, <2>0
  <2>2. upto[n] \in Seq(CellType)
    BY <1>5
  <2>3. WordIf(order[n + 1], fields, id) \in Seq(CellType)
    <3>1. order[n + 1] \in Text
      BY <2>0, ElementOfSeq
    <3> QED BY <3>1, WordIfType
  <2> QED BY <2>1, <2>2, <2>3, ConcatProperties
<1> HIDE DEF S
<1>6. S = Nat
  BY <1>4, <1>5, SetInduction DEF S
<1>7. \A i \in 0..Len(order) : upto[i] \in Seq(CellType)
  BY <1>6 DEF S
<1>8. WordSteps(upto, order, fields, id)
  BY <1>2, <1>3, <1>7 DEF WordSteps
<1> QED BY <1>8

LEMMA WordsType ==
  ASSUME NEW order \in Seq(Text), NEW fields, NEW id \in Nat
  PROVE  Words(order, fields, id) \in Seq(CellType) /\ Len(Words(order, fields, id)) \in Nat
<1>1. Len(order) \in 0..Len(order)
  OBVIOUS
<1>2. PICK upto : WordSteps(upto, order, fields, id)
  BY WordLoop
<1>3. Words(order, fields, id) \in Seq(CellType)
  BY <1>1, <1>2 DEF WordSteps
<1> QED BY <1>3, LenProperties

-----------------------------------------------------------------------------
(* Where it is in a record *)

Holds(data, p, w) ==
  p + Len(w) <= Len(data) /\ \A j \in 1..Len(w) : data[p + j] = w[j]

LEMMA HoldsConcat ==
  ASSUME NEW data \in Seq(CellType), NEW p \in Nat, NEW a \in Seq(CellType), NEW b \in Seq(CellType),
         Holds(data, p, a \o b)
  PROVE  Holds(data, p, a) /\ Holds(data, p + Len(a), b)
<1>1. /\ Len(a \o b) = Len(a) + Len(b) /\ Len(a) \in Nat /\ Len(b) \in Nat
      /\ \A i \in 1 .. Len(a) + Len(b) : (a \o b)[i] = IF i <= Len(a) THEN a[i] ELSE b[i - Len(a)]
  BY ConcatProperties
<1> DEFINE m == Len(a)
           n == Len(b)
           w == a \o b
           top == Len(data)
<1>2. /\ m \in Nat /\ n \in Nat /\ Len(w) = m + n /\ top \in Nat
      /\ \A i \in 1 .. m + n : w[i] = IF i <= m THEN a[i] ELSE b[i - m]
  BY <1>1
<1>3. p + Len(w) <= top /\ \A j \in 1..Len(w) : data[p + j] = w[j]
  BY DEF Holds
<1> HIDE DEF m, n, w, top
<1>4. p + m <= top /\ (p + m) + n <= top
  BY <1>2, <1>3
<1>5. ASSUME NEW j \in 1..m PROVE data[p + j] = a[j]
  <2>1. j \in 1 .. m + n /\ j <= m
    BY <1>2
  <2> QED BY <1>2, <1>3, <2>1
<1>6. ASSUME NEW j \in 1..n PROVE data[(p + m) + j] = b[j]
  <2>1. m + j \in 1 .. m + n /\ ~(m + j <= m) /\ (m + j) - m = j /\ (p + m) + j = p + (m + j)
    BY <1>2
  <2>2. w[m + j] = b[j]
    BY <1>2, <2>1
  <2>3. data[p + (m + j)] = w[m + j]
    BY <1>2, <1>3, <2>1
  <2> QED BY <2>1, <2>2, <2>3
<1> QED BY <1>4, <1>5, <1>6 DEF Holds, m, n, top

LEMMA HoldsItself ==
  ASSUME NEW data \in Seq(CellType)
  PROVE  Holds(data, 0, data)
<1>1. Len(data) \in Nat
  OBVIOUS
<1> QED BY <1>1 DEF Holds

\* Each field of Words is in the record behind the ones before it.
LEMMA WordsHold ==
  ASSUME NEW order \in Seq(Text), NEW fields, NEW id \in Nat, NEW data \in Seq(CellType), NEW p \in Nat,
         NEW upto, WordSteps(upto, order, fields, id), Holds(data, p, Words(order, fields, id))
  PROVE  \A i \in 1..Len(order) :
           Holds(data, p + Len(upto[i - 1]), WordIf(order[i], fields, id))
<1> DEFINE top == Len(order)
           S == {n \in Nat : n <= top => Holds(data, p, upto[top - n])}
<1>0. top \in Nat
  OBVIOUS
<1>1. ASSUME NEW i \in 1..top, Holds(data, p, upto[i])
      PROVE  Holds(data, p, upto[i - 1]) /\ Holds(data, p + Len(upto[i - 1]), WordIf(order[i], fields, id))
  <2>1. upto[i] = upto[i - 1] \o WordIf(order[i], fields, id)
    BY DEF WordSteps
  <2>2. upto[i - 1] \in Seq(CellType)
    BY DEF WordSteps
  <2>3. WordIf(order[i], fields, id) \in Seq(CellType)
    <3>1. order[i] \in Text
      BY ElementOfSeq
    <3> QED BY <3>1, WordIfType
  <2> QED BY <1>1, <2>1, <2>2, <2>3, HoldsConcat
<1> HIDE DEF top
<1>2. 0 \in S
  <2>1. Holds(data, p, upto[top])
    BY DEF WordSteps, top
  <2> QED BY <1>0, <2>1
<1>3. ASSUME NEW n \in S PROVE n + 1 \in S
  <2> SUFFICES ASSUME n + 1 <= top PROVE Holds(data, p, upto[top - (n + 1)])
    OBVIOUS
  <2>1. top - n \in 1..top /\ (top - n) - 1 = top - (n + 1) /\ n <= top
    BY <1>0
  <2> QED BY <1>1, <1>3, <2>1
<1> HIDE DEF S
<1>4. S = Nat
  BY <1>2, <1>3, SetInduction DEF S
<1>5. ASSUME NEW i \in 1..top PROVE Holds(data, p, upto[i])
  <2>1. top - i \in Nat /\ top - i <= top /\ top - (top - i) = i
    BY <1>0
  <2>2. top - i \in S
    BY <1>4, <2>1
  <2> QED BY <2>1, <2>2 DEF S
<1> QED BY <1>1, <1>5 DEF top

-----------------------------------------------------------------------------
(* The cursor *)

Got == Text \X CellType

\* A cursor at p that found what it asked for, the IDs being id.
Good(c, data, p, id) ==
  /\ c = [data |-> data, pos |-> p, got |-> c.got, ok |-> TRUE]
  /\ c.got \in Seq(Got)
  /\ \A i \in 1..Len(c.got) :
       /\ c.got[i][1] = c.got[i][2].of
       /\ c.got[i][1] \in IDNames => c.got[i][2].n = id

Asked(c) == {c.got[i][1] : i \in 1..Len(c.got)}

LEMMA NewCursor ==
  ASSUME NEW data, NEW p \in Nat, NEW id \in Nat
  PROVE  Good(Cursor(data, p), data, p, id) /\ Asked(Cursor(data, p)) = {}
<1> DEFINE none == <<>>
<1>1. none \in Seq(Got) /\ Len(none) = 0
  OBVIOUS
<1>2. Cursor(data, p) = [data |-> data, pos |-> p, got |-> none, ok |-> TRUE]
  BY DEF Cursor
<1> HIDE DEF none
<1> QED BY <1>1, <1>2 DEF Good, Asked

Fits(f, cell, id) == cell.of = f /\ (f \in IDNames => cell.n = id)

More(c, data, q, f, cell) ==
  [data |-> data, pos |-> q, got |-> Append(c.got, <<f, cell>>), ok |-> TRUE]

LEMMA AppendGot ==
  ASSUME NEW data \in Seq(CellType), NEW p \in Nat, NEW q \in Nat, NEW id \in Nat, NEW c, Good(c, data, p, id),
         NEW f \in Text, NEW cell \in CellType, Fits(f, cell, id)
  PROVE  /\ Good(More(c, data, q, f, cell), data, q, id)
         /\ Asked(More(c, data, q, f, cell)) = Asked(c) \cup {f}
         /\ number(More(c, data, q, f, cell)) = cell.n
<1> DEFINE d == More(c, data, q, f, cell)
           e == <<f, cell>>
           old == c.got
           new == Append(old, e)
           k == Len(old)
<1>0. cell.of = f /\ (f \in IDNames => cell.n = id)
  BY DEF Fits
<1>1. e \in Got /\ e[1] = f /\ e[2] = cell
  BY DEF Got
<1>2. /\ old \in Seq(Got)
      /\ \A i \in 1..k : /\ old[i][1] = old[i][2].of
                         /\ old[i][1] \in IDNames => old[i][2].n = id
  BY DEF Good
<1> HIDE DEF e, old
<1>3. /\ new \in Seq(Got) /\ Len(new) = k + 1 /\ k \in Nat
      /\ \A i \in 1..k : new[i] = old[i]
      /\ new[k + 1] = e
  BY <1>1, <1>2, AppendProperties
<1>4. d.got = new /\ d = [data |-> data, pos |-> q, got |-> d.got, ok |-> TRUE]
  BY DEF e, old, More
<1> HIDE DEF new, k, d
<1>5. \A i \in 1..(k + 1) : i \in 1..k \/ i = k + 1
  BY <1>3
<1>6. Good(d, data, q, id)
  <2>1. \A i \in 1..Len(new) : /\ new[i][1] = new[i][2].of
                               /\ new[i][1] \in IDNames => new[i][2].n = id
    BY <1>0, <1>1, <1>2, <1>3, <1>5
  <2> QED BY <1>3, <1>4, <2>1 DEF Good
<1>7. Asked(d) = Asked(c) \cup {f}
  <2>1. Asked(d) = {new[i][1] : i \in 1..(k + 1)} /\ Asked(c) = {old[i][1] : i \in 1..k}
    BY <1>3, <1>4 DEF Asked, old, k
  <2>2. k + 1 \in 1..(k + 1) /\ \A i \in 1..k : i \in 1..(k + 1)
    BY <1>3
  <2>3. \A i \in 1..k : new[i][1] = old[i][1]
    BY <1>3
  <2>4. new[k + 1][1] = f
    BY <1>1, <1>3
  <2>5. Asked(d) \subseteq Asked(c) \cup {f}
    BY <1>5, <2>1, <2>3, <2>4
  <2>6. Asked(c) \cup {f} \subseteq Asked(d)
    BY <2>1, <2>2, <2>3, <2>4
  <2> QED BY <2>5, <2>6
<1>8. number(d) = cell.n
  BY <1>1, <1>3, <1>4 DEF number, Last
<1> QED BY <1>6, <1>7, <1>8 DEF d

LEMMA TakeGood ==
  ASSUME NEW data \in Seq(CellType), NEW p \in Nat, NEW id \in Nat, NEW c, Good(c, data, p, id),
         NEW f \in Text, NEW width \in {1, 2}, p + width <= Len(data),
         data[p + 1].of = f, f \in IDNames => data[p + 1].n = id
  PROVE  LET d == take(c, f, width) IN
         /\ Good(d, data, p + width, id)
         /\ Asked(d) = Asked(c) \cup {f}
         /\ number(d) = data[p + 1].n
<1> DEFINE d == take(c, f, width)
           found == data[p + 1]
<1>1. c.ok = TRUE /\ c.data = data /\ c.pos = p /\ c = [data |-> data, pos |-> p, got |-> c.got, ok |-> TRUE]
  BY DEF Good
<1>2. Len(data) \in Nat /\ p + 1 \in 1..Len(data)
  OBVIOUS
<1>3. found \in CellType
  BY <1>2, ElementOfSeq
<1>4. ~(remaining(c) < width)
  BY <1>1, <1>2 DEF remaining
<1>5. d = [c EXCEPT !.pos = p + width, !.got = Append(c.got, <<f, found>>)]
  BY <1>1, <1>4 DEF take
<1> HIDE DEF found
<1>6. d = [data |-> data, pos |-> p + width, got |-> Append(c.got, <<f, found>>), ok |-> TRUE]
  BY <1>1, <1>5
<1>7. Fits(f, found, id)
  BY DEF found, Fits
<1> DEFINE next == p + width
<1> HIDE DEF d, next
<1>8. Good(d, data, next, id) /\ Asked(d) = Asked(c) \cup {f} /\ number(d) = found.n
  <2>1. d = More(c, data, next, f, found) /\ next \in Nat
    BY <1>6 DEF next, More
  <2>2. /\ Good(More(c, data, next, f, found), data, next, id)
        /\ Asked(More(c, data, next, f, found)) = Asked(c) \cup {f}
        /\ number(More(c, data, next, f, found)) = found.n
    BY <1>3, <1>7, <2>1, AppendGot
  <2> QED BY <2>1, <2>2
<1> QED BY <1>8 DEF found, d, next

IsReadLoop(after, c, order, fields) ==
  after = [i \in 0..Len(order) |->
             IF i = 0 THEN c ELSE u64If(after[i - 1], order[i] \in fields, order[i])]

LEMMA ReadLoopExists ==
  ASSUME NEW c, NEW order, Len(order) \in Nat, NEW fields
  PROVE  \E after : IsReadLoop(after, c, order, fields)
<1> DEFINE Upto(n, g) == g = [i \in 0..n |->
                           IF i = 0 THEN c ELSE u64If(g[i - 1], order[i] \in fields, order[i])]
           S == {n \in Nat : \E g : Upto(n, g)}
<1>1. 0 \in S
  <2>1. Upto(0, [i \in 0..0 |-> c])
    OBVIOUS
  <2> QED BY <2>1
<1>2. ASSUME NEW n \in S PROVE n + 1 \in S
  <2>1. PICK g : Upto(n, g)
    BY <1>2
  <2> DEFINE h == [i \in 0..(n + 1) |->
                     IF i = n + 1 THEN u64If(g[n], order[n + 1] \in fields, order[n + 1]) ELSE g[i]]
  <2>2. \A i \in 0..n : h[i] = g[i]
    OBVIOUS
  <2>3. ASSUME NEW i \in 0..(n + 1)
        PROVE  h[i] = IF i = 0 THEN c ELSE u64If(h[i - 1], order[i] \in fields, order[i])
    <3>1. CASE i = n + 1
      BY <2>2, <3>1
    <3>2. CASE i \in 0..n
      <4>1. g[i] = IF i = 0 THEN c ELSE u64If(g[i - 1], order[i] \in fields, order[i])
        BY <2>1, <3>2
      <4>2. i # 0 => h[i - 1] = g[i - 1]
        BY <2>2, <3>2
      <4> QED BY <2>2, <3>2, <4>1, <4>2
    <3> QED BY <3>1, <3>2
  <2>4. Upto(n + 1, h)
    BY <2>3
  <2> HIDE DEF h, Upto
  <2>5. \E f : Upto(n + 1, f)
    BY <2>4
  <2> QED BY <2>5
<1>3. S \in SUBSET Nat
  OBVIOUS
<1> HIDE DEF S
<1>4. S = Nat
  BY <1>1, <1>2, <1>3, SetInduction
<1>5. Len(order) \in S
  BY <1>4
<1> QED BY <1>5 DEF S, IsReadLoop

Named(order, n) == {order[i] : i \in 1..n}

\* d is c after the fields.
ReadOn(c, d, data, q, id, order, fields) ==
  Good(d, data, q, id) /\ Asked(d) = Asked(c) \cup (Named(order, Len(order)) \cap fields)

\* Fields that the kernel wrote one after another are read one after another.
LEMMA EachGood ==
  ASSUME NEW order \in Seq(Text), NEW fields, NEW asked, NEW m \in Nat, NEW id \in Nat,
         \A i \in 1..Len(order) : order[i] \in asked <=> order[i] \in fields,
         \A i \in 1..Len(order) : order[i] \in IDNames => m = id,
         NEW data \in Seq(CellType), NEW p \in Nat, NEW c, Good(c, data, p, id),
         Holds(data, p, Words(order, fields, m))
  PROVE  LET d == u64Each(c, order, asked) IN
         ReadOn(c, d, data, p + Len(Words(order, fields, m)), id, order, fields)
<1> DEFINE after == CHOOSE g : IsReadLoop(g, c, order, asked)
           top == Len(order)
<1>0. top \in Nat
  OBVIOUS
<1>1. IsReadLoop(after, c, order, asked) /\ top \in Nat
  BY <1>0, ReadLoopExists
<1>2. u64Each(c, order, asked) = after[top]
  BY DEF u64Each, IsReadLoop
<1> HIDE DEF after, top
<1>3. /\ after[0] = c
      /\ \A i \in 1..top : after[i] = u64If(after[i - 1], order[i] \in asked, order[i])
  BY <1>1 DEF IsReadLoop, top
<1>4. PICK upto : WordSteps(upto, order, fields, m)
  BY WordLoop
<1>5. \A i \in 1..top : Holds(data, p + Len(upto[i - 1]), WordIf(order[i], fields, m))
  BY <1>4, WordsHold DEF top
<1>6. /\ \A i \in 1..top : upto[i] = upto[i - 1] \o WordIf(order[i], fields, m)
      /\ \A i \in 0..top : upto[i] \in Seq(CellType) /\ Len(upto[i]) \in Nat
      /\ Words(order, fields, m) = upto[top]
  <2>1. \A i \in 0..top : upto[i] \in Seq(CellType)
    BY <1>4 DEF WordSteps, top
  <2>2. \A i \in 0..top : Len(upto[i]) \in Nat
    BY <2>1, LenProperties
  <2>3. \A i \in 1..top : upto[i] = upto[i - 1] \o WordIf(order[i], fields, m)
    BY <1>4 DEF WordSteps, top
  <2>4. Words(order, fields, m) = upto[top]
    BY <1>4 DEF WordSteps, top
  <2> QED BY <2>1, <2>2, <2>3, <2>4
<1>60. Len(upto[0]) = 0
  <2>1. upto[0] = <<>>
    BY <1>4 DEF WordSteps
  <2> QED BY <2>1
<1> DEFINE At(n) == /\ Good(after[n], data, p + Len(upto[n]), id)
                    /\ Asked(after[n]) = Asked(c) \cup (Named(order, n) \cap fields)
           S == {n \in Nat : n <= top => At(n)}
<1>7. 0 \in S
  <2>1. Named(order, 0) = {} /\ p + Len(upto[0]) = p
    BY <1>60 DEF Named
  <2> QED BY <1>3, <2>1
<1>8. ASSUME NEW n \in S PROVE n + 1 \in S
  <2> SUFFICES ASSUME n + 1 <= top PROVE At(n + 1)
    OBVIOUS
  <2> DEFINE f == order[n + 1]
             w == WordIf(f, fields, m)
             q == p + Len(upto[n])
             r == p + Len(upto[n + 1])
  <2>1. n + 1 \in 1..top /\ (n + 1) - 1 = n /\ n \in 0..top /\ n + 1 \in 0..top /\ n <= top
    BY <1>1
  <2>2. At(n)
    BY <1>8, <2>1
  <2>3. f \in Text /\ (f \in IDNames => m = id) /\ (f \in asked <=> f \in fields)
    BY <2>1, ElementOfSeq DEF top
  <2>4. /\ w \in Seq(CellType) /\ Len(w) = IF f \in fields THEN 2 ELSE 0
        /\ f \in fields => w[1].of = f /\ (f \in IDNames => w[1].n = m)
    <3> HIDE DEF f
    <3> QED BY <2>3, WordIfType
  <2>5. after[n + 1] = u64If(after[n], f \in asked, f)
    BY <1>3, <2>1
  <2>6. Holds(data, q, w)
    BY <1>5, <2>1
  <2>7. q \in Nat /\ r = q + Len(w)
    <3>1. upto[n + 1] = upto[n] \o w /\ upto[n] \in Seq(CellType) /\ Len(upto[n]) \in Nat
      BY <1>6, <2>1
    <3>2. Len(upto[n + 1]) = Len(upto[n]) + Len(w)
      BY <2>4, <3>1, ConcatProperties
    <3>3. Len(w) \in Nat
      BY <2>4
    <3> HIDE DEF w
    <3> QED BY <3>1, <3>2, <3>3
  <2>8. Named(order, n + 1) = Named(order, n) \cup {f}
    <3>1. 1..(n + 1) = 1..n \cup {n + 1}
      BY <2>1
    <3> QED BY <3>1 DEF Named
  <2>9. Good(after[n], data, q, id) /\ Asked(after[n]) = Asked(c) \cup (Named(order, n) \cap fields)
    BY <2>2
  <2> SUFFICES /\ Good(after[n + 1], data, r, id)
               /\ Asked(after[n + 1]) = Asked(c) \cup (Named(order, n + 1) \cap fields)
    OBVIOUS
  <2> HIDE DEF f, w, q, r, At, S
  <2>10. CASE f \notin fields
    <3>1. after[n + 1] = after[n] /\ r = q
      BY <2>3, <2>4, <2>5, <2>7, <2>10 DEF u64If
    <3> QED BY <2>8, <2>9, <2>10, <3>1
  <2>11. CASE f \in fields
    <3>1. Len(w) = 2 /\ q + 2 <= Len(data) /\ data[q + 1] = w[1]
      BY <2>4, <2>6, <2>11 DEF Holds
    <3>2. data[q + 1].of = f /\ (f \in IDNames => data[q + 1].n = id)
      BY <2>3, <2>4, <2>11, <3>1
    <3>3. after[n + 1] = take(after[n], f, 2)
      BY <2>3, <2>5, <2>11 DEF u64If, u64
    <3>4. Good(after[n + 1], data, q + 2, id) /\ Asked(after[n + 1]) = Asked(after[n]) \cup {f}
      BY <2>3, <2>7, <2>9, <3>1, <3>2, <3>3, TakeGood
    <3> QED BY <2>7, <2>8, <2>9, <2>11, <3>1, <3>4
  <2> QED BY <2>10, <2>11
<1> HIDE DEF S
<1>9. S = Nat
  BY <1>7, <1>8, SetInduction DEF S
<1>10. At(top)
  BY <1>1, <1>9 DEF S
<1> QED BY <1>2, <1>6, <1>10 DEF top, ReadOn

-----------------------------------------------------------------------------
(* Lengths *)

\* The lengths of the words up to each field.
IsLengths(length, upto, order, fields) ==
  /\ length \in [0..Len(order) -> Nat]
  /\ \A i \in 0..Len(order) : length[i] = Len(upto[i])
  /\ length[0] = 0
  /\ \A i \in 1..Len(order) :
       /\ order[i] \in fields => length[i] = length[i - 1] + 2
       /\ order[i] \notin fields => length[i] = length[i - 1]

LEMMA WordLengths ==
  ASSUME NEW order \in Seq(Text), NEW fields, NEW id \in Nat, NEW upto,
         WordSteps(upto, order, fields, id)
  PROVE  \E length : IsLengths(length, upto, order, fields)
<1>1. Len(upto[0]) = 0
  <2>1. upto[0] = <<>>
    BY DEF WordSteps
  <2> QED BY <2>1
<1>2. \A i \in 0..Len(order) : upto[i] \in Seq(CellType)
  BY DEF WordSteps
<1>3. \A i \in 0..Len(order) : Len(upto[i]) \in Nat
  BY <1>2, LenProperties
<1>4. ASSUME NEW i \in 1..Len(order)
      PROVE  Len(upto[i]) = Len(upto[i - 1]) + (IF order[i] \in fields THEN 2 ELSE 0)
  <2> DEFINE f == order[i]
             w == WordIf(f, fields, id)
  <2>1. upto[i] = upto[i - 1] \o w
    BY DEF WordSteps
  <2>2. i - 1 \in 0..Len(order)
    OBVIOUS
  <2>3. upto[i - 1] \in Seq(CellType)
    BY <1>2, <2>2
  <2>4. f \in Text
    BY ElementOfSeq
  <2> HIDE DEF f
  <2>5. w \in Seq(CellType) /\ Len(w) = IF f \in fields THEN 2 ELSE 0
    BY <2>4, WordIfType
  <2> HIDE DEF w
  <2>6. Len(upto[i]) = Len(upto[i - 1]) + Len(w)
    BY <2>1, <2>3, <2>5, ConcatProperties
  <2> QED BY <2>5, <2>6 DEF f
<1> DEFINE top == Len(order)
           length == [i \in 0..top |-> Len(upto[i])]
<1>5. top \in Nat
  OBVIOUS
<1> HIDE DEF top
<1>6. length \in [0..top -> Nat] /\ (\A i \in 0..top : length[i] = Len(upto[i])) /\ length[0] = 0
  BY <1>1, <1>3, <1>5 DEF top
<1>7. ASSUME NEW i \in 1..top
      PROVE  /\ order[i] \in fields => length[i] = length[i - 1] + 2
             /\ order[i] \notin fields => length[i] = length[i - 1]
  <2>1. i \in 0..top /\ i - 1 \in 0..top
    BY <1>5
  <2>2. length[i] = Len(upto[i]) /\ length[i - 1] = Len(upto[i - 1]) /\ length[i - 1] \in Nat
    BY <1>6, <2>1
  <2>3. Len(upto[i]) = Len(upto[i - 1]) + (IF order[i] \in fields THEN 2 ELSE 0)
    BY <1>4 DEF top
  <2> HIDE DEF length
  <2>4. CASE order[i] \in fields
    <3>1. Len(upto[i]) = Len(upto[i - 1]) + 2
      BY <2>3, <2>4
    <3> QED BY <2>2, <2>4, <3>1
  <2>5. CASE order[i] \notin fields
    <3>1. Len(upto[i]) = Len(upto[i - 1])
      BY <2>2, <2>3, <2>5
    <3> QED BY <2>2, <2>5, <3>1
  <2> QED BY <2>4, <2>5
<1> HIDE DEF length
<1>8. IsLengths(length, upto, order, fields)
  BY <1>6, <1>7 DEF IsLengths, top
<1> QED BY <1>8

LEMMA WordsEven ==
  ASSUME NEW order \in Seq(Text), NEW fields, NEW id \in Nat
  PROVE  \E m \in Nat : Len(Words(order, fields, id)) = 2 * m
<1>1. PICK upto : WordSteps(upto, order, fields, id)
  BY WordLoop
<1>10. PICK length : IsLengths(length, upto, order, fields)
  BY <1>1, WordLengths
<1> DEFINE top == Len(order)
           S == {n \in Nat : n <= top => \E m \in Nat : length[n] = 2 * m}
<1>2. /\ top \in Nat /\ length[0] = 0
      /\ \A i \in 1..top : length[i] = length[i - 1] + 2 \/ length[i] = length[i - 1]
  BY <1>10 DEF IsLengths
<1> HIDE DEF top
<1>3. 0 \in S
  BY <1>2
<1>4. ASSUME NEW n \in S PROVE n + 1 \in S
  <2> SUFFICES ASSUME n + 1 <= top PROVE \E m \in Nat : length[n + 1] = 2 * m
    OBVIOUS
  <2>1. PICK m \in Nat : length[n] = 2 * m
    BY <1>2, <1>4
  <2>2. n + 1 \in 1..top /\ (n + 1) - 1 = n
    BY <1>2
  <2>3. length[n + 1] = 2 * m + 2 \/ length[n + 1] = 2 * m
    BY <1>2, <2>1, <2>2
  <2>4. 2 * m + 2 = 2 * (m + 1) /\ m + 1 \in Nat
    OBVIOUS
  <2> QED BY <2>3, <2>4
<1> HIDE DEF S
<1>5. S = Nat
  BY <1>3, <1>4, SetInduction DEF S
<1>6. \E m \in Nat : length[top] = 2 * m
  BY <1>2, <1>5 DEF S
<1>7. length[top] = Len(Words(order, fields, id))
  BY <1>1, <1>2, <1>10 DEF WordSteps, IsLengths, top
<1> QED BY <1>6, <1>7

Distinct(order) == \A i, j \in 1..Len(order) : order[i] = order[j] => i = j

\* The fields chosen among the first n.
Chosen(order, n, fields) == Named(order, n) \cap fields

LEMMA ChosenLengths ==
  ASSUME NEW order \in Seq(Text), Distinct(order), NEW fields, NEW id \in Nat, NEW upto,
         WordSteps(upto, order, fields, id)
  PROVE  \A i \in 0..Len(order) :
           /\ IsFiniteSet(Chosen(order, i, fields))
           /\ Len(upto[i]) = 2 * Cardinality(Chosen(order, i, fields))
<1>1. PICK length : IsLengths(length, upto, order, fields)
  BY WordLengths
<1> DEFINE top == Len(order)
           At(n) == /\ IsFiniteSet(Chosen(order, n, fields))
                    /\ length[n] = 2 * Cardinality(Chosen(order, n, fields))
           S == {n \in Nat : n <= top => At(n)}
<1>2. top \in Nat /\ length[0] = 0 /\ \A i \in 0..top : length[i] \in Nat
  BY <1>1 DEF IsLengths
<1>3. 0 \in S
  <2>1. Chosen(order, 0, fields) = {}
    BY DEF Chosen, Named
  <2> DEFINE A == Chosen(order, 0, fields)
  <2>2. IsFiniteSet(A) /\ Cardinality(A) = 0
    BY <2>1, FS_EmptySet
  <2> HIDE DEF A
  <2>3. 2 * Cardinality(A) = 0
    BY <2>2
  <2>4. length[0] = 2 * Cardinality(A)
    BY <1>2, <2>3
  <2>5. At(0)
    BY <2>2, <2>4 DEF A
  <2> HIDE DEF At
  <2> QED BY <2>5
<1>4. ASSUME NEW n \in S PROVE n + 1 \in S
  <2> SUFFICES ASSUME n + 1 <= top PROVE At(n + 1)
    OBVIOUS
  <2> DEFINE A == Chosen(order, n, fields)
             B == Chosen(order, n + 1, fields)
             f == order[n + 1]
  <2>1. At(n) /\ n + 1 \in 1..top /\ (n + 1) - 1 = n
    BY <1>2, <1>4
  <2>2. 1..(n + 1) = 1..n \cup {n + 1}
    OBVIOUS
  <2>3. \A i \in 1..n : order[i] # f
    BY <2>1 DEF Distinct
  <2>4. B = IF f \in fields THEN A \cup {f} ELSE A
    BY <2>2 DEF Chosen, Named
  <2>5. f \notin A
    BY <2>3 DEF Chosen, Named
  <2>6. IsFiniteSet(A) /\ length[n] = 2 * Cardinality(A)
    BY <2>1
  <2>7. /\ f \in fields => length[n + 1] = length[n] + 2
        /\ f \notin fields => length[n + 1] = length[n]
    BY <1>1, <2>1 DEF IsLengths
  <2> SUFFICES IsFiniteSet(B) /\ length[n + 1] = 2 * Cardinality(B)
    OBVIOUS
  <2> HIDE DEF A, B, f, At, S, top
  <2>8. IsFiniteSet(B) /\ Cardinality(A) \in Nat
        /\ Cardinality(B) = IF f \in fields THEN Cardinality(A) + 1 ELSE Cardinality(A)
    BY <2>4, <2>5, <2>6, FS_AddElement, FS_CardinalityType
  <2> QED BY <2>6, <2>7, <2>8
<1> HIDE DEF S
<1>5. S = Nat
  BY <1>3, <1>4, SetInduction DEF S
<1>6. ASSUME NEW i \in 0..top PROVE At(i)
  <2>1. i \in Nat /\ i <= top
    BY <1>2
  <2> HIDE DEF At
  <2> QED BY <1>5, <2>1 DEF S
<1> QED BY <1>1, <1>6 DEF IsLengths

LEMMA WordsCount ==
  ASSUME NEW order \in Seq(Text), Distinct(order), NEW fields, NEW id \in Nat
  PROVE  Len(Words(order, fields, id)) = 2 * Cardinality(Chosen(order, Len(order), fields))
<1>1. PICK upto : WordSteps(upto, order, fields, id)
  BY WordLoop
<1>2. Len(order) \in 0..Len(order)
  OBVIOUS
<1>3. Len(upto[Len(order)]) = 2 * Cardinality(Chosen(order, Len(order), fields))
  BY <1>1, <1>2, ChosenLengths
<1> QED BY <1>1, <1>3 DEF WordSteps

\* Where a field is.
LEMMA WordAt ==
  ASSUME NEW order \in Seq(Text), Distinct(order), NEW fields, NEW id \in Nat,
         NEW data \in Seq(CellType), NEW p \in Nat, Holds(data, p, Words(order, fields, id)),
         NEW i \in 1..Len(order), order[i] \in fields, order[i] \in IDNames
  PROVE  LET at == p + 2 * Cardinality(Chosen(order, i - 1, fields))
         IN  Cardinality(Chosen(order, i - 1, fields)) \in Nat /\ at + 2 <= Len(data) /\ data[at + 1].n = id
<1> DEFINE f == order[i]
           w == WordIf(f, fields, id)
           k == Cardinality(Chosen(order, i - 1, fields))
<1>1. PICK upto : WordSteps(upto, order, fields, id)
  BY WordLoop
<1>2. i - 1 \in 0..Len(order) /\ f \in Text
  BY ElementOfSeq
<1>3. Len(upto[i - 1]) = 2 * k /\ IsFiniteSet(Chosen(order, i - 1, fields))
  BY <1>1, <1>2, ChosenLengths
<1>4. k \in Nat
  BY <1>3, FS_CardinalityType
<1>5. Holds(data, p + Len(upto[i - 1]), w)
  BY <1>1, WordsHold
<1> HIDE DEF k, f
<1>6. f \in fields /\ f \in IDNames
  BY DEF f
<1>7. w \in Seq(CellType) /\ Len(w) = 2 /\ w[1].n = id
  BY <1>2, <1>6, WordIfType
<1> HIDE DEF w
<1>8. (p + 2 * k) + 2 <= Len(data) /\ data[(p + 2 * k) + 1] = w[1]
  BY <1>3, <1>4, <1>5, <1>7 DEF Holds
<1> QED BY <1>4, <1>7, <1>8 DEF k

LEMMA FramesWords ==
  ASSUME NEW n \in Nat
  PROVE  /\ Frames(n) \in Seq(Text) /\ Len(Frames(n)) = n
         /\ \A i \in 1..n : Frames(n)[i] = "frame"
         /\ Len(Words(Frames(n), {"frame"}, 0)) >= 2 * n
<1> DEFINE order == Frames(n)
<1>0. "frame" \in Text
  BY DEF Text
<1>1. order \in Seq(Text) /\ Len(order) = n /\ \A i \in 1..n : order[i] = "frame"
  <2>1. order = [i \in 1..n |-> "frame"]
    BY DEF Frames
  <2> QED BY <1>0, <2>1, IsASeq
<1> HIDE DEF order
<1>2. PICK upto : WordSteps(upto, order, {"frame"}, 0)
  BY <1>1, WordLoop
<1>20. PICK length : IsLengths(length, upto, order, {"frame"})
  BY <1>1, <1>2, WordLengths
<1> DEFINE S == {m \in Nat : m <= n => length[m] >= 2 * m}
<1>3. length[0] = 0 /\ \A i \in 1..n : length[i] = length[i - 1] + 2
  BY <1>1, <1>20 DEF IsLengths
<1>4. \A i \in 0..n : length[i] \in Nat
  BY <1>1, <1>20 DEF IsLengths
<1>5. 0 \in S
  BY <1>3
<1>6. ASSUME NEW m \in S PROVE m + 1 \in S
  <2> SUFFICES ASSUME m + 1 <= n PROVE length[m + 1] >= 2 * (m + 1)
    OBVIOUS
  <2>1. m + 1 \in 1..n /\ (m + 1) - 1 = m /\ m \in 0..n /\ length[m] >= 2 * m
    BY <1>6
  <2>2. length[m + 1] = length[m] + 2 /\ length[m] \in Nat
    BY <1>3, <1>4, <2>1
  <2> QED BY <2>1, <2>2
<1> HIDE DEF S
<1>7. S = Nat
  BY <1>5, <1>6, SetInduction DEF S
<1>8. length[n] >= 2 * n
  BY <1>7 DEF S
<1>9. length[n] = Len(Words(order, {"frame"}, 0))
  BY <1>1, <1>2, <1>20 DEF WordSteps, IsLengths
<1> QED BY <1>1, <1>8, <1>9 DEF order

LEMMA CountersWords ==
  ASSUME NEW n \in Nat, NEW fields, "value" \in fields
  PROVE  /\ Counters(n) \in Seq(Text)
         /\ \A i \in 1..Len(Counters(n)) : Counters(n)[i] \notin IDNames
         /\ Len(Words(Counters(n), fields, 0)) >= 2 * n
<1> DEFINE order == Counters(n)
           N == 3 * n
<1>0. {"value", "READ_ID", "LOST"} \subseteq Text
  BY DEF Text
<1>1. /\ order \in Seq(Text) /\ Len(order) = N /\ N \in Nat
      /\ \A i \in 1..N : /\ order[i] \in {"value", "READ_ID", "LOST"}
                         /\ i % 3 = 1 => order[i] = "value"
  <2>1. \A i \in 1..N : i % 3 \in {0, 1, 2}
    OBVIOUS
  <2>2. N \in Nat
    OBVIOUS
  <2>3. order = [i \in 1..N |->
                   CASE i % 3 = 1 -> "value" [] i % 3 = 2 -> "READ_ID" [] i % 3 = 0 -> "LOST"]
    BY DEF Counters
  <2> HIDE DEF N
  <2>4. ASSUME NEW i \in 1..N
        PROVE  order[i] \in {"value", "READ_ID", "LOST"} /\ (i % 3 = 1 => order[i] = "value")
    BY <2>1, <2>3
  <2>5. \A i \in 1..N : order[i] \in Text
    BY <1>0, <2>4
  <2>6. order \in Seq(Text) /\ Len(order) = N
    <3>1. order \in [1..N -> Text]
      BY <2>3, <2>5
    <3> QED BY <2>2, <3>1
  <2> QED BY <2>2, <2>4, <2>6
<1> HIDE DEF order
<1>2. PICK upto : WordSteps(upto, order, fields, 0)
  BY <1>1, WordLoop
<1>20. PICK length : IsLengths(length, upto, order, fields)
  BY <1>1, <1>2, WordLengths
<1> DEFINE S == {m \in Nat : m <= n => length[3 * m] >= 2 * m}
<1>3. length[0] = 0 /\ \A i \in 0..N : length[i] \in Nat
  <2> HIDE DEF N
  <2> QED BY <1>1, <1>20 DEF IsLengths
<1>4. ASSUME NEW i \in 0..N, NEW j \in 0..N, j = i + 1
      PROVE  /\ order[j] \in fields => length[j] = length[i] + 2
             /\ length[j] = length[i] + 2 \/ length[j] = length[i]
  <2> HIDE DEF N
  <2>1. j \in 1..N /\ j - 1 = i
    BY <1>1, <1>4
  <2>2. /\ order[j] \in fields => length[j] = length[j - 1] + 2
        /\ order[j] \notin fields => length[j] = length[j - 1]
    BY <1>1, <1>20, <2>1 DEF IsLengths
  <2> QED BY <2>1, <2>2
<1>5. 0 \in S
  BY <1>3
<1>6. ASSUME NEW m \in S PROVE m + 1 \in S
  <2> SUFFICES ASSUME m + 1 <= n PROVE length[3 * (m + 1)] >= 2 * (m + 1)
    OBVIOUS
  <2> DEFINE a == 3 * m
             b == a + 1
             c == a + 2
             d == a + 3
  <2>1. /\ a \in 0..N /\ b \in 0..N /\ c \in 0..N /\ d \in 0..N
        /\ b = a + 1 /\ c = b + 1 /\ d = c + 1 /\ 3 * (m + 1) = d
    OBVIOUS
  <2>2. b \in 1..N /\ b % 3 = 1
    OBVIOUS
  <2>3. length[a] >= 2 * m
    BY <1>6
  <2> HIDE DEF a, b, c, d, N
  <2>4. order[b] \in fields
    BY <1>1, <2>2
  <2>5. length[b] = length[a] + 2 /\ length[a] \in Nat /\ length[b] \in Nat
    BY <1>3, <1>4, <2>1, <2>4
  <2>6. length[c] >= length[b] /\ length[c] \in Nat
    BY <1>3, <1>4, <2>1, <2>5
  <2>7. length[d] >= length[c] /\ length[d] \in Nat
    BY <1>3, <1>4, <2>1, <2>6
  <2>8. length[d] >= 2 * (m + 1)
    BY <2>3, <2>5, <2>6, <2>7
  <2> QED BY <2>1, <2>8
<1> HIDE DEF S
<1>7. S = Nat
  BY <1>5, <1>6, SetInduction DEF S
<1>8. length[N] >= 2 * n
  BY <1>7 DEF S
<1>9. length[N] = Len(Words(order, fields, 0))
  <2> HIDE DEF N
  <2> QED BY <1>1, <1>2, <1>20 DEF WordSteps, IsLengths
<1>10. \A i \in 1..Len(order) : order[i] \notin IDNames
  BY <1>1 DEF IDNames
<1> QED BY <1>1, <1>8, <1>9, <1>10 DEF order

-----------------------------------------------------------------------------
(* The parts of a sample *)

\* Cells of whole words.
Block(w) == w \in Seq(CellType) /\ \E m \in Nat : Len(w) = 2 * m

LEMMA BlockLen ==
  ASSUME NEW w, Block(w)
  PROVE  w \in Seq(CellType) /\ Len(w) \in Nat /\ \E m \in Nat : Len(w) = 2 * m
BY LenProperties DEF Block

LEMMA BlockConcat ==
  ASSUME NEW v, NEW w, Block(v), Block(w)
  PROVE  Block(v \o w) /\ Len(v \o w) = Len(v) + Len(w)
<1>1. v \in Seq(CellType) /\ w \in Seq(CellType)
  BY DEF Block
<1>2. v \o w \in Seq(CellType) /\ Len(v \o w) = Len(v) + Len(w)
  BY <1>1, ConcatProperties
<1>3. PICK i \in Nat : Len(v) = 2 * i
  BY DEF Block
<1>4. PICK j \in Nat : Len(w) = 2 * j
  BY DEF Block
<1> DEFINE u == v \o w
<1>5. Len(u) = 2 * (i + j) /\ i + j \in Nat
  <2>1. Len(u) = 2 * i + 2 * j
    BY <1>2, <1>3, <1>4
  <2> QED BY <2>1
<1>6. u \in Seq(CellType)
  BY <1>2
<1> HIDE DEF u
<1>7. Block(u)
  BY <1>5, <1>6 DEF Block
<1> QED BY <1>2, <1>7 DEF u

LEMMA BlockEmpty == Block(<<>>) /\ Len(<<>>) = 0
<1> DEFINE none == <<>>
<1>1. none \in Seq(CellType) /\ Len(none) = 0
  OBVIOUS
<1> HIDE DEF none
<1>2. Len(none) = 2 * 0
  BY <1>1
<1>3. Block(none)
  BY <1>1, <1>2 DEF Block
<1> QED BY <1>1, <1>3 DEF none

LEMMA BlockWord ==
  ASSUME NEW f \in Text, NEW n \in Nat
  PROVE  /\ Block(Word(f, n)) /\ Len(Word(f, n)) = 2
         /\ Word(f, n)[1] = Cell(f, n) /\ Cell(f, n) \in CellType /\ Cell(f, n).of = f /\ Cell(f, n).n = n
<1> DEFINE c == Cell(f, n)
           w == <<c, c>>
<1>1. c \in CellType /\ c.of = f /\ c.n = n
  BY DEF Cell, CellType
<1>2. Word(f, n) = w
  BY DEF Word
<1> HIDE DEF c
<1>3. w \in Seq(CellType) /\ Len(w) = 2 /\ w[1] = c
  BY <1>1
<1> HIDE DEF w
<1>4. Len(w) = 2 * 1
  BY <1>3
<1>5. Block(w)
  BY <1>3, <1>4 DEF Block
<1> QED BY <1>1, <1>2, <1>3, <1>5 DEF c

LEMMA BlockWords ==
  ASSUME NEW order \in Seq(Text), NEW fields, NEW id \in Nat
  PROVE  Block(Words(order, fields, id))
BY WordsType, WordsEven DEF Block

\* A word that is not an ID.
LEMMA WordGood ==
  ASSUME NEW data \in Seq(CellType), NEW p \in Nat, NEW id \in Nat, NEW c, Good(c, data, p, id),
         NEW f \in Text, f \notin IDNames, NEW n \in Nat, Holds(data, p, Word(f, n))
  PROVE  Good(u64(c, f), data, p + 2, id) /\ number(u64(c, f)) = n
<1> DEFINE w == Word(f, n)
           cell == Cell(f, n)
<1>1. Len(w) = 2 /\ w[1] = cell /\ cell.of = f /\ cell.n = n
  BY BlockWord
<1> HIDE DEF w, cell
<1>2. p + 2 <= Len(data) /\ data[p + 1] = cell
  BY <1>1 DEF Holds, w
<1>3. data[p + 1].of = f /\ data[p + 1].n = n
  BY <1>1, <1>2
<1>4. u64(c, f) = take(c, f, 2)
  BY DEF u64
<1> DEFINE width == 2
<1>5. width \in {1, 2} /\ p + width <= Len(data) /\ (f \in IDNames => data[p + 1].n = id)
  BY <1>2
<1>6. u64(c, f) = take(c, f, width) /\ p + 2 = p + width
  BY <1>4
<1> HIDE DEF width
<1>7. Good(take(c, f, width), data, p + width, id) /\ number(take(c, f, width)) = data[p + 1].n
  BY <1>3, <1>5, TakeGood
<1> QED BY <1>3, <1>6, <1>7

LEMMA GoodFields ==
  ASSUME NEW c, NEW data, NEW p, NEW id, Good(c, data, p, id)
  PROVE  /\ c.ok = TRUE /\ c.data = data /\ c.pos = p
         /\ remaining(c) = Len(data) - p /\ Failed(c).ok = FALSE
<1>1. c = [data |-> data, pos |-> p, got |-> c.got, ok |-> TRUE]
  BY DEF Good
<1> QED BY <1>1 DEF remaining, Failed

TimeOrder == <<"ENABLED", "RUNNING">>
EntryOrder == <<"READ_ID", "LOST">>

LEMMA ReadOrders ==
  /\ TimeOrder \in Seq(Text) /\ \A i \in 1..Len(TimeOrder) : TimeOrder[i] \notin IDNames
  /\ EntryOrder \in Seq(Text)
  /\ \A i \in 1..Len(EntryOrder) : EntryOrder[i] \notin IDNames /\ EntryOrder[i] # "value"
<1>1. Len(TimeOrder) = 2 /\ TimeOrder[1] = "ENABLED" /\ TimeOrder[2] = "RUNNING" /\ TimeOrder \in Seq(Text)
  BY DEF TimeOrder, Text
<1>2. Len(EntryOrder) = 2 /\ EntryOrder[1] = "READ_ID" /\ EntryOrder[2] = "LOST" /\ EntryOrder \in Seq(Text)
  BY DEF EntryOrder, Text
<1>3. \A i \in 1..2 : i = 1 \/ i = 2
  OBVIOUS
<1> QED BY <1>1, <1>2, <1>3 DEF IDNames

LEMMA ReadBlock ==
  ASSUME NEW format, NEW n \in Nat
  PROVE  Block(KernelRead(format, n))
<1> DEFINE times == Words(TimeOrder, format, 0)
           values == Words(Counters(n), format \cup {"value"}, 0)
           entries == Words(EntryOrder, format, 0)
<1>1. "nr" \in Text /\ "value" \in Text /\ "value" \in format \cup {"value"}
  BY DEF Text
<1>2. Block(times) /\ Block(values) /\ Block(entries)
  BY <1>1, BlockWords, ReadOrders, CountersWords
<1>3. Block(Word("nr", n)) /\ Block(Word("value", 0))
  BY <1>1, BlockWord
<1>4. KernelRead(format, n) = IF "GROUP" \in format THEN Word("nr", n) \o times \o values
                              ELSE Word("value", 0) \o times \o entries
  BY DEF KernelRead, TimeOrder, EntryOrder
<1> HIDE DEF times, values, entries
<1>5. Block(Word("nr", n) \o times \o values)
  BY <1>2, <1>3, BlockConcat
<1>6. Block(Word("value", 0) \o times \o entries)
  BY <1>2, <1>3, BlockConcat
<1> QED BY <1>4, <1>5, <1>6

\* Three blocks one after another.
LEMMA HoldsThree ==
  ASSUME NEW data \in Seq(CellType), NEW p \in Nat, NEW u, NEW v, NEW w,
         Block(u), Block(v), Block(w), Holds(data, p, u \o v \o w)
  PROVE  /\ Holds(data, p, u) /\ Holds(data, p + Len(u), v) /\ Holds(data, p + Len(u) + Len(v), w)
         /\ Len(u \o v \o w) = Len(u) + Len(v) + Len(w)
<1> DEFINE x == u \o v
<1>1. Block(x) /\ Len(x) = Len(u) + Len(v)
  BY BlockConcat
<1>2. /\ u \in Seq(CellType) /\ v \in Seq(CellType) /\ w \in Seq(CellType) /\ x \in Seq(CellType)
      /\ Len(u) \in Nat /\ Len(v) \in Nat /\ Len(w) \in Nat
  BY <1>1, BlockLen
<1>3. Holds(data, p, u \o v \o w) /\ Len(x \o w) = Len(x) + Len(w)
  BY <1>1, BlockConcat
<1>4. Holds(data, p, x \o w)
  BY <1>3
<1>5. Holds(data, p, u \o v) => Holds(data, p, u) /\ Holds(data, p + Len(u), v)
  BY <1>2, HoldsConcat
<1>50. Holds(data, p, x) => Holds(data, p, u) /\ Holds(data, p + Len(u), v)
  BY <1>5
<1>60. u \o v \o w = x \o w
  OBVIOUS
<1> HIDE DEF x
<1>6. Holds(data, p, x) /\ Holds(data, p + Len(x), w)
  BY <1>2, <1>4, HoldsConcat
<1>7. p + Len(x) = p + Len(u) + Len(v) /\ Len(x) + Len(w) = Len(u) + Len(v) + Len(w)
  BY <1>1, <1>2
<1> QED BY <1>3, <1>50, <1>6, <1>60, <1>7

\* EachGood for fields that are no IDs.
LEMMA PlainGood ==
  ASSUME NEW order \in Seq(Text), \A i \in 1..Len(order) : order[i] \notin IDNames,
         NEW fields, NEW asked, \A i \in 1..Len(order) : order[i] \in asked <=> order[i] \in fields,
         NEW data \in Seq(CellType), NEW p \in Nat, NEW id \in Nat, NEW c, Good(c, data, p, id),
         NEW w, w = Words(order, fields, 0), Holds(data, p, w)
  PROVE  Good(u64Each(c, order, asked), data, p + Len(w), id)
<1> DEFINE m == 0
<1>1. m \in Nat /\ w = Words(order, fields, m)
  OBVIOUS
<1> HIDE DEF m
<1>2. \A i \in 1..Len(order) : order[i] \in IDNames => m = id
  OBVIOUS
<1>3. ReadOn(c, u64Each(c, order, asked), data, p + Len(w), id, order, fields)
  BY <1>1, <1>2, EachGood
<1> QED BY <1>3 DEF ReadOn

KnownFormat(format) == format \subseteq ReadFields

\* parseRead reads a group or a counter, and refuses a group that is too large.
LEMMA ReadGood ==
  ASSUME NEW data \in Seq(CellType), NEW p \in Nat, NEW id \in Nat, NEW c, Good(c, data, p, id),
         NEW format, KnownFormat(format), NEW n \in Nat, Holds(data, p, KernelRead(format, n))
  PROVE  IF "GROUP" \in format /\ n > MaxReadValues THEN parseRead(c, format).ok = FALSE
         ELSE Good(parseRead(c, format), data, p + Len(KernelRead(format, n)), id)
<1> DEFINE asked == format \cup {"value"}
           times == Words(TimeOrder, format, 0)
<1>1. /\ "nr" \in Text /\ "value" \in Text /\ "value" \in asked
      /\ "nr" \notin IDNames /\ "value" \notin IDNames
  BY DEF Text, IDNames
<1>2. Block(times)
  BY BlockWords, ReadOrders
<1>3. MaxReadValues \in Nat \ {0}
  BY RecordsAssumption
<1>4. Len(data) \in Nat
  OBVIOUS
<1>5. CASE "GROUP" \in format
  <2> DEFINE values == Words(Counters(n), asked, 0)
             head == Word("nr", n)
             counted == u64(c, "nr")
             timed == u64Each(counted, TimeOrder, format)
             q == p + 2
  <2>1. KernelRead(format, n) = head \o times \o values
    BY <1>5 DEF KernelRead, TimeOrder
  <2>2. Block(values) /\ Len(values) >= 2 * n
    BY <1>1, CountersWords, BlockWords
  <2>3. Block(head) /\ Len(head) = 2
    BY <1>1, BlockWord
  <2> HIDE DEF head, times, values, asked
  <2>4. /\ Holds(data, p, head) /\ Holds(data, p + 2, times) /\ Holds(data, p + 2 + Len(times), values)
        /\ Len(KernelRead(format, n)) = 2 + Len(times) + Len(values)
        /\ Len(times) \in Nat /\ Len(values) \in Nat
    <3>1. Holds(data, p, head \o times \o values)
      BY <2>1
    <3>2. /\ Holds(data, p, head) /\ Holds(data, p + Len(head), times)
          /\ Holds(data, p + Len(head) + Len(times), values)
          /\ Len(head \o times \o values) = Len(head) + Len(times) + Len(values)
      <4>1. Block(head) /\ Block(times) /\ Block(values)
        BY <1>2, <2>2, <2>3
      <4> QED BY <3>1, <4>1, HoldsThree
    <3>3. Len(times) \in Nat /\ Len(values) \in Nat
      BY <1>2, <2>2, BlockLen
    <3> QED BY <2>1, <2>3, <3>2, <3>3
  <2>5. Good(counted, data, q, id) /\ number(counted) = n
    BY <1>1, <2>4, WordGood DEF head
  <2>6. counted.ok = TRUE /\ remaining(counted) = Len(data) - q /\ Failed(counted).ok = FALSE
    BY <2>5, GoodFields
  <2>7. Good(timed, data, q + Len(times), id)
    <3>1. q \in Nat /\ Holds(data, q, times)
      BY <2>4
    <3>2. TimeOrder \in Seq(Text) /\ \A i \in 1..Len(TimeOrder) : TimeOrder[i] \notin IDNames
      BY ReadOrders
    <3>3. times = Words(TimeOrder, format, 0)
      BY DEF times
    <3> HIDE DEF q
    <3> QED BY <2>5, <3>1, <3>2, <3>3, PlainGood
  <2>8. parseRead(c, format) = IF n > MaxReadValues \/ n > remaining(counted) \div 2
                               THEN Failed(counted) ELSE u64Each(timed, Counters(n), asked)
    <3> HIDE DEF timed
    <3>1. u64If(c, "GROUP" \in format, "nr") = counted
      BY <1>5 DEF u64If
    <3>2. u64If(counted, ~("GROUP" \in format), "value") = counted
      BY <1>5 DEF u64If
    <3>3. u64Each(counted, <<"ENABLED", "RUNNING">>, format) = timed
      BY DEF timed, TimeOrder
    <3> HIDE DEF counted
    <3> QED BY <1>5, <2>5, <2>6, <3>1, <3>2, <3>3 DEF parseRead, asked, KnownFormat
  <2>9. CASE n > MaxReadValues
    BY <1>5, <2>6, <2>8, <2>9
  <2>10. CASE ~(n > MaxReadValues)
    <3>1. (q + Len(times)) + Len(values) <= Len(data)
      BY <2>4 DEF Holds
    <3>2. ~(n > remaining(counted) \div 2)
      <4>1. remaining(counted) \in Nat /\ remaining(counted) >= 2 * n
        BY <1>4, <2>2, <2>4, <2>6, <3>1
      <4> DEFINE left == remaining(counted)
      <4> HIDE DEF left, counted
      <4> QED BY <4>1
    <3>3. parseRead(c, format) = u64Each(timed, Counters(n), asked)
      BY <2>8, <2>10, <3>2
    <3>4. Counters(n) \in Seq(Text) /\ \A i \in 1..Len(Counters(n)) : Counters(n)[i] \notin IDNames
      BY <1>1, CountersWords
    <3>5. q + Len(times) \in Nat /\ Holds(data, q + Len(times), values)
      BY <2>4
    <3> HIDE DEF timed, counted, q
    <3>6. Good(parseRead(c, format), data, (q + Len(times)) + Len(values), id)
      <4> DEFINE r == q + Len(times)
      <4>1. values = Words(Counters(n), asked, 0)
        BY DEF values
      <4>2. r \in Nat /\ Holds(data, r, values) /\ Good(timed, data, r, id)
        BY <2>7, <3>5
      <4> HIDE DEF r
      <4>3. Good(u64Each(timed, Counters(n), asked), data, r + Len(values), id)
        BY <3>4, <4>1, <4>2, PlainGood
      <4> QED BY <3>3, <4>3 DEF r
    <3>7. (q + Len(times)) + Len(values) = p + Len(KernelRead(format, n))
      BY <2>4 DEF q
    <3> QED BY <2>10, <3>6, <3>7
  <2> QED BY <2>9, <2>10
<1>6. CASE "GROUP" \notin format
  <2> DEFINE entries == Words(EntryOrder, format, 0)
             head == Word("value", 0)
             first == u64(c, "value")
             timed == u64Each(first, TimeOrder, format)
             q == p + 2
  <2>1. KernelRead(format, n) = head \o times \o entries
    BY <1>6 DEF KernelRead, TimeOrder, EntryOrder
  <2>2. Block(entries)
    BY BlockWords, ReadOrders
  <2>3. Block(head) /\ Len(head) = 2
    BY <1>1, BlockWord
  <2> HIDE DEF head, times, entries
  <2>4. /\ Holds(data, p, head) /\ Holds(data, p + 2, times) /\ Holds(data, p + 2 + Len(times), entries)
        /\ Len(KernelRead(format, n)) = 2 + Len(times) + Len(entries)
        /\ Len(times) \in Nat /\ Len(entries) \in Nat
    <3>1. Holds(data, p, head \o times \o entries)
      BY <2>1
    <3>2. /\ Holds(data, p, head) /\ Holds(data, p + Len(head), times)
          /\ Holds(data, p + Len(head) + Len(times), entries)
          /\ Len(head \o times \o entries) = Len(head) + Len(times) + Len(entries)
      <4>1. Block(head) /\ Block(times) /\ Block(entries)
        BY <1>2, <2>2, <2>3
      <4> QED BY <3>1, <4>1, HoldsThree
    <3>3. Len(times) \in Nat /\ Len(entries) \in Nat
      BY <1>2, <2>2, BlockLen
    <3> QED BY <2>1, <2>3, <3>2, <3>3
  <2>5. Good(first, data, q, id)
    BY <1>1, <2>4, WordGood DEF head
  <2>6. c.ok = TRUE /\ remaining(c) = Len(data) - p /\ p + 2 <= Len(data)
    <3>1. p + 2 <= Len(data)
      BY <2>3, <2>4 DEF Holds
    <3> QED BY <3>1, GoodFields
  <2>7. Good(timed, data, q + Len(times), id)
    <3>1. q \in Nat /\ Holds(data, q, times)
      BY <2>4
    <3>2. TimeOrder \in Seq(Text) /\ \A i \in 1..Len(TimeOrder) : TimeOrder[i] \notin IDNames
      BY ReadOrders
    <3>3. times = Words(TimeOrder, format, 0)
      BY DEF times
    <3> HIDE DEF q
    <3> QED BY <2>5, <3>1, <3>2, <3>3, PlainGood
  <2>8. parseRead(c, format) = IF 1 > MaxReadValues \/ 1 > remaining(c) \div 2
                               THEN Failed(c) ELSE u64Each(timed, EntryOrder, asked)
    <3> HIDE DEF timed
    <3>1. u64If(c, "GROUP" \in format, "nr") = c
      BY <1>6 DEF u64If
    <3>2. u64If(c, ~("GROUP" \in format), "value") = first
      BY <1>6 DEF u64If
    <3>3. u64Each(first, <<"ENABLED", "RUNNING">>, format) = timed
      BY DEF timed, TimeOrder
    <3> HIDE DEF first
    <3> QED BY <1>6, <2>6, <3>1, <3>2, <3>3 DEF parseRead, asked, KnownFormat, EntryOrder
  <2>9. ~(1 > remaining(c) \div 2)
    <3>1. remaining(c) \in Nat /\ remaining(c) >= 2
      BY <1>4, <2>6
    <3> DEFINE left == remaining(c)
    <3> HIDE DEF left
    <3> QED BY <3>1
  <2>10. parseRead(c, format) = u64Each(timed, EntryOrder, asked)
    BY <1>3, <2>8, <2>9
  <2>11. q + Len(times) \in Nat /\ Holds(data, q + Len(times), entries)
    BY <2>4
  <2>12. \A i \in 1..Len(EntryOrder) : EntryOrder[i] \in asked <=> EntryOrder[i] \in format
    BY ReadOrders DEF asked
  <2> HIDE DEF timed, first, q, asked
  <2>13. Good(parseRead(c, format), data, (q + Len(times)) + Len(entries), id)
    <3> DEFINE r == q + Len(times)
    <3>1. entries = Words(EntryOrder, format, 0)
      BY DEF entries
    <3>2. r \in Nat /\ Holds(data, r, entries) /\ Good(timed, data, r, id)
      BY <2>7, <2>11
    <3>3. EntryOrder \in Seq(Text) /\ \A i \in 1..Len(EntryOrder) : EntryOrder[i] \notin IDNames
      BY ReadOrders
    <3> HIDE DEF r
    <3>4. Good(u64Each(timed, EntryOrder, asked), data, r + Len(entries), id)
      BY <2>12, <3>1, <3>2, <3>3, PlainGood
    <3> QED BY <2>10, <3>4 DEF r
  <2>14. (q + Len(times)) + Len(entries) = p + Len(KernelRead(format, n))
    BY <2>4 DEF q
  <2> QED BY <1>6, <2>13, <2>14
<1> QED BY <1>5, <1>6

KernelChain(n) == Word("depth", n) \o Words(Frames(n), {"frame"}, 0)

LEMMA ChainBlock ==
  ASSUME NEW n \in Nat
  PROVE  Block(KernelChain(n))
<1>1. "depth" \in Text
  BY DEF Text
<1> QED BY <1>1, BlockWord, BlockWords, BlockConcat, FramesWords DEF KernelChain

LEMMA CallchainGood ==
  ASSUME NEW data \in Seq(CellType), NEW p \in Nat, NEW id \in Nat, NEW c, Good(c, data, p, id),
         NEW n \in Nat, Holds(data, p, KernelChain(n))
  PROVE  IF n > MaxCallchain THEN parseCallchain(c).ok = FALSE
         ELSE Good(parseCallchain(c), data, p + Len(KernelChain(n)), id)
<1> DEFINE frames == Words(Frames(n), {"frame"}, 0)
           head == Word("depth", n)
           counted == u64(c, "depth")
           q == p + 2
<1>1. "depth" \in Text /\ "depth" \notin IDNames /\ "frame" \notin IDNames
  BY DEF Text, IDNames
<1>2. /\ Block(frames) /\ Len(frames) >= 2 * n
      /\ Frames(n) \in Seq(Text) /\ \A i \in 1..Len(Frames(n)) : Frames(n)[i] \notin IDNames
  BY <1>1, BlockWords, FramesWords
<1>3. Block(head) /\ Len(head) = 2
  BY <1>1, BlockWord
<1>4. KernelChain(n) = head \o frames /\ MaxCallchain \in Nat /\ Len(data) \in Nat
  BY RecordsAssumption DEF KernelChain
<1> HIDE DEF head, frames
<1>5. /\ Holds(data, p, head) /\ Holds(data, q, frames)
      /\ Len(KernelChain(n)) = 2 + Len(frames) /\ Len(frames) \in Nat
  BY <1>2, <1>3, <1>4, HoldsConcat, BlockConcat, BlockLen
<1>6. Good(counted, data, q, id) /\ number(counted) = n
  BY <1>1, <1>5, WordGood DEF head
<1>7. counted.ok = TRUE /\ remaining(counted) = Len(data) - q /\ Failed(counted).ok = FALSE
  BY <1>6, GoodFields
<1>8. parseCallchain(c) = IF n > MaxCallchain \/ n > remaining(counted) \div 2
                          THEN Failed(counted) ELSE u64Each(counted, Frames(n), {"frame"})
  <2>1. u64(c, "depth") = counted
    OBVIOUS
  <2> HIDE DEF counted
  <2> QED BY <1>6, <1>7, <2>1 DEF parseCallchain
<1> HIDE DEF counted
<1>9. CASE n > MaxCallchain
  BY <1>7, <1>8, <1>9
<1>10. CASE ~(n > MaxCallchain)
  <2>1. q + Len(frames) <= Len(data)
    BY <1>5 DEF Holds
  <2>2. ~(n > remaining(counted) \div 2)
    <3>1. remaining(counted) \in Nat /\ remaining(counted) >= 2 * n
      BY <1>2, <1>4, <1>5, <1>7, <2>1
    <3> QED BY <3>1
  <2>3. parseCallchain(c) = u64Each(counted, Frames(n), {"frame"})
    BY <1>8, <1>10, <2>2
  <2>4. q \in Nat /\ q + Len(frames) = p + Len(KernelChain(n))
    BY <1>5
  <2> HIDE DEF q
  <2>5. Good(parseCallchain(c), data, q + Len(frames), id)
    <3>1. frames = Words(Frames(n), {"frame"}, 0)
      BY DEF frames
    <3>2. Good(u64Each(counted, Frames(n), {"frame"}), data, q + Len(frames), id)
      BY <1>2, <1>5, <1>6, <2>4, <3>1, PlainGood
    <3> QED BY <2>3, <3>2
  <2> QED BY <1>10, <2>4, <2>5
<1> QED BY <1>9, <1>10

RawCells == <<Cell("size", 1), Cell("raw", 0)>>

LEMMA RawBlock == Block(RawCells) /\ Len(RawCells) = 2
<1> DEFINE x == Cell("size", 1)
           y == Cell("raw", 0)
           w == <<x, y>>
<1>1. x \in CellType /\ y \in CellType
  BY DEF Cell, CellType, Text
<1>2. RawCells = w
  BY DEF RawCells
<1> HIDE DEF x, y
<1>3. w \in Seq(CellType) /\ Len(w) = 2
  BY <1>1
<1> HIDE DEF w
<1>4. Len(w) = 2 * 1
  BY <1>3
<1> QED BY <1>2, <1>3, <1>4 DEF Block

\* The padding behind the raw data is skipped: the record is made of words.
LEMMA RawGood ==
  ASSUME NEW data \in Seq(CellType), NEW m \in Nat, NEW p \in Nat, p = 2 * m, NEW id \in Nat,
         NEW c, Good(c, data, p, id), Holds(data, p, RawCells)
  PROVE  Good(parseRaw(c), data, p + 2, id)
<1> DEFINE sized == take(c, "size", 1)
           q == p + 1
           cell == data[p + 2]
           x == <<"raw", cell>>
<1>1. "size" \in Text /\ "raw" \in Text /\ "size" \notin IDNames /\ "raw" \notin IDNames
  BY DEF Text, IDNames
<1>2. /\ p + 2 <= Len(data) /\ Len(data) \in Nat
      /\ data[p + 1] = Cell("size", 1) /\ cell = Cell("raw", 0)
  <2>1. Len(RawCells) = 2 /\ RawCells[1] = Cell("size", 1) /\ RawCells[2] = Cell("raw", 0)
    BY DEF RawCells
  <2>2. 1 \in 1..2 /\ 2 \in 1..2
    OBVIOUS
  <2> QED BY <2>1, <2>2 DEF Holds
<1>3. /\ data[p + 1].of = "size" /\ data[p + 1].n = 1 /\ cell.of = "raw" /\ cell \in CellType
  BY <1>2 DEF Cell, CellType, Text
<1>4. Good(sized, data, q, id) /\ number(sized) = 1
  <2>1. p + 1 <= Len(data)
    BY <1>2
  <2> QED BY <1>1, <1>3, <2>1, TakeGood
<1>5. /\ sized = [data |-> data, pos |-> q, got |-> sized.got, ok |-> TRUE]
      /\ sized.got \in Seq(Got)
  BY <1>4 DEF Good
<1>6. sized.ok = TRUE /\ sized.pos = q /\ remaining(sized) = Len(data) - q /\ c.data = data
  BY <1>4, GoodFields
<1>7. ~(1 > remaining(sized))
  BY <1>2, <1>6
<1>8. alignUp(q + 1) = p + 2
  <2>1. q + 1 = 2 * (m + 1) /\ m + 1 \in Nat /\ q + 1 = p + 2
    OBVIOUS
  <2>2. (2 * (m + 1)) % 2 = 0
    OBVIOUS
  <2> QED BY <2>1, <2>2 DEF alignUp
<1>9. q + 1 = p + 2
  OBVIOUS
<1> HIDE DEF sized, q
<1>10. parseRaw(c) = [sized EXCEPT !.pos = p + 2, !.got = sized.got \o [i \in 1..1 |-> <<"raw", data[q + i]>>]]
  <2>1. take(c, "size", 1) = sized
    BY DEF sized
  <2>2. ~(p + 2 > Len(data))
    BY <1>2
  <2> QED BY <1>4, <1>5, <1>6, <1>7, <1>8, <2>1, <2>2 DEF parseRaw
<1>11. [i \in 1..1 |-> <<"raw", data[q + i]>>] = <<x>>
  <2>1. \A i \in 1..1 : i = 1
    OBVIOUS
  <2> QED BY <1>9, <2>1
<1>12. x \in Got
  BY <1>1, <1>3 DEF Got
<1> HIDE DEF cell
<1>13. sized.got \o <<x>> = Append(sized.got, x)
  <2> HIDE DEF x
  <2> QED BY <1>5, <1>12, AppendIsConcat
<1>14. parseRaw(c) = More(sized, data, p + 2, "raw", cell)
  <2>1. sized.got \o [i \in 1..1 |-> <<"raw", data[q + i]>>] = Append(sized.got, x)
    BY <1>11, <1>13
  <2> DEFINE new == Append(sized.got, x)
             old == sized.got
  <2>2. More(sized, data, p + 2, "raw", cell) = [data |-> data, pos |-> p + 2, got |-> new, ok |-> TRUE]
    BY DEF More
  <2>3. parseRaw(c) = [sized EXCEPT !.pos = p + 2, !.got = new]
    BY <1>10, <2>1
  <2> HIDE DEF new
  <2> DEFINE d == parseRaw(c)
             at == p + 2
  <2>4. d = [sized EXCEPT !.pos = at, !.got = new]
    BY <2>3
  <2> HIDE DEF d, at
  <2>5. d = [data |-> data, pos |-> at, got |-> new, ok |-> TRUE]
    <3>1. /\ sized.ok = TRUE /\ sized.data = data /\ sized.pos = q
          /\ sized = [data |-> data, pos |-> q, got |-> sized.got, ok |-> TRUE]
      BY <1>4, <1>5, GoodFields
    <3> QED BY <2>4, <3>1
  <2> QED BY <2>2, <2>5 DEF d, at
<1>15. Fits("raw", cell, id) /\ q \in Nat /\ p + 2 \in Nat
  BY <1>1, <1>3 DEF Fits, q
<1>16. Good(More(sized, data, p + 2, "raw", cell), data, p + 2, id)
  BY <1>1, <1>3, <1>4, <1>15, AppendGot
<1> QED BY <1>14, <1>16

-----------------------------------------------------------------------------
(* Samples *)

FixedOrder == <<"IDENTIFIER", "IP", "TID", "TIME", "ADDR", "ID", "STREAM_ID", "CPU", "PERIOD">>

LEMMA FixedOrders ==
  /\ FixedOrder \in Seq(Text) /\ Len(FixedOrder) = 9 /\ Distinct(FixedOrder)
  /\ FixedOrder[1] = "IDENTIFIER" /\ FixedOrder[6] = "ID"
  /\ Named(FixedOrder, 0) = {}
  /\ Named(FixedOrder, 5) = {"IDENTIFIER", "IP", "TID", "TIME", "ADDR"}
<1>1. FixedOrder \in Seq(Text) /\ Len(FixedOrder) = 9
  BY DEF FixedOrder, Text
<1>2. /\ FixedOrder[1] = "IDENTIFIER" /\ FixedOrder[2] = "IP" /\ FixedOrder[3] = "TID"
      /\ FixedOrder[4] = "TIME" /\ FixedOrder[5] = "ADDR" /\ FixedOrder[6] = "ID"
      /\ FixedOrder[7] = "STREAM_ID" /\ FixedOrder[8] = "CPU" /\ FixedOrder[9] = "PERIOD"
  BY DEF FixedOrder
<1>3. 1..9 = {1, 2, 3, 4, 5, 6, 7, 8, 9} /\ 1..5 = {1, 2, 3, 4, 5} /\ 1..0 = {}
  OBVIOUS
<1>4. Distinct(FixedOrder)
  BY <1>1, <1>2, <1>3 DEF Distinct
<1>5. Named(FixedOrder, 0) = {} /\ Named(FixedOrder, 5) = {"IDENTIFIER", "IP", "TID", "TIME", "ADDR"}
  BY <1>2, <1>3 DEF Named
<1> QED BY <1>1, <1>2, <1>4, <1>5

FixedPart(t, id) == Words(FixedOrder, t, id)
ReadPart(t, format, n) == IF "READ" \in t THEN KernelRead(format, n) ELSE <<>>
ChainPart(t, n) == IF "CALLCHAIN" \in t THEN KernelChain(n) ELSE <<>>
RawPart(t) == IF "RAW" \in t THEN RawCells ELSE <<>>
OtherPart(t) == IF "OTHER" \in t THEN Word("other", 0) ELSE <<>>

\* A sample up to each part.
UptoFixed(t, id) == Header \o FixedPart(t, id)
UptoRead(t, format, id, n) == UptoFixed(t, id) \o ReadPart(t, format, n)
UptoChain(t, format, id, n) == UptoRead(t, format, id, n) \o ChainPart(t, n)
UptoRaw(t, format, id, n) == UptoChain(t, format, id, n) \o RawPart(t)

LEMMA SampleParts ==
  ASSUME NEW attr, NEW id, NEW n
  PROVE  KernelSample(attr, id, n) =
           UptoRaw(attr.sampleType, attr.readFormat, id, n) \o OtherPart(attr.sampleType)
BY DEF KernelSample, FixedPart, ReadPart, ChainPart, RawPart, OtherPart, UptoFixed, UptoRead,
       UptoChain, UptoRaw, FixedOrder, KernelChain, RawCells

LEMMA PartBlocks ==
  ASSUME NEW t, NEW format, NEW id \in Nat, NEW n \in Nat
  PROVE  /\ Block(Header) /\ Len(Header) = 2 /\ Block(FixedPart(t, id)) /\ Block(ReadPart(t, format, n))
         /\ Block(ChainPart(t, n)) /\ Block(RawPart(t)) /\ Block(OtherPart(t))
         /\ Len(RawPart(t)) = (IF "RAW" \in t THEN 2 ELSE 0)
         /\ Len(OtherPart(t)) = (IF "OTHER" \in t THEN 2 ELSE 0)
<1>1. "header" \in Text /\ "other" \in Text
  BY DEF Text
<1>2. Block(Header) /\ Len(Header) = 2
  BY <1>1, BlockWord DEF Header
<1>3. Block(FixedPart(t, id))
  BY FixedOrders, BlockWords DEF FixedPart
<1>4. Block(ReadPart(t, format, n))
  BY ReadBlock, BlockEmpty DEF ReadPart
<1>5. Block(ChainPart(t, n))
  BY ChainBlock, BlockEmpty DEF ChainPart
<1>6. Block(RawPart(t)) /\ Len(RawPart(t)) = (IF "RAW" \in t THEN 2 ELSE 0)
  <2>1. CASE "RAW" \in t
    <3>1. RawPart(t) = RawCells
      BY <2>1 DEF RawPart
    <3> QED BY <2>1, <3>1, RawBlock
  <2>2. CASE "RAW" \notin t
    BY <2>2, BlockEmpty DEF RawPart
  <2> QED BY <2>1, <2>2
<1>7. Block(OtherPart(t)) /\ Len(OtherPart(t)) = (IF "OTHER" \in t THEN 2 ELSE 0)
  BY <1>1, BlockWord, BlockEmpty DEF OtherPart
<1> QED BY <1>2, <1>3, <1>4, <1>5, <1>6, <1>7

LEMMA HoldsTwo ==
  ASSUME NEW data \in Seq(CellType), NEW v, NEW w, Block(v), Block(w), Holds(data, 0, v \o w)
  PROVE  Holds(data, 0, v) /\ Holds(data, Len(v), w)
<1> DEFINE p == 0
<1>1. p \in Nat /\ Holds(data, p, v \o w)
  OBVIOUS
<1>2. v \in Seq(CellType) /\ w \in Seq(CellType) /\ Len(v) \in Nat
  BY BlockLen
<1>3. p + Len(v) = Len(v)
  BY <1>2
<1> HIDE DEF p
<1>4. Holds(data, p, v) /\ Holds(data, p + Len(v), w)
  BY <1>1, <1>2, HoldsConcat
<1> QED BY <1>3, <1>4 DEF p

Sums(t, format, id, n, data) ==
  /\ Len(UptoFixed(t, id)) = 2 + Len(FixedPart(t, id))
  /\ Len(UptoRead(t, format, id, n)) = Len(UptoFixed(t, id)) + Len(ReadPart(t, format, n))
  /\ Len(UptoChain(t, format, id, n)) = Len(UptoRead(t, format, id, n)) + Len(ChainPart(t, n))
  /\ Len(UptoRaw(t, format, id, n)) = Len(UptoChain(t, format, id, n)) + Len(RawPart(t))
  /\ Len(data) = Len(UptoRaw(t, format, id, n)) + (IF "OTHER" \in t THEN 2 ELSE 0)

\* Where the parts are.
LEMMA SampleHolds ==
  ASSUME NEW t, NEW format, NEW id \in Nat, NEW n \in Nat,
         NEW data, data = UptoRaw(t, format, id, n) \o OtherPart(t)
  PROVE  /\ data \in Seq(CellType)
         /\ Block(UptoFixed(t, id)) /\ Block(UptoRead(t, format, id, n))
         /\ Block(UptoChain(t, format, id, n)) /\ Block(UptoRaw(t, format, id, n))
         /\ Sums(t, format, id, n, data)
         /\ Holds(data, 2, FixedPart(t, id))
         /\ Holds(data, Len(UptoFixed(t, id)), ReadPart(t, format, n))
         /\ Holds(data, Len(UptoRead(t, format, id, n)), ChainPart(t, n))
         /\ Holds(data, Len(UptoChain(t, format, id, n)), RawPart(t))
<1> DEFINE F == FixedPart(t, id)
           R == ReadPart(t, format, n)
           C == ChainPart(t, n)
           W == RawPart(t)
           O == OtherPart(t)
           x1 == UptoFixed(t, id)
           x2 == UptoRead(t, format, id, n)
           x3 == UptoChain(t, format, id, n)
           x4 == UptoRaw(t, format, id, n)
<1>1. /\ Block(Header) /\ Len(Header) = 2 /\ Block(F) /\ Block(R) /\ Block(C) /\ Block(W) /\ Block(O)
      /\ Len(O) = (IF "OTHER" \in t THEN 2 ELSE 0)
  BY PartBlocks
<1>2. x1 = Header \o F /\ x2 = x1 \o R /\ x3 = x2 \o C /\ x4 = x3 \o W /\ data = x4 \o O
  BY DEF UptoFixed, UptoRead, UptoChain, UptoRaw
<1> HIDE DEF F, R, C, W, O, x1, x2, x3, x4
<1>3. Block(x1) /\ Len(x1) = 2 + Len(F)
  BY <1>1, <1>2, BlockConcat
<1>4. Block(x2) /\ Len(x2) = Len(x1) + Len(R)
  BY <1>1, <1>2, <1>3, BlockConcat
<1>5. Block(x3) /\ Len(x3) = Len(x2) + Len(C)
  BY <1>1, <1>2, <1>4, BlockConcat
<1>6. Block(x4) /\ Len(x4) = Len(x3) + Len(W)
  BY <1>1, <1>2, <1>5, BlockConcat
<1>7. Block(data) /\ Len(data) = Len(x4) + Len(O)
  BY <1>1, <1>2, <1>6, BlockConcat
<1>8. data \in Seq(CellType)
  BY <1>7, BlockLen
<1>9. Holds(data, 0, data)
  BY <1>8, HoldsItself
<1>10. Holds(data, 0, x4)
  BY <1>1, <1>2, <1>6, <1>8, <1>9, HoldsTwo
<1>11. Holds(data, 0, x3) /\ Holds(data, Len(x3), W)
  BY <1>1, <1>2, <1>5, <1>8, <1>10, HoldsTwo
<1>12. Holds(data, 0, x2) /\ Holds(data, Len(x2), C)
  BY <1>1, <1>2, <1>4, <1>8, <1>11, HoldsTwo
<1>13. Holds(data, 0, x1) /\ Holds(data, Len(x1), R)
  BY <1>1, <1>2, <1>3, <1>8, <1>12, HoldsTwo
<1>14. Holds(data, Len(Header), F)
  BY <1>1, <1>2, <1>8, <1>13, HoldsTwo
<1>15. Holds(data, 2, F)
  BY <1>1, <1>14
<1> QED BY <1>1, <1>3, <1>4, <1>5, <1>6, <1>7, <1>8, <1>11, <1>12, <1>13, <1>15
        DEF F, R, C, W, O, x1, x2, x3, x4, Sums

\* The kernel wrote more than the reader's limits allow, or a read format that
\* the reader does not know.
TooMuch(t, format, n) ==
  \/ "READ" \in t /\ ~KnownFormat(format)
  \/ "READ" \in t /\ "GROUP" \in format /\ n > MaxReadValues
  \/ "CALLCHAIN" \in t /\ n > MaxCallchain

\* parseSample, one part after another.
ReadStep(c, t, format) == IF c.ok /\ "READ" \in t THEN parseRead(c, format) ELSE c
ChainStep(c, t) == IF c.ok /\ "CALLCHAIN" \in t THEN parseCallchain(c) ELSE c
RawStep(c, t) == IF c.ok /\ "RAW" \in t THEN parseRaw(c) ELSE c

LEMMA SampleSteps ==
  ASSUME NEW raw, NEW attr
  PROVE  parseSample(raw, attr) =
           LET t == attr.sampleType
               fixed == u64Each(Cursor(raw, 2), FixedOrder, t)
           IN  RawStep(ChainStep(ReadStep(fixed, t, attr.readFormat), t), t)
BY DEF parseSample, FixedOrder, ReadStep, ChainStep, RawStep

SampleRead(data, t, format, id, n, c) ==
  /\ data \in Seq(CellType) /\ Holds(data, 2, FixedPart(t, id))
  /\ IF TooMuch(t, format, n) THEN c.ok = FALSE
     ELSE \E p : /\ Good(c, data, p, id)
                 /\ Len(data) - p = IF "OTHER" \in t THEN 2 ELSE 0

\* A sample is read as it was written, up to the bits that are not known, or it
\* is refused because it has too many counters or frames.
LEMMA SampleGood ==
  ASSUME NEW attr, NEW id \in Nat, NEW n \in Nat,
         NEW data, data = KernelSample(attr, id, n)
  PROVE  SampleRead(data, attr.sampleType, attr.readFormat, id, n, parseSample(data, attr))
<1> DEFINE t == attr.sampleType
           format == attr.readFormat
           start == Cursor(data, 2)
           fixed == u64Each(start, FixedOrder, t)
           read == ReadStep(fixed, t, format)
           chain == ChainStep(read, t)
           c == RawStep(chain, t)
           F == FixedPart(t, id)
           R == ReadPart(t, format, n)
           C == ChainPart(t, n)
           W == RawPart(t)
           p1 == Len(UptoFixed(t, id))
           p2 == Len(UptoRead(t, format, id, n))
           p3 == Len(UptoChain(t, format, id, n))
           p4 == Len(UptoRaw(t, format, id, n))
<1>1. data = UptoRaw(t, format, id, n) \o OtherPart(t)
  BY SampleParts
<1>2. parseSample(data, attr) = c
  BY SampleSteps
<1> HIDE DEF t, format
<1>4. /\ data \in Seq(CellType) /\ p1 = 2 + Len(F) /\ p2 = p1 + Len(R) /\ p3 = p2 + Len(C)
      /\ p4 = p3 + Len(W) /\ Len(data) = p4 + (IF "OTHER" \in t THEN 2 ELSE 0)
      /\ Holds(data, 2, F) /\ Holds(data, p1, R) /\ Holds(data, p2, C) /\ Holds(data, p3, W)
  <2>0. Sums(t, format, id, n, data) /\ data \in Seq(CellType)
    BY <1>1, SampleHolds
  <2>1. data \in Seq(CellType) /\ p1 = 2 + Len(F) /\ p2 = p1 + Len(R) /\ p3 = p2 + Len(C)
    BY <2>0 DEF Sums
  <2>2. p4 = p3 + Len(W) /\ Len(data) = p4 + (IF "OTHER" \in t THEN 2 ELSE 0)
    BY <2>0 DEF Sums
  <2>3. Holds(data, 2, F) /\ Holds(data, p1, R) /\ Holds(data, p2, C) /\ Holds(data, p3, W)
    BY <1>1, SampleHolds
  <2> HIDE DEF p1, p2, p3, p4, F, R, C, W
  <2> QED BY <2>1, <2>2, <2>3
<1>5. p1 \in Nat /\ p2 \in Nat /\ p3 \in Nat /\ p4 \in Nat /\ \E m \in Nat : p3 = 2 * m
  BY <1>1, SampleHolds, BlockLen
<1> HIDE DEF p1, p2, p3, p4
<1>6. Good(fixed, data, p1, id)
  <2>1. Good(start, data, 2, id)
    BY NewCursor
  <2>2. FixedOrder \in Seq(Text) /\ F = Words(FixedOrder, t, id)
    BY FixedOrders DEF FixedPart
  <2> DEFINE two == 2
  <2>3. two \in Nat /\ Good(start, data, two, id) /\ Holds(data, two, Words(FixedOrder, t, id))
    BY <1>4, <2>1, <2>2
  <2>4. p1 = two + Len(F)
    BY <1>4
  <2> HIDE DEF two, start, F
  <2>5. ReadOn(start, fixed, data, two + Len(F), id, FixedOrder, t)
    BY <1>4, <2>2, <2>3, EachGood
  <2> QED BY <2>4, <2>5 DEF ReadOn
<1> HIDE DEF fixed, F
<1> DEFINE deep == "READ" \in t /\ (~KnownFormat(format) \/ ("GROUP" \in format /\ n > MaxReadValues))
           long == "CALLCHAIN" \in t /\ n > MaxCallchain
<1>7. IF deep THEN read.ok = FALSE ELSE Good(read, data, p2, id)
  <2>1. fixed.ok = TRUE
    BY <1>6, GoodFields
  <2>2. CASE "READ" \in t
    <3>1. read = parseRead(fixed, format) /\ R = KernelRead(format, n)
      BY <2>1, <2>2 DEF ReadStep, ReadPart
    <3>2. Holds(data, p1, KernelRead(format, n))
      BY <1>4, <3>1
    <3>3. CASE KnownFormat(format)
      <4>1. IF "GROUP" \in format /\ n > MaxReadValues THEN parseRead(fixed, format).ok = FALSE
            ELSE Good(parseRead(fixed, format), data, p1 + Len(KernelRead(format, n)), id)
        BY <1>4, <1>5, <1>6, <3>2, <3>3, ReadGood
      <4> QED BY <1>4, <2>2, <3>1, <3>3, <4>1
    <3>4. CASE ~KnownFormat(format)
      <4>1. read = Failed(fixed)
        BY <3>1, <3>4 DEF parseRead, KnownFormat
      <4>2. Failed(fixed).ok = FALSE
        BY <1>6, GoodFields
      <4> QED BY <2>2, <3>4, <4>1, <4>2
    <3> QED BY <3>3, <3>4
  <2>3. CASE "READ" \notin t
    <3>1. read = fixed /\ Len(R) = 0
      BY <2>3, BlockEmpty DEF ReadStep, ReadPart
    <3>2. p2 = p1
      BY <1>4, <1>5, <3>1
    <3> QED BY <1>6, <2>3, <3>1, <3>2
  <2> QED BY <2>2, <2>3
<1> HIDE DEF read, R
<1>8. IF deep \/ long THEN chain.ok = FALSE ELSE Good(chain, data, p3, id)
  <2>1. CASE deep
    <3>1. read.ok = FALSE
      BY <1>7, <2>1
    <3>2. chain = read
      BY <3>1 DEF ChainStep
    <3> QED BY <2>1, <3>1, <3>2
  <2>2. CASE ~deep
    <3>1. Good(read, data, p2, id)
      BY <1>7, <2>2
    <3>2. read.ok = TRUE
      BY <3>1, GoodFields
    <3>3. CASE "CALLCHAIN" \in t
      <4>1. chain = parseCallchain(read) /\ C = KernelChain(n)
        BY <3>2, <3>3 DEF ChainStep, ChainPart
      <4>2. Holds(data, p2, KernelChain(n))
        BY <1>4, <4>1
      <4>3. IF n > MaxCallchain THEN parseCallchain(read).ok = FALSE
            ELSE Good(parseCallchain(read), data, p2 + Len(KernelChain(n)), id)
        BY <1>4, <1>5, <3>1, <4>2, CallchainGood
      <4> HIDE DEF chain, C, deep
      <4> QED BY <1>4, <2>2, <3>3, <4>1, <4>3
    <3>4. CASE "CALLCHAIN" \notin t
      <4>1. chain = read /\ Len(C) = 0
        BY <3>4, BlockEmpty DEF ChainStep, ChainPart
      <4>2. p3 = p2
        BY <1>4, <1>5, <4>1
      <4> HIDE DEF chain, deep
      <4> QED BY <2>2, <3>1, <3>4, <4>1, <4>2
    <3> QED BY <3>3, <3>4
  <2> QED BY <2>1, <2>2
<1> HIDE DEF chain, C
<1>9. IF deep \/ long THEN c.ok = FALSE ELSE Good(c, data, p4, id)
  <2>1. CASE deep \/ long
    <3>1. chain.ok = FALSE
      BY <1>8, <2>1
    <3>2. c = chain
      BY <3>1 DEF RawStep
    <3> HIDE DEF c, deep, long
    <3> QED BY <2>1, <3>1, <3>2
  <2>2. CASE ~(deep \/ long)
    <3>1. Good(chain, data, p3, id)
      BY <1>8, <2>2
    <3>2. chain.ok = TRUE
      BY <3>1, GoodFields
    <3> HIDE DEF deep, long
    <3>3. CASE "RAW" \in t
      <4>1. c = parseRaw(chain) /\ W = RawCells
        BY <3>2, <3>3 DEF RawStep, RawPart
      <4>2. Holds(data, p3, RawCells)
        BY <1>4, <4>1
      <4>3. PICK m \in Nat : p3 = 2 * m
        BY <1>5
      <4>4. Good(parseRaw(chain), data, p3 + 2, id)
        BY <1>4, <1>5, <3>1, <4>2, <4>3, RawGood
      <4>5. p4 = p3 + 2
        BY <1>4, <4>1, RawBlock
      <4> HIDE DEF c
      <4> QED BY <2>2, <4>1, <4>4, <4>5
    <3>4. CASE "RAW" \notin t
      <4>1. c = chain /\ Len(W) = 0
        BY <3>4, BlockEmpty DEF RawStep, RawPart
      <4>2. p4 = p3
        BY <1>4, <1>5, <4>1
      <4> HIDE DEF c
      <4> QED BY <2>2, <3>1, <4>1, <4>2
    <3> QED BY <3>3, <3>4
  <2> QED BY <2>1, <2>2
<1>10. TooMuch(t, format, n) <=> deep \/ long
  BY DEF TooMuch
<1> HIDE DEF c, deep, long
<1>11. Len(data) - p4 = IF "OTHER" \in t THEN 2 ELSE 0
  BY <1>4, <1>5
<1>12. IF TooMuch(t, format, n) THEN c.ok = FALSE
       ELSE \E p : Good(c, data, p, id) /\ Len(data) - p = IF "OTHER" \in t THEN 2 ELSE 0
  BY <1>9, <1>10, <1>11
<1>13. SampleRead(data, t, format, id, n, c)
  BY <1>4, <1>12 DEF SampleRead, F
<1> QED BY <1>2, <1>13 DEF t, format

\* The ID is where sampleLookupOffset says.
LEMMA LookupGood ==
  ASSUME NEW t, NEW id \in Nat, NEW data \in Seq(CellType), Holds(data, 2, FixedPart(t, id)),
         IDNames \cap t # {}
  PROVE  LET at == sampleLookupOffset(t)
         IN  at \in Nat /\ at + 2 <= Len(data) /\ data[at + 1].n = id
<1> DEFINE two == 2
<1>1. two \in Nat /\ Holds(data, two, Words(FixedOrder, t, id)) /\ Len(data) \in Nat
  BY DEF FixedPart
<1>2. FixedOrder \in Seq(Text) /\ Distinct(FixedOrder) /\ 1 \in 1..Len(FixedOrder) /\ 6 \in 1..Len(FixedOrder)
  BY FixedOrders
<1> HIDE DEF two
<1>3. CASE "IDENTIFIER" \in t
  <2> DEFINE one == 1
  <2>1. FixedOrder[one] = "IDENTIFIER" /\ one \in 1..Len(FixedOrder) /\ one - 1 = 0
    BY <1>2, FixedOrders
  <2> HIDE DEF one
  <2>2. FixedOrder[one] \in t /\ FixedOrder[one] \in IDNames
    BY <1>3, <2>1 DEF IDNames
  <2> DEFINE before == Chosen(FixedOrder, one - 1, t)
  <2>3. before = {}
    BY <2>1, FixedOrders DEF Chosen
  <2>4. LET at == two + 2 * Cardinality(before)
        IN  Cardinality(before) \in Nat /\ at + 2 <= Len(data) /\ data[at + 1].n = id
    BY <1>1, <1>2, <2>1, <2>2, WordAt
  <2>5. Cardinality(before) = 0
    BY <2>3, FS_EmptySet
  <2> HIDE DEF before
  <2>6. two + 2 * Cardinality(before) = 2
    BY <2>5 DEF two
  <2>7. sampleLookupOffset(t) = 2
    BY <1>3 DEF sampleLookupOffset
  <2> QED BY <2>4, <2>6, <2>7
<1>4. CASE "IDENTIFIER" \notin t
  <2> DEFINE six == 6
  <2>1. FixedOrder[six] = "ID" /\ six \in 1..Len(FixedOrder) /\ six - 1 = 5
    BY <1>2, FixedOrders
  <2>2. "ID" \in t
    BY <1>4 DEF IDNames
  <2> HIDE DEF six
  <2>3. FixedOrder[six] \in t /\ FixedOrder[six] \in IDNames
    BY <2>1, <2>2 DEF IDNames
  <2> DEFINE before == Chosen(FixedOrder, six - 1, t)
             k == Cardinality(before)
  <2>4. before = t \cap {"IP", "TID", "TIME", "ADDR"}
    BY <1>4, <2>1, FixedOrders DEF Chosen
  <2>5. LET at == two + 2 * Cardinality(before)
        IN  Cardinality(before) \in Nat /\ at + 2 <= Len(data) /\ data[at + 1].n = id
    BY <1>1, <1>2, <2>1, <2>3, WordAt
  <2>6. sampleLookupOffset(t) = 2 * (1 + k)
    BY <1>4, <2>2, <2>4 DEF sampleLookupOffset
  <2> HIDE DEF before
  <2>7. k \in Nat
    BY <2>5
  <2>8. two + 2 * k = 2 * (1 + k) /\ 2 * (1 + k) \in Nat
    BY <2>7 DEF two
  <2> QED BY <2>5, <2>6, <2>8
<1> QED BY <1>3, <1>4

-----------------------------------------------------------------------------
(* Other records *)

SuffixOrder == <<"TID", "TIME", "ID", "STREAM_ID", "CPU", "IDENTIFIER">>

LEMMA SuffixOrders ==
  /\ SuffixOrder \in Seq(Text) /\ Len(SuffixOrder) = 6 /\ Distinct(SuffixOrder)
  /\ SuffixOrder[6] = "IDENTIFIER"
  /\ Named(SuffixOrder, 6) = SuffixFields
  /\ Named(SuffixOrder, 5) = SuffixFields \ {"IDENTIFIER"}
<1>1. SuffixOrder \in Seq(Text) /\ Len(SuffixOrder) = 6
  BY DEF SuffixOrder, Text
<1>2. /\ SuffixOrder[1] = "TID" /\ SuffixOrder[2] = "TIME" /\ SuffixOrder[3] = "ID"
      /\ SuffixOrder[4] = "STREAM_ID" /\ SuffixOrder[5] = "CPU" /\ SuffixOrder[6] = "IDENTIFIER"
  BY DEF SuffixOrder
<1>3. 1..6 = {1, 2, 3, 4, 5, 6} /\ 1..5 = {1, 2, 3, 4, 5}
  OBVIOUS
<1>4. Distinct(SuffixOrder)
  BY <1>1, <1>2, <1>3 DEF Distinct
<1>5. Named(SuffixOrder, 6) = SuffixFields /\ Named(SuffixOrder, 5) = SuffixFields \ {"IDENTIFIER"}
  BY <1>2, <1>3 DEF Named, SuffixFields
<1> QED BY <1>1, <1>2, <1>4, <1>5

\* The length of a suffix, and its last word if that is the identifier.
LEMMA SuffixLength ==
  ASSUME NEW t, NEW id \in Nat
  PROVE  /\ Cardinality(suffixOf(t)) \in Nat
         /\ Len(Words(SuffixOrder, t, id)) = 2 * Cardinality(suffixOf(t))
         /\ "IDENTIFIER" \in t =>
              Cardinality(suffixOf(t)) = Cardinality(Chosen(SuffixOrder, 5, t)) + 1
<1> DEFINE all == Chosen(SuffixOrder, 6, t)
           before == Chosen(SuffixOrder, 5, t)
<1>1. SuffixOrder \in Seq(Text) /\ Distinct(SuffixOrder) /\ Len(SuffixOrder) = 6
  BY SuffixOrders
<1>2. all = suffixOf(t)
  BY SuffixOrders DEF Chosen, suffixOf
<1>3. Len(Words(SuffixOrder, t, id)) = 2 * Cardinality(all)
  BY <1>1, WordsCount
<1>4. PICK upto : WordSteps(upto, SuffixOrder, t, id)
  BY <1>1, WordLoop
<1>5. IsFiniteSet(all) /\ IsFiniteSet(before)
  <2>1. 5 \in 0..Len(SuffixOrder) /\ 6 \in 0..Len(SuffixOrder)
    BY <1>1
  <2> QED BY <1>1, <1>4, <2>1, ChosenLengths
<1>6. "IDENTIFIER" \in t => all = before \cup {"IDENTIFIER"}
  BY SuffixOrders DEF Chosen, SuffixFields
<1>7. "IDENTIFIER" \notin before
  BY SuffixOrders DEF Chosen
<1> HIDE DEF all, before
<1>8. Cardinality(all) \in Nat /\ Cardinality(before) \in Nat
  BY <1>5, FS_CardinalityType
<1>9. "IDENTIFIER" \in t => Cardinality(all) = Cardinality(before) + 1
  BY <1>5, <1>6, <1>7, FS_AddElement
<1> QED BY <1>2, <1>3, <1>8, <1>9 DEF before

LEMMA SuffixGood ==
  ASSUME NEW t, NEW id \in Nat, NEW data \in Seq(CellType), NEW p \in Nat,
         Holds(data, p, Words(SuffixOrder, t, id)),
         NEW asked, \A i \in 1..Len(SuffixOrder) : SuffixOrder[i] \in asked <=> SuffixOrder[i] \in t
  PROVE  \E q : /\ Good(readSuffix(data, p, asked), data, q, id)
                /\ Asked(readSuffix(data, p, asked)) = suffixOf(t)
<1> DEFINE c == Cursor(data, p)
           d == u64Each(c, SuffixOrder, asked)
           q == p + Len(Words(SuffixOrder, t, id))
<1>1. SuffixOrder \in Seq(Text) /\ Len(SuffixOrder) = 6
  BY SuffixOrders
<1>2. Good(c, data, p, id) /\ Asked(c) = {}
  BY NewCursor
<1>3. readSuffix(data, p, asked) = d
  BY DEF readSuffix, SuffixOrder
<1> HIDE DEF c
<1>4. ReadOn(c, d, data, q, id, SuffixOrder, t)
  <2>1. SuffixOrder \in Seq(Text)
    BY <1>1
  <2> QED BY <1>2, <2>1, EachGood
<1>5. Asked(d) = suffixOf(t)
  BY <1>1, <1>2, <1>4, SuffixOrders DEF suffixOf, ReadOn
<1> HIDE DEF d, q
<1> QED BY <1>3, <1>4, <1>5 DEF ReadOn

LEMMA FoundGood ==
  ASSUME NEW c, NEW data, NEW p, NEW id \in Nat, Good(c, data, p, id)
  PROVE  /\ Matches(c) = TRUE
         /\ Found(c) = {} <=> Asked(c) \cap IDNames = {}
         /\ Found(c) # {} => c.got[Min(Found(c))][2].n = id
         /\ \A i, j \in Found(c) : c.got[i][2].n = c.got[j][2].n
<1> DEFINE got == c.got
           F == Found(c)
<1>1. /\ got \in Seq(Got)
      /\ \A i \in 1..Len(got) : /\ got[i][1] = got[i][2].of
                                /\ got[i][1] \in IDNames => got[i][2].n = id
  BY DEF Good
<1>2. DOMAIN got = 1..Len(got) /\ Len(got) \in Nat
  BY <1>1
<1>3. Asked(c) = {got[i][1] : i \in 1..Len(got)}
  BY DEF Asked
<1>4. F = {i \in 1..Len(got) : got[i][1] \in IDNames}
  BY <1>2 DEF Found, IDNames
<1>5. Matches(c) = TRUE
  <2>1. \A i \in DOMAIN got : got[i][1] = got[i][2].of
    BY <1>1, <1>2
  <2> QED BY <2>1 DEF Matches
<1>6. F = {} <=> Asked(c) \cap IDNames = {}
  <2> HIDE DEF got, F
  <2> QED BY <1>3, <1>4
<1>7. \A i \in F : got[i][2].n = id
  <2> HIDE DEF got, F
  <2> QED BY <1>1, <1>4
<1>8. F # {} => Min(F) \in F
  <2> SUFFICES ASSUME F # {} PROVE Min(F) \in F
    OBVIOUS
  <2>1. F \in SUBSET Nat
    BY <1>4
  <2> HIDE DEF F
  <2>2. \E x \in F : \A y \in F : x <= y
    BY <2>1, LeastNatural
  <2> QED BY <2>2 DEF Min
<1> HIDE DEF F, got
<1>9. F # {} => got[Min(F)][2].n = id
  BY <1>7, <1>8
<1>10. \A i, j \in F : got[i][2].n = got[j][2].n
  BY <1>7
<1> QED BY <1>5, <1>6, <1>9, <1>10 DEF F, got

BodyOf(b) == Word("body", b) \o Word("body", 0)
SuffixPart(attr, id) == IF attr.sampleIDAll THEN Words(SuffixOrder, attr.sampleType, id) ELSE <<>>

LEMMA OtherParts ==
  ASSUME NEW attr, NEW id \in Nat, NEW b \in Nat,
         NEW data, data = KernelOther(attr, id, BodyOf(b))
  PROVE  /\ data \in Seq(CellType) /\ Len(data) \in Nat /\ Len(SuffixPart(attr, id)) \in Nat
         /\ Holds(data, 6, SuffixPart(attr, id))
         /\ Len(data) = 6 + Len(SuffixPart(attr, id))
         /\ data[3].n = b
<1> DEFINE first == Word("body", b)
           second == Word("body", 0)
           body == first \o second
           head == Header \o body
           S == SuffixPart(attr, id)
<1>1. "body" \in Text /\ "header" \in Text
  BY DEF Text
<1>2. /\ Block(first) /\ Len(first) = 2 /\ first[1] = Cell("body", b) /\ Cell("body", b).n = b
      /\ Block(second) /\ Len(second) = 2 /\ Block(Header) /\ Len(Header) = 2
  BY <1>1, BlockWord DEF Header
<1>3. Block(S)
  BY SuffixOrders, BlockWords, BlockEmpty DEF SuffixPart
<1>4. data = head \o S
  BY DEF KernelOther, BodyOf, SuffixPart, SuffixOrder
<1> HIDE DEF first, second, S
<1>5. Block(body) /\ Len(body) = 4
  <2>1. Block(body) /\ Len(body) = Len(first) + Len(second)
    BY <1>2, BlockConcat
  <2> HIDE DEF body
  <2> QED BY <1>2, <2>1
<1>6. body = first \o second
  OBVIOUS
<1> HIDE DEF body
<1>7. Block(head) /\ Len(head) = 6 /\ head = Header \o body
  <2>1. Block(head) /\ Len(head) = Len(Header) + Len(body)
    BY <1>2, <1>5, BlockConcat
  <2>2. head = Header \o body
    OBVIOUS
  <2> HIDE DEF head
  <2> QED BY <1>2, <1>5, <2>1, <2>2
<1> HIDE DEF head
<1>8. Block(data) /\ Len(data) = 6 + Len(S)
  BY <1>3, <1>4, <1>7, BlockConcat
<1>9. data \in Seq(CellType) /\ Len(data) \in Nat /\ Len(S) \in Nat
  BY <1>3, <1>8, BlockLen
<1>10. Holds(data, 0, head \o S)
  BY <1>4, <1>9, HoldsItself
<1>11. Holds(data, 0, head) /\ Holds(data, Len(head), S)
  BY <1>3, <1>7, <1>9, <1>10, HoldsTwo
<1>12. Holds(data, Len(Header), body)
  BY <1>2, <1>5, <1>7, <1>9, <1>11, HoldsTwo
<1> DEFINE two == 2
<1>13. Holds(data, two, first \o second) /\ two \in Nat
  BY <1>2, <1>6, <1>12
<1> HIDE DEF two
<1>14. Holds(data, two, first)
  BY <1>2, <1>9, <1>13, HoldsConcat, BlockLen
<1>15. data[3] = first[1]
  <2>1. 1 \in 1..Len(first) /\ two + 1 = 3
    BY <1>2 DEF two
  <2>2. data[two + 1] = first[1]
    BY <1>14, <2>1 DEF Holds
  <2> QED BY <2>1, <2>2
<1> QED BY <1>2, <1>7, <1>8, <1>9, <1>11, <1>15 DEF S

-----------------------------------------------------------------------------
(* Decoding with what the reader knows *)

\* The reader was told of the attribute and the ID, and of no attribute that
\* has another layout.
Laid(attr, id) ==
  /\ id \in DOMAIN reader.byID /\ reader.byID[id] \in Nat \ {0}
  /\ reader.attrs[reader.byID[id]].attr = attr
  /\ reader.sampleIDOffset = sampleLookupOffset(attr.sampleType)
  /\ reader.suffixLayoutSet <=> attr.sampleIDAll
  /\ attr.sampleIDAll =>
       IF reader.suffixIDAll THEN "IDENTIFIER" \in attr.sampleType
       ELSE reader.suffixMask = suffixOf(attr.sampleType)

Identified(t) == IDNames \cap t # {}

LEMMA DescFound ==
  ASSUME NEW attr, NEW id, Laid(attr, id)
  PROVE  DescOf(id) = reader.byID[id] /\ DescOf(id) # 0 /\ reader.attrs[DescOf(id)].attr = attr
BY DEF DescOf, Laid

SampleResult(r, attr, id, n) ==
  LET t == attr.sampleType
  IN  IF ~Identified(t) \/ TooMuch(t, attr.readFormat, n) THEN r = Corrupt
      ELSE \E c : /\ Matches(c) = TRUE
                  /\ r = Decoded(reader.byID[id], c, IF "OTHER" \in t THEN 2 ELSE 0)

LEMMA DecodeSample ==
  ASSUME NEW attr, NEW id \in Nat, NEW n \in Nat, Laid(attr, id),
         NEW data, data = KernelSample(attr, id, n)
  PROVE  SampleResult(decodeSample(data), attr, id, n)
<1> DEFINE t == attr.sampleType
           at == reader.sampleIDOffset
           d == DescOf(data[at + 1].n)
           c == parseSample(data, reader.attrs[d].attr)
           e == parseSample(data, attr)
           r == decodeSample(data)
<1>1. at = sampleLookupOffset(t)
  BY DEF Laid
<1>2. r = IF at < 0 \/ at + 2 > Len(data) THEN Corrupt
          ELSE IF d = 0 THEN Corrupt
          ELSE IF ~c.ok THEN Corrupt
          ELSE IF \E i, j \in Found(c) : c.got[i][2].n # c.got[j][2].n THEN Corrupt
          ELSE Decoded(d, c, remaining(c))
  BY DEF decodeSample
<1>3. CASE ~Identified(t)
  <2>1. at = -1
    BY <1>1, <1>3 DEF sampleLookupOffset, Identified, IDNames
  <2> HIDE DEF at, d, c, r
  <2>2. at < 0
    BY <2>1
  <2>3. r = Corrupt
    BY <1>2, <2>2
  <2> QED BY <1>3, <2>3 DEF r, SampleResult
<1>4. CASE Identified(t)
  <2>1. /\ data \in Seq(CellType) /\ Holds(data, 2, FixedPart(t, id))
        /\ IF TooMuch(t, attr.readFormat, n) THEN e.ok = FALSE
           ELSE \E p : Good(e, data, p, id) /\ Len(data) - p = IF "OTHER" \in t THEN 2 ELSE 0
    <3>1. SampleRead(data, t, attr.readFormat, id, n, e)
      BY SampleGood
    <3> HIDE DEF t, e
    <3> QED BY <3>1 DEF SampleRead
  <2>2. at \in Nat /\ at + 2 <= Len(data) /\ data[at + 1].n = id
    BY <1>1, <1>4, <2>1, LookupGood DEF Identified
  <2>3. d = reader.byID[id] /\ d # 0 /\ c = e
    BY <2>2, DescFound
  <2> HIDE DEF at, d, c, r, t, e
  <2>4. Len(data) \in Nat
    BY <2>1
  <2>5. ~(at < 0 \/ at + 2 > Len(data))
    BY <2>2, <2>4
  <2>6. CASE TooMuch(t, attr.readFormat, n)
    <3>1. ~c.ok
      BY <2>1, <2>3, <2>6
    <3>2. r = Corrupt
      BY <1>2, <2>3, <2>5, <3>1
    <3> QED BY <2>6, <3>2 DEF r, t, SampleResult
  <2>7. CASE ~TooMuch(t, attr.readFormat, n)
    <3>1. PICK p : Good(c, data, p, id) /\ Len(data) - p = IF "OTHER" \in t THEN 2 ELSE 0
      BY <2>1, <2>3, <2>7
    <3>2. c.ok = TRUE /\ remaining(c) = Len(data) - p
      BY <3>1, GoodFields
    <3>3. Matches(c) = TRUE /\ ~(\E i, j \in Found(c) : c.got[i][2].n # c.got[j][2].n)
      BY <3>1, FoundGood
    <3>4. r = Decoded(d, c, remaining(c))
      BY <1>2, <2>3, <2>5, <3>2, <3>3
    <3>5. r = Decoded(reader.byID[id], c, IF "OTHER" \in t THEN 2 ELSE 0)
      BY <2>3, <3>1, <3>2, <3>4
    <3>6. \E x : /\ Matches(x) = TRUE
                 /\ r = Decoded(reader.byID[id], x, IF "OTHER" \in t THEN 2 ELSE 0)
      BY <3>3, <3>5
    <3> QED BY <1>4, <2>7, <3>6 DEF r, t, SampleResult
  <2> QED BY <2>6, <2>7
<1> QED BY <1>3, <1>4

\* resolveSuffix finds the suffix of a whole record.
LEMMA ResolveGood ==
  ASSUME NEW attr, NEW id \in Nat, NEW b \in Nat, Laid(attr, id), attr.sampleIDAll \in BOOLEAN,
         NEW data, data = KernelOther(attr, id, BodyOf(b))
  PROVE  LET layout == resolveSuffix(data)
         IN  /\ layout.ok = TRUE /\ layout.start = 6
             /\ layout.mask = IF attr.sampleIDAll THEN suffixOf(attr.sampleType) ELSE {}
<1> DEFINE t == attr.sampleType
           d == DescOf(data[Len(data) - 1].n)
           a == reader.attrs[d].attr
           mask == IF reader.suffixIDAll THEN suffixOf(a.sampleType) ELSE reader.suffixMask
           start == Len(data) - 2 * Cardinality(mask)
           none == [ok |-> FALSE, start |-> 0, mask |-> {}]
           layout == resolveSuffix(data)
           S == SuffixPart(attr, id)
<1>1. /\ data \in Seq(CellType) /\ Len(data) \in Nat /\ Len(S) \in Nat
      /\ Holds(data, 6, S) /\ Len(data) = 6 + Len(S)
  BY OtherParts
<1>2. CASE ~attr.sampleIDAll
  <2>1. layout = [ok |-> TRUE, start |-> Len(data), mask |-> {}]
    BY <1>2 DEF resolveSuffix, Laid
  <2>2. Len(S) = 0
    BY <1>2, BlockEmpty DEF SuffixPart
  <2>3. Len(data) = 6
    BY <1>1, <2>2
  <2> HIDE DEF layout
  <2>4. layout.ok = TRUE /\ layout.start = 6 /\ layout.mask = {}
    BY <2>1, <2>3
  <2> QED BY <1>2, <2>4 DEF layout
<1>3. CASE attr.sampleIDAll
  <2> DEFINE k == Cardinality(suffixOf(t))
  <2>1. S = Words(SuffixOrder, t, id)
    BY <1>3 DEF SuffixPart
  <2>2. Len(S) = 2 * k /\ k \in Nat
    BY <2>1, SuffixLength
  <2>3. reader.suffixIDAll => d = reader.byID[id] /\ d # 0 /\ a = attr /\ "IDENTIFIER" \in t /\ Len(data) >= 4
    <3> SUFFICES ASSUME reader.suffixIDAll
                 PROVE  d = reader.byID[id] /\ d # 0 /\ a = attr /\ "IDENTIFIER" \in t /\ Len(data) >= 4
      OBVIOUS
    <3>1. "IDENTIFIER" \in t
      BY <1>3 DEF Laid
    <3> DEFINE p == 6
               i == 6
               j == Cardinality(Chosen(SuffixOrder, i - 1, t))
    <3>2. /\ SuffixOrder \in Seq(Text) /\ Distinct(SuffixOrder) /\ i \in 1..Len(SuffixOrder)
          /\ SuffixOrder[i] = "IDENTIFIER" /\ p \in Nat /\ p = 6 /\ i - 1 = 5
      BY SuffixOrders
    <3>3. k = Cardinality(Chosen(SuffixOrder, 5, t)) + 1
      BY <3>1, SuffixLength
    <3>4. Holds(data, p, Words(SuffixOrder, t, id))
      BY <1>1, <2>1
    <3> HIDE DEF p, i, k
    <3>5. k = j + 1
      BY <3>2, <3>3
    <3>6. SuffixOrder[i] \in t /\ SuffixOrder[i] \in IDNames
      BY <3>1, <3>2 DEF IDNames
    <3>7. LET at == p + 2 * j IN j \in Nat /\ at + 2 <= Len(data) /\ data[at + 1].n = id
      BY <1>1, <3>2, <3>4, <3>6, WordAt
    <3> HIDE DEF j
    <3>8. Len(data) - 1 = (p + 2 * j) + 1 /\ Len(data) >= 4
      BY <1>1, <2>2, <3>2, <3>5, <3>7
    <3>9. data[Len(data) - 1].n = id
      BY <3>7, <3>8
    <3> QED BY <3>1, <3>8, <3>9, DescFound
  <2>4. mask = suffixOf(t)
    BY <1>3, <2>3 DEF Laid
  <2>5. start = 6
    <3>1. start = Len(data) - 2 * k
      BY <2>4
    <3> HIDE DEF start, k, S
    <3> QED BY <1>1, <2>2, <3>1
  <2>6. layout = IF ~reader.suffixLayoutSet THEN [ok |-> TRUE, start |-> Len(data), mask |-> {}]
                 ELSE IF reader.suffixIDAll
                         /\ (\/ Len(data) < 4
                             \/ d = 0
                             \/ d # 0 /\ ~(a.sampleIDAll /\ "IDENTIFIER" \in a.sampleType))
                 THEN none
                 ELSE IF start < 2 THEN none
                 ELSE [ok |-> TRUE, start |-> start, mask |-> mask]
    BY DEF resolveSuffix
  <2>7. reader.suffixLayoutSet
    BY <1>3 DEF Laid
  <2> HIDE DEF layout, d, a, start, none, mask, t
  <2>8. ~(reader.suffixIDAll
          /\ (\/ Len(data) < 4
              \/ d = 0
              \/ d # 0 /\ ~(a.sampleIDAll /\ "IDENTIFIER" \in a.sampleType)))
    <3>1. CASE reader.suffixIDAll
      <4>1. a = attr /\ d # 0 /\ ~(Len(data) < 4) /\ "IDENTIFIER" \in a.sampleType
        BY <1>1, <2>3, <3>1 DEF t
      <4> QED BY <1>3, <4>1
    <3>2. CASE ~reader.suffixIDAll
      BY <3>2
    <3> QED BY <3>1, <3>2
  <2>9. ~(start < 2)
    BY <2>5
  <2>10. layout = [ok |-> TRUE, start |-> start, mask |-> mask]
    BY <2>6, <2>7, <2>8, <2>9
  <2>11. layout.ok = TRUE /\ layout.start = 6 /\ layout.mask = suffixOf(t)
    BY <2>4, <2>5, <2>10
  <2> QED BY <1>3, <2>11 DEF layout, t
<1> QED BY <1>2, <1>3

OtherResult(r, attr, id, lost) ==
  \E c : /\ Matches(c) = TRUE
         /\ r = Decoded(IF lost \/ (Identified(attr.sampleType) /\ attr.sampleIDAll)
                        THEN reader.byID[id] ELSE 0, c, 6)

LEMMA DecodeOther ==
  ASSUME NEW attr, NEW id \in Nat, Laid(attr, id), attr.sampleIDAll \in BOOLEAN, NEW lost \in BOOLEAN,
         NEW b, b = (IF lost THEN id ELSE 0), NEW data, data = KernelOther(attr, id, BodyOf(b))
  PROVE  OtherResult(decodeOther(data, 6, lost), attr, id, lost)
<1> DEFINE t == attr.sampleType
           layout == resolveSuffix(data)
           S == SuffixPart(attr, id)
           c == readSuffix(data, layout.start, layout.mask)
           own == IF lost THEN DescOf(data[3].n) ELSE 0
           d == IF Found(c) = {} THEN own ELSE DescOf(c.got[Min(Found(c))][2].n)
           chosen == IF attr.sampleIDAll THEN t ELSE {}
<1>1. b \in Nat /\ data = KernelOther(attr, id, BodyOf(b)) /\ (lost => b = id)
  OBVIOUS
<1>2. /\ data \in Seq(CellType) /\ Len(data) \in Nat /\ Len(S) \in Nat
      /\ Holds(data, 6, S) /\ Len(data) = 6 + Len(S) /\ data[3].n = b
  BY <1>1, OtherParts
<1>3. layout.ok = TRUE /\ layout.start = 6 /\ layout.mask = IF attr.sampleIDAll THEN suffixOf(t) ELSE {}
  BY <1>1, ResolveGood
<1>4. decodeOther(data, 6, lost) = IF Len(data) < 6 \/ ~layout.ok THEN Corrupt
                                   ELSE IF layout.start < 6 THEN Corrupt
                                   ELSE Decoded(d, c, layout.start)
  BY DEF decodeOther
<1> HIDE DEF layout, S
<1>5. decodeOther(data, 6, lost) = Decoded(d, c, 6)
  <2> HIDE DEF d, c
  <2>1. ~(Len(data) < 6)
    BY <1>2
  <2> QED BY <1>3, <1>4, <2>1
<1>6. \E q : Good(c, data, q, id) /\ Asked(c) = suffixOf(chosen)
  <2> DEFINE six == 6
             asked == layout.mask
  <2>1. six \in Nat /\ layout.start = six
    BY <1>3
  <2>2. Holds(data, six, Words(SuffixOrder, chosen, id))
    <3>1. CASE attr.sampleIDAll
      BY <1>2, <3>1 DEF SuffixPart, S
    <3>2. CASE ~attr.sampleIDAll
      <4>1. suffixOf({}) = {} /\ chosen = {}
        BY <3>2 DEF suffixOf
      <4> DEFINE none == Words(SuffixOrder, chosen, id)
                 k == Cardinality(suffixOf(chosen))
      <4>2. Len(none) = 2 * k /\ k = 0
        BY <4>1, SuffixLength, FS_EmptySet
      <4> HIDE DEF none, k
      <4>3. Len(none) = 0
        BY <4>2
      <4>4. Holds(data, six, none)
        BY <1>2, <4>3 DEF Holds
      <4> QED BY <4>4 DEF none
    <3> QED BY <3>1, <3>2
  <2>3. \A i \in 1..Len(SuffixOrder) : SuffixOrder[i] \in asked <=> SuffixOrder[i] \in chosen
    <3>1. \A i \in 1..Len(SuffixOrder) : SuffixOrder[i] \in SuffixFields
      BY SuffixOrders DEF Named
    <3> QED BY <1>3, <3>1 DEF suffixOf
  <2>4. c = readSuffix(data, six, asked)
    BY <2>1
  <2> HIDE DEF six, asked, chosen
  <2> QED BY <1>2, <2>1, <2>2, <2>3, <2>4, SuffixGood
<1> HIDE DEF c
<1>7. /\ Matches(c) = TRUE
      /\ Found(c) = {} <=> Asked(c) \cap IDNames = {}
      /\ Found(c) # {} => c.got[Min(Found(c))][2].n = id
      /\ Asked(c) = suffixOf(chosen)
  BY <1>6, FoundGood
<1>8. Found(c) = {} <=> ~(Identified(t) /\ attr.sampleIDAll)
  BY <1>7 DEF suffixOf, Identified, IDNames, SuffixFields
<1>9. DescOf(id) = reader.byID[id] /\ own = IF lost THEN reader.byID[id] ELSE 0
  BY <1>1, <1>2, DescFound
<1>10. d = IF lost \/ (Identified(t) /\ attr.sampleIDAll) THEN reader.byID[id] ELSE 0
  <2> HIDE DEF own
  <2> QED BY <1>7, <1>8, <1>9
<1> HIDE DEF d
<1> QED BY <1>5, <1>7, <1>10 DEF OtherResult

-----------------------------------------------------------------------------
(* The invariant *)

\* A reader that compared the attributes B: its index and its layout.
Outcome(r, B) ==
  /\ Index(r) /\ NoneFalse(r)
  /\ r.err = "none" => Summary(r, B) /\ Within(r, B)
  /\ r.err = "layout" => \E a, b \in B : ~CompatiblePair(a, b)

\* The attributes compared, as in Learn.
Compared(A, attr, s) == IF s.err \in {"clock", "limit"} THEN A ELSE A \cup {attr}

Inv ==
  /\ offered \subseteq Attrs
  /\ Outcome(reader, offered)
  /\ Alive /\ phase = "reading" => Attached(reader)

\* A call of addDescriptor after its metadata was counted; q is the reader then.
LEMMA Described ==
  ASSUME NEW r, NEW A \in SUBSET Attrs, Outcome(r, A), r.err = "none",
         NEW q, Counted(r, q), q.err \in {"none", "limit"},
         NEW attr \in Attrs, NEW name \in Names, NEW ids \in Seq(Nat),
         NEW s, s = IF q.err # "none" THEN q ELSE addDescriptor(q, attr, name, ids)
  PROVE  Outcome(s, Compared(A, attr, s))
<1>0. Index(q) /\ Shape(q) /\ NoneFalse(q) /\ Summary(q, A)
  <2>1. Index(q) /\ q.attrs = r.attrs /\ Layout(q) = Layout(r) /\ Summary(r, A) /\ NoneFalse(r)
    BY DEF Counted, Outcome
  <2>2. Summary(q, A)
    BY <2>1, SummaryOfLayout
  <2> QED BY <2>1, <2>2 DEF Index, NoneFalse
<1>01. Within(q, A)
  BY DEF Counted, Outcome, Within
<1>1. CASE q.err # "none"
  BY <1>0, <1>1 DEF Outcome
<1>2. CASE q.err = "none"
  <2>1. Describes(q, attr, s)
    BY <1>0, <1>2, AddDescriptor
  <2>2. Index(s) /\ NoneFalse(s)
    BY <1>0, <2>1 DEF Describes
  <2>3. ASSUME s.err = "none" PROVE Summary(s, A \cup {attr})
    <3>1. layoutAgrees(q, attr) /\ Layout(s) = Layout(withLayout(q, attr))
      BY <2>1, <2>3 DEF Describes
    <3>2. Summary(withLayout(q, attr), A \cup {attr})
      BY <1>0, <3>1, AgreesWithAll
    <3> QED BY <3>1, <3>2, SummaryOfLayout
  <2>4. ASSUME s.err = "layout" PROVE \E a, b \in A \cup {attr} : ~CompatiblePair(a, b)
    <3>1. ~layoutAgrees(q, attr)
      BY <2>1, <2>4 DEF Describes
    <3>2. PICK a \in A : ~CompatiblePair(a, attr)
      BY <1>0, <3>1, DisagreesWithOne
    <3> QED BY <3>2
  <2>5. Within(s, A \cup {attr})
    <3>1. OldOrNew(q, attr, s)
      BY <2>1 DEF Describes
    <3> QED BY <1>01, <3>1 DEF OldOrNew, Within
  <2> QED BY <2>2, <2>3, <2>4, <2>5 DEF Outcome, Compared
<1> QED BY <1>1, <1>2

LEMMA AttachOutcome ==
  ASSUME NEW r, NEW A, Outcome(r, A)
  PROVE  /\ Outcome(attachFormats(r), A) /\ attachFormats(r).err = r.err
         /\ r.err = "none" => Attached(attachFormats(r))
<1> DEFINE s == attachFormats(r)
<1>1. /\ Index(s) /\ NoneFalse(s) /\ Layout(s) = Layout(r) /\ s.err = r.err
      /\ s.err = "none" => Attached(s)
      /\ r.err = "none" => Within(s, A)
  BY AttachFormats DEF Outcome
<1> HIDE DEF s
<1>2. r.err = "none" => Summary(s, A)
  BY <1>1, SummaryOfLayout DEF Outcome
<1>3. Outcome(s, A)
  BY <1>1, <1>2 DEF Outcome
<1> QED BY <1>1, <1>3 DEF s

LEMMA TracingData ==
  ASSUME NEW r, NEW A, Outcome(r, A), r.err = "none", NEW ids \in Seq(Nat)
  PROVE  /\ Outcome(parseTracingData(r, ids), A)
         /\ parseTracingData(r, ids).err = "none" => Attached(parseTracingData(r, ids))
<1>1. PICK s : Counted(r, s) /\ parseTracingData(r, ids) = attachFormats(s)
  BY FormatLoop DEF Outcome
<1>2. Index(s) /\ NoneFalse(s)
  BY <1>1 DEF Counted, Outcome, NoneFalse
<1>3. s.err = "none" => Summary(s, A)
  BY <1>1, SummaryOfLayout DEF Counted, Outcome
<1>4. s.err = "none" => Within(s, A)
  BY <1>1 DEF Counted, Outcome, Within
<1>5. Outcome(s, A)
  BY <1>1, <1>2, <1>3, <1>4 DEF Counted, Outcome
<1> QED BY <1>1, <1>5, AttachOutcome

\* The reader after an EVENT_DESC, before formats are attached.
LEMMA EventDesc ==
  ASSUME NEW r, NEW A \in SUBSET Attrs, Outcome(r, A), r.err = "none",
         NEW attr \in Attrs, NEW name \in Names, NEW ids \in Seq(Nat)
  PROVE  LET s == parseEventDesc(r, attr, name, ids) IN Outcome(s, Compared(A, attr, s))
<1> DEFINE q == addMetadata(r, 1 + Len(ids))
           s == parseEventDesc(r, attr, name, ids)
<1>1. Counted(r, q) /\ q.err \in {"none", "limit"}
  BY AddMetadata DEF Outcome
<1>2. s = IF q.err # "none" THEN q ELSE addDescriptor(q, attr, name, ids)
  BY DEF parseEventDesc
<1> HIDE DEF q, s
<1>3. Outcome(s, Compared(A, attr, s))
  BY <1>1, <1>2, Described
<1> QED BY <1>3 DEF s

LEMMA ReadIDs ==
  ASSUME NEW r, Index(r), NEW ids \in Seq(Nat)
  PROVE  Counted(r, readIDs(r, ids)) /\ readIDs(r, ids).err \in {r.err, "limit"}
<1>1. CASE Cardinality(DOMAIN r.byID) + Len(ids) > MaxIDs
  <2>1. readIDs(r, ids) = Error(r, "limit") /\ Shape(r)
    BY <1>1 DEF readIDs, Index
  <2> QED BY <2>1, ErrorKeeps, ErrorIndex DEF Counted
<1>2. CASE ~(Cardinality(DOMAIN r.byID) + Len(ids) > MaxIDs)
  <2>1. readIDs(r, ids) = addMetadata(r, 1 + Len(ids)) /\ 1 + Len(ids) \in Nat
    BY <1>2 DEF readIDs
  <2> QED BY <2>1, AddMetadata
<1> QED BY <1>1, <1>2

-----------------------------------------------------------------------------
(* The actions *)

LEMMA Initial == Init => Inv
<1> SUFFICES ASSUME Init PROVE Inv
  OBVIOUS
<1> DEFINE r == reader
<1>1. /\ Shape(r) /\ r.attrs = <<>> /\ r.byID = <<>> /\ r.metadata = 0 /\ r.err = "none"
      /\ r.layoutSet = FALSE /\ r.suffixLayoutSet = FALSE /\ r.suffixIDAll = FALSE
      /\ r.noSampleIDAll = FALSE /\ offered = {}
  BY DEF Init, NewReader, Shape
<1>2. DOMAIN r.attrs = {} /\ DOMAIN r.byID = {} /\ Len(r.attrs) = 0 /\ r.attrs \in Seq(Descriptor)
  BY <1>1
<1>3. Index(r)
  <2>1. IsFiniteSet(DOMAIN r.byID) /\ Cardinality(DOMAIN r.byID) = 0
    BY <1>2, FS_EmptySet
  <2> QED BY <1>1, <1>2, <2>1, MetadataAssumption DEF Index
<1>4. Summary(r, {})
  BY <1>1 DEF Summary, Flags
<1> QED BY <1>1, <1>2, <1>3, <1>4 DEF Inv, Outcome, NoneFalse, Attached, Within

\* Metadata that comes with an attribute: what Learn does with its outcome.
LEMMA LearnKeeps ==
  ASSUME Inv, NEW attr \in Attrs, NEW r, Learn(r, attr), Outcome(r, Compared(offered, attr, r)),
         r.err = "none" /\ phase' = "reading" => Attached(r)
  PROVE  Inv'
<1>1. reader' = r /\ offered' = Compared(offered, attr, r)
  BY DEF Learn, Compared
<1>2. offered' \subseteq Attrs
  BY <1>1 DEF Inv, Compared
<1>3. Outcome(reader', offered')
  BY <1>1
<1>4. reader'.err = "none" /\ phase' = "reading" => Attached(reader')
  BY <1>1
<1> QED BY <1>2, <1>3, <1>4 DEF Inv, Alive, Outcome, Index, Shape, NoneFalse, Summary, Flags, Attached, Within

LEMMA Step == Inv /\ [Next]_vars => Inv'
<1> SUFFICES ASSUME Inv, [Next]_vars PROVE Inv'
  OBVIOUS
<1>0. /\ offered \in SUBSET Attrs /\ Outcome(reader, offered) /\ Index(reader)
      /\ Alive => reader.err = "none"
      /\ NoName \in Names /\ IDLists \subseteq Seq(Nat) /\ FormatLists \subseteq Seq(Nat)
  BY MetadataAssumption DEF Inv, Alive, Outcome
<1>1. ASSUME NEW attr \in Attrs, NEW ids \in IDLists, SeekAttr(attr, ids) PROVE Inv'
  <2> DEFINE q == readIDs(reader, ids)
             s == IF q.err # "none" THEN q ELSE addDescriptor(q, attr, NoName, ids)
  <2>1. Learn(s, attr) /\ phase' # "reading" /\ reader.err = "none"
    BY <1>1, <1>0 DEF SeekAttr
  <2>2. Counted(reader, q) /\ q.err \in {"none", "limit"}
    BY <1>0, <2>1, ReadIDs
  <2>3. s = IF q.err # "none" THEN q ELSE addDescriptor(q, attr, NoName, ids)
    OBVIOUS
  <2> HIDE DEF q, s
  <2>4. Outcome(s, Compared(offered, attr, s))
    BY <1>0, <2>1, <2>2, <2>3, Described
  <2> QED BY <2>1, <2>4, LearnKeeps
<1>2. ASSUME NEW attr \in Attrs, NEW ids \in IDLists, HeaderAttr(attr, ids) PROVE Inv'
  <2> DEFINE q == addMetadata(reader, 1 + Len(ids))
             t == IF q.err # "none" THEN q ELSE addDescriptor(q, attr, NoName, ids)
             s == IF q.err # "none" THEN q ELSE attachFormats(t)
  <2>1. reader.err = "none" /\ Learn(s, attr)
    BY <1>0, <1>2 DEF HeaderAttr, Running
  <2>2. Counted(reader, q) /\ q.err \in {"none", "limit"}
    <3>1. 1 + Len(ids) \in Nat
      BY <1>0
    <3> QED BY <1>0, <2>1, <3>1, AddMetadata
  <2>3. /\ t = IF q.err # "none" THEN q ELSE addDescriptor(q, attr, NoName, ids)
        /\ s = IF q.err # "none" THEN q ELSE attachFormats(t)
        /\ q.err # "none" => t = q
    OBVIOUS
  <2> HIDE DEF q, t, s
  <2>4. Outcome(t, Compared(offered, attr, t))
    BY <1>0, <2>1, <2>2, <2>3, Described
  <2>5. CASE q.err # "none"
    <3>1. s = t /\ s.err # "none"
      BY <2>3, <2>5
    <3> QED BY <2>1, <2>4, <3>1, LearnKeeps
  <2>6. CASE q.err = "none"
    <3>1. s = attachFormats(t)
      BY <2>3, <2>6
    <3>2. /\ Outcome(s, Compared(offered, attr, t)) /\ s.err = t.err
          /\ s.err = "none" => Attached(s)
      BY <2>4, <3>1, AttachOutcome
    <3>3. Outcome(s, Compared(offered, attr, s))
      BY <3>2 DEF Compared
    <3> QED BY <2>1, <3>2, <3>3, LearnKeeps
  <2> QED BY <2>5, <2>6
<1>3. ASSUME NEW attr \in Attrs, NEW ids \in IDLists, NEW name \in Names,
             SeekEventDesc(attr, name, ids)
      PROVE  Inv'
  <2> DEFINE s == parseEventDesc(reader, attr, name, ids)
  <2>1. Learn(s, attr) /\ phase' # "reading" /\ reader.err = "none"
    BY <1>0, <1>3 DEF SeekEventDesc
  <2>2. Outcome(s, Compared(offered, attr, s))
    BY <1>0, <2>1, EventDesc
  <2> HIDE DEF s
  <2> QED BY <2>1, <2>2, LearnKeeps
<1>4. ASSUME NEW attr \in Attrs, NEW ids \in IDLists, NEW name \in Names,
             HeaderEventDesc(attr, name, ids)
      PROVE  Inv'
  <2> DEFINE t == parseEventDesc(reader, attr, name, ids)
             s == attachFormats(t)
  <2>1. Learn(s, attr) /\ reader.err = "none"
    BY <1>0, <1>4 DEF HeaderEventDesc, Running
  <2>2. Outcome(t, Compared(offered, attr, t))
    BY <1>0, <2>1, EventDesc
  <2> HIDE DEF t
  <2>3. /\ Outcome(s, Compared(offered, attr, t)) /\ s.err = t.err
        /\ s.err = "none" => Attached(s)
    BY <2>2, AttachOutcome
  <2> HIDE DEF s
  <2>4. Outcome(s, Compared(offered, attr, s))
    BY <2>3 DEF Compared
  <2> QED BY <2>1, <2>3, <2>4, LearnKeeps
<1>5. ASSUME Outcome(reader', offered), offered' = offered,
             reader'.err = "none" /\ phase' = "reading" => Attached(reader')
      PROVE  Inv'
  BY <1>0, <1>5 DEF Inv, Alive, Outcome, Index, Shape, NoneFalse, Summary, Flags, Attached, Within
<1>6. ASSUME NEW ids \in FormatLists, SeekTracingData(ids) \/ HeaderTracingData(ids) PROVE Inv'
  <2> DEFINE s == parseTracingData(reader, ids)
  <2>1. reader' = s /\ offered' = offered /\ reader.err = "none"
    BY <1>0, <1>6 DEF SeekTracingData, HeaderTracingData, Running
  <2>2. Outcome(s, offered) /\ (s.err = "none" => Attached(s))
    BY <1>0, <2>1, TracingData
  <2> HIDE DEF s
  <2> QED BY <1>5, <2>1, <2>2
<1>7. CASE SeekOpened
  <2> DEFINE s == attachFormats(reader)
  <2>1. reader' = s /\ offered' = offered /\ reader.err = "none"
    BY <1>0, <1>7 DEF SeekOpened
  <2>2. Outcome(s, offered) /\ (s.err = "none" => Attached(s))
    BY <1>0, <2>1, AttachOutcome
  <2> HIDE DEF s
  <2> QED BY <1>5, <2>1, <2>2
<1>8. CASE Compressed
  <2> DEFINE s == Error(reader, "unsupported")
  <2>1. reader' = s /\ offered' = offered
    BY <1>8 DEF Compressed
  <2>2. /\ Index(s) /\ s.attrs = reader.attrs /\ s.err = "unsupported"
    BY <1>0, ErrorKeeps, ErrorIndex DEF Index
  <2> HIDE DEF s
  <2>3. Outcome(s, offered)
    BY <1>0, <2>2 DEF Outcome, NoneFalse
  <2> QED BY <1>5, <2>1, <2>2, <2>3
<1>9. ASSUME reader' = reader, offered' = offered, phase' = phase PROVE Inv'
  BY <1>9 DEF Inv, Alive, Outcome, Index, Shape, NoneFalse, Summary, Flags, Attached, Within
<1>10. ASSUME NEW attr \in Attrs, NEW id \in KernelIDs, NEW cut \in {0, 2},
              \/ \E lost \in BOOLEAN : Other(attr, id, lost, cut)
              \/ \E n \in Counts : Sample(attr, id, n, cut)
       PROVE  Inv'
  BY <1>9, <1>10 DEF Other, Sample
<1>11. CASE Again \/ UNCHANGED vars
  BY <1>9, <1>11 DEF Again, vars
<1> QED BY <1>1, <1>2, <1>3, <1>4, <1>6, <1>7, <1>8, <1>10, <1>11 DEF Next

\* Inv is an invariant of everything Open and Next do with metadata.
THEOREM Inductive == Spec => []Inv
BY Initial, Step, PTL DEF Spec

\* The reader's index and its descriptors agree after any metadata, accepted
\* or refused half way, for any limits (addDescriptor, addMetadata).
THEOREM IndexConsistent == Spec => []Indexed
<1>1. Inv => Indexed
  BY DEF Inv, Outcome, Index, Indexed
<1> QED BY <1>1, Inductive, PTL

\* For any attributes, addDescriptor's flags accept exactly the sets whose
\* attributes are compatible pair by pair, in whatever order they come.
THEOREM LayoutOrderFree == Spec => []OrderFree
<1>1. ASSUME Inv PROVE OrderFree
  <2>1. ASSUME Alive, NEW a \in offered, NEW b \in offered PROVE CompatiblePair(a, b)
    <3>1. Summary(reader, offered) /\ offered \in SUBSET Attrs
      BY <1>1, <2>1 DEF Inv, Outcome, Alive
    <3> QED BY <3>1, SummaryCompatible
  <2>2. reader.err = "layout" => \E a, b \in offered : ~CompatiblePair(a, b)
    BY <1>1 DEF Inv, Outcome
  <2> QED BY <2>1, <2>2 DEF OrderFree
<1> QED BY <1>1, Inductive, PTL

\* Whatever the order of attributes, tracing data and descriptions, the reader
\* has attached every format it knows whenever it reads records.
THEOREM FormatsAreAttached == Spec => []FormatsAttached
<1>1. Inv => FormatsAttached
  BY DEF Inv, Attached, FormatsAttached
<1> QED BY <1>1, Inductive, PTL

-----------------------------------------------------------------------------
(* Reading records *)

\* What was told of an attribute fits the layout that the reader settled on.
LEMMA ToldLaid ==
  ASSUME Inv, Alive, NEW attr \in Attrs, NEW id, Told(attr, id)
  PROVE  Laid(attr, id) /\ attr.sampleIDAll \in BOOLEAN
<1> DEFINE r == reader
           d == r.byID[id]
<1>1. Summary(r, offered) /\ Within(r, offered) /\ Index(r)
  BY DEF Inv, Outcome, Alive
<1>2. id \in DOMAIN r.byID /\ r.attrs[d].attr = attr
  BY DEF Told
<1>3. d \in DOMAIN r.attrs
  BY <1>1, <1>2 DEF Index
<1>4. d \in Nat \ {0}
  <2>1. r.attrs \in Seq(Descriptor)
    BY <1>1 DEF Index
  <2>2. DOMAIN r.attrs = 1..Len(r.attrs) /\ Len(r.attrs) \in Nat
    BY <2>1
  <2> HIDE DEF r, d
  <2> QED BY <1>3, <2>2
<1>5. attr \in offered
  BY <1>1, <1>2, <1>3 DEF Within
<1>6. attr.sampleIDAll \in BOOLEAN
  BY MetadataAssumption
<1>7. r.sampleIDOffset = sampleLookupOffset(attr.sampleType)
  BY <1>1, <1>5 DEF Summary
<1>8. r.suffixLayoutSet <=> attr.sampleIDAll
  BY <1>1, <1>5 DEF Summary
<1>9. attr.sampleIDAll => IF r.suffixIDAll THEN "IDENTIFIER" \in attr.sampleType
                          ELSE r.suffixMask = suffixOf(attr.sampleType)
  BY <1>1, <1>5, <1>8 DEF Summary
<1> QED BY <1>2, <1>4, <1>6, <1>7, <1>8, <1>9 DEF Laid

LEMMA WholeRecord ==
  ASSUME NEW raw \in Seq(CellType)
  PROVE  Cut(raw, 0) = raw
<1>1. Len(raw) \in Nat /\ Len(raw) - 0 = Len(raw)
  OBVIOUS
<1>2. SubSeq(raw, 1, Len(raw)) = raw
  OBVIOUS
<1> QED BY <1>1, <1>2 DEF Cut

\* What ReadsKernel says of a record that was returned.
ReadAs(l) ==
  l.kind # "none" /\ l.cut = 0 /\ Told(l.attr, l.id) =>
    LET t == l.attr.sampleType
        r == l.result
    IN  IF l.kind = "sample"
        THEN IF ~Identified(t) \/ TooMuch(t, l.attr.readFormat, l.n)
             THEN r.kind = "corrupt"
             ELSE /\ r.kind = "record" /\ r.matches = TRUE
                  /\ r.desc = reader.byID[l.id]
                  /\ r.body = IF "OTHER" \in t THEN 2 ELSE 0
        ELSE /\ r.kind = "record" /\ r.matches = TRUE /\ r.body = 6
             /\ r.desc = IF l.kind = "lost" \/ (Identified(t) /\ l.attr.sampleIDAll)
                         THEN reader.byID[l.id] ELSE 0

LEMMA SampleRecord ==
  ASSUME Inv, Alive, NEW attr \in Attrs, NEW id \in Nat, NEW n \in Nat, NEW cut
  PROVE  ReadAs([kind |-> "sample", attr |-> attr, id |-> id, n |-> n, cut |-> cut,
                 result |-> decodeSample(Cut(KernelSample(attr, id, n), cut))])
<1> DEFINE raw == KernelSample(attr, id, n)
           r == decodeSample(Cut(raw, cut))
           l == [kind |-> "sample", attr |-> attr, id |-> id, n |-> n, cut |-> cut, result |-> r]
           t == attr.sampleType
<1>1. l.kind = "sample" /\ l.attr = attr /\ l.id = id /\ l.n = n /\ l.cut = cut /\ l.result = r
  OBVIOUS
<1> HIDE DEF l
<1>2. ASSUME cut = 0, Told(attr, id)
      PROVE  IF ~Identified(t) \/ TooMuch(t, attr.readFormat, n) THEN r.kind = "corrupt"
             ELSE /\ r.kind = "record" /\ r.matches = TRUE
                  /\ r.desc = reader.byID[id]
                  /\ r.body = IF "OTHER" \in t THEN 2 ELSE 0
  <2>1. Laid(attr, id)
    BY <1>2, ToldLaid
  <2>2. raw \in Seq(CellType)
    BY <2>1, SampleGood DEF SampleRead
  <2>3. r = decodeSample(raw)
    BY <1>2, <2>2, WholeRecord
  <2>4. IF ~Identified(t) \/ TooMuch(t, attr.readFormat, n) THEN r = Corrupt
        ELSE \E c : /\ Matches(c) = TRUE
                    /\ r = Decoded(reader.byID[id], c, IF "OTHER" \in t THEN 2 ELSE 0)
    <3>1. SampleResult(r, attr, id, n)
      BY <2>1, <2>3, DecodeSample
    <3> HIDE DEF r
    <3> QED BY <3>1 DEF SampleResult
  <2> HIDE DEF r, t
  <2>5. CASE ~Identified(t) \/ TooMuch(t, attr.readFormat, n)
    BY <2>4, <2>5 DEF Corrupt
  <2>6. CASE ~(~Identified(t) \/ TooMuch(t, attr.readFormat, n))
    <3> DEFINE left == IF "OTHER" \in t THEN 2 ELSE 0
    <3>1. PICK c : Matches(c) = TRUE /\ r = Decoded(reader.byID[id], c, left)
      BY <2>4, <2>6
    <3> HIDE DEF left
    <3>2. r.kind = "record" /\ r.matches = TRUE /\ r.desc = reader.byID[id] /\ r.body = left
      BY <3>1 DEF Decoded
    <3> QED BY <2>6, <3>2 DEF left
  <2> QED BY <2>5, <2>6
<1>3. ReadAs(l)
  <2> HIDE DEF r
  <2> QED BY <1>1, <1>2 DEF ReadAs
<1> QED BY <1>3 DEF l

LEMMA OtherRecord ==
  ASSUME Inv, Alive, NEW attr \in Attrs, NEW id \in Nat, NEW lost \in BOOLEAN, NEW cut,
         NEW body, body = BodyOf(IF lost THEN id ELSE 0), NEW kind, kind = IF lost THEN "lost" ELSE "other"
  PROVE  ReadAs([kind |-> kind, attr |-> attr, id |-> id, n |-> 0, cut |-> cut,
                 result |-> decodeOther(Cut(KernelOther(attr, id, body), cut), 6, lost)])
<1> DEFINE raw == KernelOther(attr, id, body)
           r == decodeOther(Cut(raw, cut), 6, lost)
           l == [kind |-> kind, attr |-> attr, id |-> id, n |-> 0, cut |-> cut, result |-> r]
           t == attr.sampleType
<1>1. l.kind = kind /\ l.attr = attr /\ l.id = id /\ l.cut = cut /\ l.result = r
  OBVIOUS
<1>2. kind # "sample" /\ (kind = "lost" <=> lost)
  OBVIOUS
<1> HIDE DEF l
<1>3. ASSUME cut = 0, Told(attr, id)
      PROVE  /\ r.kind = "record" /\ r.matches = TRUE /\ r.body = 6
             /\ r.desc = IF lost \/ (Identified(t) /\ attr.sampleIDAll) THEN reader.byID[id] ELSE 0
  <2>1. Laid(attr, id) /\ attr.sampleIDAll \in BOOLEAN
    BY <1>3, ToldLaid
  <2>2. raw \in Seq(CellType)
    <3> DEFINE b == IF lost THEN id ELSE 0
    <3>1. b \in Nat /\ raw = KernelOther(attr, id, BodyOf(b))
      OBVIOUS
    <3> HIDE DEF b, raw
    <3> QED BY <3>1, OtherParts
  <2>3. r = decodeOther(raw, 6, lost)
    BY <1>3, <2>2, WholeRecord
  <2> DEFINE d == IF lost \/ (Identified(t) /\ attr.sampleIDAll) THEN reader.byID[id] ELSE 0
  <2>4. \E c : Matches(c) = TRUE /\ decodeOther(raw, 6, lost) = Decoded(d, c, 6)
    <3> DEFINE b == IF lost THEN id ELSE 0
    <3>1. b = (IF lost THEN id ELSE 0) /\ raw = KernelOther(attr, id, BodyOf(b))
      OBVIOUS
    <3> HIDE DEF b, raw
    <3>2. OtherResult(decodeOther(raw, 6, lost), attr, id, lost)
      BY <2>1, <3>1, DecodeOther
    <3> QED BY <3>2 DEF OtherResult
  <2> HIDE DEF r, d, raw
  <2>5. PICK c : Matches(c) = TRUE /\ r = Decoded(d, c, 6)
    BY <2>3, <2>4
  <2>6. r.kind = "record" /\ r.matches = TRUE /\ r.body = 6 /\ r.desc = d
    BY <2>5 DEF Decoded
  <2> QED BY <2>6 DEF d
<1>4. ReadAs(l)
  <2> HIDE DEF r
  <2> QED BY <1>1, <1>2, <1>3 DEF ReadAs
<1> QED BY <1>4 DEF l

\* A record is only there while Next is not running.
RecInv == (last # NoRecord => phase = "reading") /\ ReadAs(last)

LEMMA NoRecordRead == last = NoRecord => RecInv
BY DEF RecInv, ReadAs, NoRecord

LEMMA RecStep == Inv /\ RecInv /\ [Next]_vars => RecInv'
<1> SUFFICES ASSUME Inv, RecInv, [Next]_vars PROVE RecInv'
  OBVIOUS
<1>1. ASSUME last' = NoRecord PROVE RecInv'
  BY <1>1 DEF RecInv, ReadAs, NoRecord
<1>2. ASSUME reader' = reader, phase' = "reading", ReadAs(last') PROVE RecInv'
  BY <1>2 DEF RecInv, ReadAs, Told
<1>3. ASSUME last' = last, reader' = reader, phase' = phase PROVE RecInv'
  BY <1>3 DEF RecInv, ReadAs, Told
<1>4. ASSUME NEW attr \in Attrs, NEW ids \in IDLists, SeekAttr(attr, ids) \/ HeaderAttr(attr, ids)
      PROVE  RecInv'
  <2>1. last' = last /\ last = NoRecord
    BY <1>4 DEF SeekAttr, HeaderAttr, Learn, Running, RecInv
  <2> QED BY <1>1, <2>1
<1>5. ASSUME NEW attr \in Attrs, NEW ids \in IDLists, NEW name \in Names,
             SeekEventDesc(attr, name, ids) \/ HeaderEventDesc(attr, name, ids)
      PROVE  RecInv'
  <2>1. last' = last /\ last = NoRecord
    BY <1>5 DEF SeekEventDesc, HeaderEventDesc, Learn, Running, RecInv
  <2> QED BY <1>1, <2>1
<1>6. ASSUME NEW ids \in FormatLists, SeekTracingData(ids) \/ HeaderTracingData(ids) PROVE RecInv'
  <2>1. last' = last /\ last = NoRecord
    BY <1>6 DEF SeekTracingData, HeaderTracingData, Running, RecInv
  <2> QED BY <1>1, <2>1
<1>7. CASE SeekOpened \/ Compressed \/ Again
  <2>1. last' = NoRecord
    BY <1>7 DEF SeekOpened, Compressed, Again, Running, RecInv
  <2> QED BY <1>1, <2>1
<1>8. KernelIDs \subseteq Nat
  <2>1. ASSUME NEW ids \in IDLists PROVE IDsOf(ids) \subseteq Nat
    <3>1. ids \in Seq(Nat)
      BY MetadataAssumption
    <3> QED BY <3>1 DEF IDsOf
  <2> QED BY <2>1 DEF KernelIDs
<1>9. ASSUME NEW attr \in Attrs, NEW id \in KernelIDs, NEW cut \in {0, 2}, NEW n \in Counts,
             Sample(attr, id, n, cut)
      PROVE  RecInv'
  <2>1. id \in Nat /\ n \in Nat
    BY <1>8, MetadataAssumption
  <2>2. /\ Alive /\ phase' = "reading" /\ reader' = reader
        /\ last' = [kind |-> "sample", attr |-> attr, id |-> id, n |-> n, cut |-> cut,
                    result |-> decodeSample(Cut(KernelSample(attr, id, n), cut))]
    BY <1>9 DEF Sample, Running
  <2>3. ReadAs(last')
    BY <2>1, <2>2, SampleRecord
  <2> QED BY <1>2, <2>2, <2>3
<1>10. ASSUME NEW attr \in Attrs, NEW id \in KernelIDs, NEW cut \in {0, 2}, NEW lost \in BOOLEAN,
              Other(attr, id, lost, cut)
       PROVE  RecInv'
  <2>1. id \in Nat
    BY <1>8
  <2> DEFINE body == BodyOf(IF lost THEN id ELSE 0)
             kind == IF lost THEN "lost" ELSE "other"
  <2>2. Alive /\ phase' = "reading" /\ reader' = reader
    BY <1>10 DEF Other, Running
  <2>3. last' = [kind |-> kind, attr |-> attr, id |-> id, n |-> 0, cut |-> cut,
                 result |-> decodeOther(Cut(KernelOther(attr, id, body), cut), 6, lost)]
    BY <1>10 DEF Other, BodyOf
  <2>4. body = BodyOf(IF lost THEN id ELSE 0) /\ kind = IF lost THEN "lost" ELSE "other"
    OBVIOUS
  <2> HIDE DEF body, kind
  <2>5. ReadAs(last')
    BY <2>1, <2>2, <2>3, <2>4, OtherRecord
  <2> QED BY <1>2, <2>2, <2>5
<1>11. CASE UNCHANGED vars
  BY <1>3, <1>11 DEF vars
<1> QED BY <1>4, <1>5, <1>6, <1>7, <1>9, <1>10, <1>11 DEF Next

\* For any attributes that addDescriptor accepted together, and any IDs, counts
\* and limits: a whole record of an attribute and an ID that the reader was told
\* of is read as the kernel wrote it, or refused for the limits, its read format
\* or the lack of an ID (parseSample, sampleLookupOffset, resolveSuffix,
\* decodeKnown, decodeLost).
THEOREM RecordsAreRead == Spec => []ReadsKernel
<1>1. RecInv => ReadsKernel
  BY DEF RecInv, ReadAs, ReadsKernel, TooMuch, KnownFormat, Identified, IDNames
<1>2. Init => RecInv
  BY NoRecordRead DEF Init
<1>3. Spec => []RecInv
  BY <1>2, RecStep, Inductive, PTL DEF Spec
<1> QED BY <1>1, <1>3, PTL
=============================================================================

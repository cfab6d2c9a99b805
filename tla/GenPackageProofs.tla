-------------------------- MODULE GenPackageProofs --------------------------
(***************************************************************************)
(* The comparisons of build constraints in eventheader-gen are sound for   *)
(* every list of targets, every set of custom tags and every constraint,   *)
(* and so a file that it agrees to generate fits into every build.         *)
(***************************************************************************)
EXTENDS GenPackage, TLAPS

-----------------------------------------------------------------------------
(* Tags *)

\* The tags of an architecture's features begin with its name and have more
\* parts.
LEMMA FeatureTags ==
  ASSUME NEW arch \in STRING, NEW features \in architectureFeatureProfiles(arch),
         NEW tag \in features
  PROVE  Len(tag) > 1 /\ tag[1] = arch
<1>1. \A names : \A fs \in levels(arch, names) : \A t \in fs : Len(t) > 1 /\ t[1] = arch
  BY DEF levels
<1>2. \A names : \A fs \in exclusive(arch, names) : \A t \in fs : Len(t) > 1 /\ t[1] = arch
  BY DEF exclusive
<1>3. \A major, minor : \A t \in arm64FeatureProfile(major, minor) : Len(t) > 1 /\ t[1] = "arm64"
  BY DEF arm64FeatureProfile
<1>4. CASE arch = "arm64"
  <2>1. architectureFeatureProfiles(arch)
          = {arm64FeatureProfile(8, minor) : minor \in 0..9}
              \cup {arm64FeatureProfile(9, minor) : minor \in 0..5}
    BY <1>4 DEF architectureFeatureProfiles
  <2> QED BY <1>3, <1>4, <2>1
<1>5. CASE arch = "wasm"
  <2>1. architectureFeatureProfiles(arch) = SUBSET {<<arch, "satconv">>, <<arch, "signext">>}
    BY <1>5 DEF architectureFeatureProfiles
  <2> QED BY <2>1
<1>6. CASE arch \notin {"arm64", "wasm"}
  <2>1. \/ \E names : architectureFeatureProfiles(arch) = levels(arch, names)
        \/ \E names : architectureFeatureProfiles(arch) = exclusive(arch, names)
        \/ architectureFeatureProfiles(arch) = {{}}
    BY <1>6 DEF architectureFeatureProfiles
  <2> QED BY <1>1, <1>2, <2>1
<1> QED BY <1>4, <1>5, <1>6

\* Where the go command finds a tag, evaluateValidAssignments finds it, and
\* nowhere else.
LEMMA EvaluateIsGo ==
  ASSUME NEW b \in Builds, NEW tag
  PROVE  tag \in Holds(b) <=> evaluate(tag, b.target, b.features, b.tags)
<1> DEFINE os == b.target.goos
           arch == b.target.goarch
<1>1. b.target \in Targets /\ os \in STRING /\ arch \in STRING
      /\ <<os>> \in knownOS /\ <<arch>> \in knownArch
  BY TargetsAssumption DEF Builds, knownOS, knownArch
<1>2. b.features \in architectureFeatureProfiles(arch)
  BY DEF Builds
<1>3. \A t \in b.features : Len(t) > 1 /\ t[1] = arch /\ isFeature(t) /\ isKnownFeature(t)
  BY <1>1, <1>2, FeatureTags DEF isFeature, isKnownFeature
<1>4. \A t \in b.tags : isCustom(t) /\ (isFeature(t) => t[1] = arch)
  BY DEF Builds
<1>5. \A t \in knownOS \cup knownArch \cup {<<"unix">>} :
        Len(t) = 1 /\ ~isFeature(t) /\ t \notin b.features /\ t \notin b.tags
  <2>1. \A t \in knownOS \cup knownArch \cup {<<"unix">>} : Len(t) = 1
    BY DEF knownOS, knownArch
  <2>2. \A t \in knownOS \cup knownArch \cup {<<"unix">>} : ~isFeature(t) /\ t \notin b.features
    <3> SUFFICES ASSUME NEW t \in knownOS \cup knownArch \cup {<<"unix">>}
                 PROVE  ~isFeature(t) /\ t \notin b.features
      OBVIOUS
    <3>0. Len(t) = 1
      BY <2>1
    <3>1. ~(Len(t) > 1)
      BY <3>0
    <3>2. ~isFeature(t)
      BY <3>1 DEF isFeature
    <3>3. t \notin b.features
      BY <1>3, <3>1
    <3> QED BY <3>2, <3>3
  <2>3. \A t \in knownOS \cup knownArch \cup {<<"unix">>} : t \notin b.tags
    BY <1>4 DEF isCustom
  <2> QED BY <2>1, <2>2, <2>3
<1> DEFINE also == {<<p[2]>> : p \in {q \in AlsoMatches : q[1] = os}}
           unix == {t \in {<<"unix">>} : os \in UnixOS}
<1>6. tag \in Holds(b) <=>
        tag = <<os>> \/ tag = <<arch>> \/ tag \in b.features \/ tag \in b.tags
        \/ tag \in also \/ tag \in unix
  BY DEF Holds
<1>7. also \subseteq knownOS
  BY <1>1, TargetsAssumption
<1>8. tag \in also <=> \/ tag = <<"linux">> /\ os = "android"
                       \/ tag = <<"solaris">> /\ os = "illumos"
                       \/ tag = <<"darwin">> /\ os = "ios"
  <2>1. tag \in also <=> \E p \in AlsoMatches : p[1] = os /\ tag = <<p[2]>>
    OBVIOUS
  <2>2. tag \in also <=>
          \/ <<"android", "linux">>[1] = os /\ tag = << <<"android", "linux">>[2] >>
          \/ <<"illumos", "solaris">>[1] = os /\ tag = << <<"illumos", "solaris">>[2] >>
          \/ <<"ios", "darwin">>[1] = os /\ tag = << <<"ios", "darwin">>[2] >>
    <3> HIDE DEF also, os
    <3> QED BY <2>1, Zenon DEF AlsoMatches
  <2> HIDE DEF also, os
  <2> QED BY <2>2
<1>9. tag \in unix <=> tag = <<"unix">> /\ os \in UnixOS
  OBVIOUS
<1> HIDE DEF os, arch, also, unix
<1>10. CASE tag \in knownOS \/ tag = <<"unix">>
  <2>1. evaluate(tag, b.target, b.features, b.tags) <=> targetMatchesOSBuildTag(os, tag)
    BY <1>10 DEF evaluate, os
  <2>2. tag # <<arch>> /\ tag \notin b.features /\ tag \notin b.tags
    BY <1>1, <1>5, <1>10, TargetsAssumption
  <2> QED BY <1>6, <1>8, <1>9, <2>1, <2>2 DEF targetMatchesOSBuildTag, UnixOS
<1>11. CASE tag \in knownArch
  <2>1. tag \notin knownOS /\ tag # <<"unix">>
    BY <1>11, TargetsAssumption
  <2>2. evaluate(tag, b.target, b.features, b.tags) <=> tag = <<arch>>
    BY <1>11, <2>1 DEF evaluate, arch
  <2> QED BY <1>1, <1>5, <1>6, <1>7, <1>9, <1>11, <2>1, <2>2
<1>12. CASE tag \notin knownOS \cup knownArch \cup {<<"unix">>}
  <2>1. tag \in Holds(b) <=> tag \in b.features \/ tag \in b.tags
    BY <1>1, <1>6, <1>7, <1>9, <1>12
  <2>2. CASE isFeature(tag) /\ tag[1] # arch
    BY <1>3, <1>4, <1>12, <2>1, <2>2 DEF evaluate, arch
  <2>3. CASE ~(isFeature(tag) /\ tag[1] # arch) /\ isKnownFeature(tag)
    BY <1>4, <1>12, <2>1, <2>3 DEF evaluate, arch, isCustom
  <2>4. CASE ~(isFeature(tag) /\ tag[1] # arch) /\ ~isKnownFeature(tag)
    BY <1>3, <1>12, <2>1, <2>4 DEF evaluate, arch
  <2> QED BY <2>2, <2>3, <2>4
<1> QED BY <1>10, <1>11, <1>12

-----------------------------------------------------------------------------
(* Comparing constraints *)

\* An assignment that evaluateValidAssignments tries for a build.
Assignment(b, left, right) ==
  {tag \in constraintTags(left) \cup constraintTags(right) :
     evaluate(tag, b.target, b.features, b.tags \cap customTags(left, right))}

\* It gives every tag of the constraints the value it has in the build.
LEMMA AssignmentIsGo ==
  ASSUME NEW b \in Builds, NEW left, NEW right,
         NEW tag \in constraintTags(left) \cup constraintTags(right)
  PROVE  tag \in Assignment(b, left, right) <=> tag \in Holds(b)
<1>1. evaluate(tag, b.target, b.features, b.tags \cap customTags(left, right))
        <=> evaluate(tag, b.target, b.features, b.tags)
  <2>1. isCustom(tag) => tag \in customTags(left, right)
    BY DEF customTags
  <2> QED BY <2>1 DEF evaluate, isCustom
<1> QED BY <1>1, EvaluateIsGo DEF Assignment

\* A constraint has the same value under sets that agree on its tags.
LEMMA EvalAgrees ==
  ASSUME NEW c, NEW S, NEW T, \A tag \in constraintTags(c) : tag \in S <=> tag \in T
  PROVE  Eval(c, S) <=> Eval(c, T)
<1>1. \A conjunct \in c : \A l \in conjunct : (l[1] \in S) <=> (l[1] \in T)
  BY DEF constraintTags
<1>2. \A conjunct \in c : \A l \in conjunct : ((l[1] \in S) = l[2]) <=> ((l[1] \in T) = l[2])
  BY <1>1
<1> QED BY <1>2 DEF Eval

\* The search of evaluateValidAssignments meets every build.
LEMMA SearchMeetsBuild ==
  ASSUME NEW b \in Builds, NEW left, NEW right, Eval(left, Holds(b))
  PROVE  /\ Eval(right, Holds(b)) => Found(left, right, TRUE)
         /\ ~Eval(right, Holds(b)) => Found(left, right, FALSE)
<1> DEFINE holds == Assignment(b, left, right)
<1>1. Eval(left, holds) /\ (Eval(right, holds) <=> Eval(right, Holds(b)))
  BY AssignmentIsGo, EvalAgrees
<1>2. /\ b.target \in Targets
      /\ b.features \in architectureFeatureProfiles(b.target.goarch)
      /\ b.tags \cap customTags(left, right) \in SUBSET customTags(left, right)
  BY DEF Builds
<1>3. ASSUME NEW wanted \in BOOLEAN, Eval(right, holds) = wanted PROVE Found(left, right, wanted)
  BY <1>1, <1>2, <1>3 DEF Found, Assignment
<1>4. Eval(right, holds) \in BOOLEAN
  BY DEF Eval
<1> HIDE DEF holds
<1>5. ASSUME Eval(right, Holds(b)) PROVE Found(left, right, TRUE)
  BY <1>1, <1>3, <1>4, <1>5
<1>6. ASSUME ~Eval(right, Holds(b)) PROVE Found(left, right, FALSE)
  BY <1>1, <1>3, <1>4, <1>6
<1> QED BY <1>5, <1>6

\* constraintImplies is sound: in every build of the go command in which left
\* holds, right holds, for any targets, features, custom tags and limits.
THEOREM ImpliesIsSound ==
  ASSUME NEW left, NEW right, constraintImplies(left, right), NEW b \in Builds,
         Eval(left, Holds(b))
  PROVE  Eval(right, Holds(b))
<1>1. CASE right = {}
  BY <1>1 DEF Eval
<1>2. CASE left = right
  BY <1>2
<1>3. CASE ~Found(left, right, FALSE)
  BY <1>3, SearchMeetsBuild
<1> QED BY <1>1, <1>2, <1>3 DEF constraintImplies

\* constraintsOverlap misses no build in which both hold.
THEOREM OverlapIsComplete ==
  ASSUME NEW left, NEW right, NEW b \in Builds, Eval(left, Holds(b)), Eval(right, Holds(b))
  PROVE  constraintsOverlap(left, right)
BY SearchMeetsBuild DEF constraintsOverlap

-----------------------------------------------------------------------------
(* Files *)

LEMMA EvalTag ==
  ASSUME NEW tag, NEW S
  PROVE  Eval(Tag(tag), S) <=> tag \in S
<1>1. Eval(Tag(tag), S) <=> (<<tag, TRUE>>[1] \in S) = <<tag, TRUE>>[2]
  BY Zenon DEF Eval, Tag
<1>2. <<tag, TRUE>>[1] = tag /\ <<tag, TRUE>>[2] = TRUE
  OBVIOUS
<1> QED BY <1>1, <1>2

LEMMA EvalUnion ==
  ASSUME NEW c, NEW d, NEW S
  PROVE  Eval(c \cup d, S) <=> Eval(c, S) /\ Eval(d, S)
BY DEF Eval

LEMMA EvalNone ==
  ASSUME NEW S
  PROVE  Eval({}, S)
BY DEF Eval

\* filenameBuildConstraints reads a file name as the go command does: its
\* constraint holds in the builds that goodOSArchFile accepts the name for.
LEMMA NameIsGo ==
  ASSUME NEW name \in Seq(STRING) \ {<<>>}, NEW b \in Builds
  PROVE  goodOSArchFile(name, b) <=> Eval(filenameBuildConstraints(name), Holds(b))
<1> DEFINE parts == trimTest(name)
           rest == Tail(name)
           l == IF rest # <<>> /\ rest[Len(rest)] = "test"
                THEN SubSeq(rest, 1, Len(rest) - 1) ELSE rest
           n == Len(l)
           m == Len(parts)
           last == <<parts[m]>>
           previous == <<parts[m - 1]>>
<1>1. /\ rest \in Seq(STRING) /\ Len(rest) = Len(name) - 1 /\ Len(name) \in Nat \ {0}
      /\ \A i \in 1..Len(rest) : rest[i] = name[i + 1]
  OBVIOUS
<1> HIDE DEF rest
<1>2. /\ n \in Nat /\ m = n + 1
      /\ n >= 1 => l[n] = parts[m]
      /\ n >= 2 => l[n - 1] = parts[m - 1]
  <2>1. CASE Len(name) > 1 /\ name[Len(name)] = "test"
    <3>0. Len(rest) \in 1..Len(rest) /\ Len(rest) + 1 = Len(name)
      BY <1>1, <2>1
    <3>1. rest # <<>> /\ rest[Len(rest)] = "test"
      <4>1. rest[Len(rest)] = name[Len(rest) + 1]
        BY <1>1, <3>0
      <4> QED BY <1>1, <2>1, <3>0, <4>1
    <3>2. l = SubSeq(rest, 1, Len(rest) - 1) /\ parts = SubSeq(name, 1, Len(name) - 1)
      BY <2>1, <3>1 DEF trimTest
    <3> QED BY <1>1, <2>1, <3>2
  <2>2. CASE ~(Len(name) > 1 /\ name[Len(name)] = "test")
    <3>1. ~(rest # <<>> /\ rest[Len(rest)] = "test")
      BY <1>1, <2>2
    <3>2. l = rest /\ parts = name
      BY <2>2, <3>1 DEF trimTest
    <3>3. n = Len(rest) /\ m = Len(name)
      BY <3>2
    <3> HIDE DEF n, m, l, parts
    <3>4. n >= 1 => rest[n] = name[n + 1]
      <4>1. n >= 1 => n \in 1..Len(rest)
        BY <1>1, <3>3
      <4> QED BY <1>1, <4>1
    <3>5. n >= 2 => rest[n - 1] = name[n - 1 + 1]
      <4>1. n >= 2 => n - 1 \in 1..Len(rest)
        BY <1>1, <3>3
      <4> QED BY <1>1, <4>1
    <3> QED BY <1>1, <3>2, <3>3, <3>4, <3>5
  <2> QED BY <2>1, <2>2
<1>3. filenameBuildConstraints(name) =
        IF m < 2 THEN {}
        ELSE IF last \in knownArch
        THEN Tag(last) \cup (IF m >= 3 /\ previous \in knownOS THEN Tag(previous) ELSE {})
        ELSE IF last \in knownOS THEN Tag(last) ELSE {}
  BY DEF filenameBuildConstraints
<1>4. goodOSArchFile(name, b) <=>
        IF n >= 2 /\ <<l[n - 1]>> \in knownOS /\ <<l[n]>> \in knownArch
        THEN <<l[n - 1]>> \in Holds(b) /\ <<l[n]>> \in Holds(b)
        ELSE n >= 1 /\ (<<l[n]>> \in knownOS \/ <<l[n]>> \in knownArch) => <<l[n]>> \in Holds(b)
  BY DEF goodOSArchFile, rest
<1> HIDE DEF parts, l, n, m
<1>5. goodOSArchFile(name, b) <=>
        IF m >= 3 /\ previous \in knownOS /\ last \in knownArch
        THEN previous \in Holds(b) /\ last \in Holds(b)
        ELSE m >= 2 /\ (last \in knownOS \/ last \in knownArch) => last \in Holds(b)
  BY <1>2, <1>4
<1>6. m \in Nat
  BY <1>2
<1> HIDE DEF last, previous
<1>7. CASE m < 2
  BY <1>3, <1>5, <1>6, <1>7, EvalNone
<1>8. CASE m >= 2 /\ last \in knownArch
  <2>1. CASE m >= 3 /\ previous \in knownOS
    BY <1>3, <1>5, <1>6, <1>8, <2>1, EvalTag, EvalUnion
  <2>2. CASE ~(m >= 3 /\ previous \in knownOS)
    BY <1>3, <1>5, <1>6, <1>8, <2>2, EvalTag, EvalUnion, EvalNone
  <2> QED BY <2>1, <2>2
<1>9. CASE m >= 2 /\ last \notin knownArch /\ last \in knownOS
  BY <1>3, <1>5, <1>6, <1>9, EvalTag
<1>10. CASE m >= 2 /\ last \notin knownArch /\ last \notin knownOS
  BY <1>3, <1>5, <1>6, <1>10, EvalNone
<1> QED BY <1>6, <1>7, <1>8, <1>9, <1>10

\* The constraint of a file is no stronger than what the go command asks of it,
LEMMA IncludedHolds ==
  ASSUME NEW f, f.name \in Seq(STRING) \ {NoName}, NEW b \in Builds, Included(f, b)
  PROVE  Eval(constraintOf(f), Holds(b))
BY NameIsGo, EvalTag, EvalUnion, EvalNone DEF Included, constraintOf, NoName

\* and, for a file of the package that does not import C in a test, no weaker.
LEMMA HoldsIncluded ==
  ASSUME NEW f, f.name \in Seq(STRING) \ {NoName}, f.own, f.cgo => ~isTest(f),
         NEW b \in Builds, Eval(constraintOf(f), Holds(b))
  PROVE  Included(f, b)
<1>1. goodOSArchFile(f.name, b) /\ Eval(f.expr, Holds(b))
  BY NameIsGo, EvalUnion DEF constraintOf, NoName
<1>2. f.cgo => <<"cgo">> \in Holds(b)
  <2> SUFFICES ASSUME f.cgo PROVE <<"cgo">> \in Holds(b)
    OBVIOUS
  <2>1. constraintOf(f) = (f.expr \cup filenameBuildConstraints(f.name)) \cup Tag(<<"cgo">>)
    BY DEF constraintOf
  <2> QED BY <2>1, EvalUnion, EvalTag
<1> QED BY <1>1, <1>2 DEF Included

-----------------------------------------------------------------------------
(* The checks *)

Shadowed ==
  \E f \in AllFiles, type \in found :
    /\ f.declares \cap Predeclared # {}
    /\ constraintsOverlap(eventConstraint(type), constraintOf(f))

Collides ==
  \/ \E t, u \in found : t # u /\ generatedIdentifiers(t) \cap generatedIdentifiers(u) # {}
  \/ \E type \in found, f \in AllFiles :
       /\ f.declares \cap (generatedIdentifiers(type) \cup {reservedMethod(type)}) # {}
       /\ constraintsOverlap(eventConstraint(type), constraintOf(f))

Undefined == usesT /\ Declaring("X") # {} /\ Declaring("T") = {}

NoEvent == selectedTypes = {} \/ found # selectedTypes

Dependent ==
  /\ usesT /\ "X" \in found
  /\ constraintOf(FileOf("T")) # {}
  /\ ~constraintsEquivalent(eventConstraint("X"), constraintOf(FileOf("T")))

Different == \E t, u \in found : ~constraintsEquivalent(eventConstraint(t), eventConstraint(u))

Misnamed == ~constraintImplies(renderedConstraint, outputConstraint)

\* A check that came before one of these stages, or before render, was passed.
Passed(stages) == stage \in stages \cup {"render"} \/ result = "ok"

\* A package that is refused fails the check that refused it, and one that is
\* accepted passes all of them.
Inv ==
  /\ package \in Packages /\ host \in Hosts /\ output \in Outputs
  /\ Passed({"collisions", "typecheck", "events", "dependency", "equivalent", "output"})
       => ~Shadowed
  /\ Passed({"typecheck", "events", "dependency", "equivalent", "output"}) => ~Collides
  /\ Passed({"events", "dependency", "equivalent", "output"}) => ~Undefined
  /\ Passed({"dependency", "equivalent", "output"}) => ~NoEvent
  /\ Passed({"equivalent", "output"}) => ~Dependent
  /\ Passed({"output"}) => ~Different
  /\ Passed({}) => ~Misnamed
  /\ result = "shadow" => Shadowed
  /\ result = "collision" => Collides
  /\ result = "undefined" => Undefined
  /\ result = "dependency" => Dependent /\ ~Undefined
  /\ result = "different" => Different
  /\ result = "output name" => Misnamed /\ ~NoEvent

\* What the checks look at does not change while they run.
LEMMA ChecksStand ==
  ASSUME UNCHANGED <<package, host, output, named, usesT>>
  PROVE  /\ Shadowed' = Shadowed /\ Collides' = Collides /\ Undefined' = Undefined
         /\ NoEvent' = NoEvent /\ Dependent' = Dependent /\ Different' = Different
         /\ Misnamed' = Misnamed
<1>1. Selected' = Selected /\ AllFiles' = AllFiles
  BY DEF Selected, AllFiles, isOutput
<1>2. \A name : Declaring(name)' = Declaring(name) /\ FileOf(name)' = FileOf(name)
  BY <1>1 DEF Declaring, FileOf
<1>3. found' = found /\ selectedTypes' = selectedTypes
  BY <1>2 DEF found, selectedTypes
<1>4. \A type : eventConstraint(type)' = eventConstraint(type)
  BY <1>2 DEF eventConstraint
<1>5. Shadowed' = Shadowed
  BY <1>1, <1>3, <1>4 DEF Shadowed
<1>6. Collides' = Collides
  BY <1>1, <1>3, <1>4 DEF Collides
<1>7. Undefined' = Undefined /\ NoEvent' = NoEvent
  BY <1>2, <1>3 DEF Undefined, NoEvent
<1>8. Dependent' = Dependent
  BY <1>2, <1>3, <1>4 DEF Dependent
<1>9. Different' = Different
  BY <1>3, <1>4 DEF Different
<1>10. Misnamed' = Misnamed
  BY <1>3, <1>4 DEF Misnamed, renderedConstraint, outputConstraint
<1> QED BY <1>5, <1>6, <1>7, <1>8, <1>9, <1>10

LEMMA StepInv ==
  ASSUME Inv, [Next]_vars
  PROVE  Inv'
<1>0. UNCHANGED <<package, host, output, named, usesT>>
  BY DEF Next, vars, loadPackage, checkPredeclaredShadows, checkSelectedGeneratedCollisions,
         typeCheck, analyzeEvent, checkDependency, checkEquivalent, checkOutputConstraint,
         render, Verdict, Pass, Refuse
<1>1. /\ Shadowed' = Shadowed /\ Collides' = Collides /\ Undefined' = Undefined
      /\ NoEvent' = NoEvent /\ Dependent' = Dependent /\ Different' = Different
      /\ Misnamed' = Misnamed
  BY <1>0, ChecksStand
<1> USE DEF Inv, Passed, Verdict, Pass, Refuse
<1>2. CASE loadPackage
  BY <1>0, <1>1, <1>2 DEF loadPackage
<1>3. CASE checkPredeclaredShadows
  BY <1>0, <1>1, <1>3 DEF checkPredeclaredShadows, Shadowed
<1>4. CASE checkSelectedGeneratedCollisions
  BY <1>0, <1>1, <1>4 DEF checkSelectedGeneratedCollisions, Collides
<1>5. CASE typeCheck
  BY <1>0, <1>1, <1>5 DEF typeCheck, Undefined
<1>6. CASE analyzeEvent
  BY <1>0, <1>1, <1>6 DEF analyzeEvent, NoEvent
<1>7. CASE checkDependency
  BY <1>0, <1>1, <1>7 DEF checkDependency, Dependent
<1>8. CASE checkEquivalent
  BY <1>0, <1>1, <1>8 DEF checkEquivalent, Different
<1>9. CASE checkOutputConstraint
  BY <1>0, <1>1, <1>9 DEF checkOutputConstraint, Misnamed
<1>10. CASE render
  BY <1>0, <1>1, <1>10 DEF render
<1>11. CASE UNCHANGED vars
  BY <1>0, <1>1, <1>11 DEF vars
<1> QED BY <1>2, <1>3, <1>4, <1>5, <1>6, <1>7, <1>8, <1>9, <1>10, <1>11 DEF Next

\* Every state of a run of the checks satisfies the invariant.
THEOREM Inductive == Spec => []Inv
<1>1. Init => Inv
  BY DEF Init, Inv, Passed
<1>2. Inv /\ [Next]_vars => Inv'
  BY StepInv
<1> QED BY <1>1, <1>2, PTL DEF Spec

-----------------------------------------------------------------------------
(* What acceptance means *)

\* The event types and the types of their fields are in files of the package
\* that are no tests.
LEMMA EventFiles ==
  ASSUME package \in Packages, NEW name, Declaring(name) # {}
  PROVE  /\ FileOf(name) \in package /\ name \in FileOf(name).declares
         /\ FileOf(name).name \in Seq(STRING) \ {NoName}
         /\ FileOf(name).own /\ ~isTest(FileOf(name))
<1>1. FileOf(name) \in Declaring(name)
  BY DEF FileOf
<1>2. FileOf(name) \in package /\ name \in FileOf(name).declares
      /\ Included(FileOf(name), host) /\ ~isTest(FileOf(name))
  BY <1>1 DEF Declaring, Selected
<1> QED BY <1>2, NamesAssumption DEF Included

\* They are compiled in the builds in which their constraint holds.
LEMMA EventIncluded ==
  ASSUME package \in Packages, NEW name, Declaring(name) # {}, NEW b \in Builds
  PROVE  Included(FileOf(name), b) <=> Eval(constraintOf(FileOf(name)), Holds(b))
BY EventFiles, IncludedHolds, HoldsIncluded

LEMMA RenderedType ==
  ASSUME ~NoEvent
  PROVE  \E type \in found : renderedConstraint = eventConstraint(type)
<1>1. found # {}
  BY DEF NoEvent
<1> DEFINE type == CHOOSE t \in found : TRUE
<1>2. type \in found
  BY <1>1
<1> QED BY <1>2 DEF renderedConstraint

\* All events of an accepted package have the constraint that is rendered.
LEMMA EventRendered ==
  ASSUME Inv, Passed({}), NEW type \in found, NEW b \in Builds
  PROVE  Included(FileOf(type), b) <=> Eval(renderedConstraint, Holds(b))
<1>1. package \in Packages /\ ~NoEvent /\ ~Different
  BY DEF Inv, Passed
<1>2. PICK t \in found : renderedConstraint = eventConstraint(t)
  BY <1>1, RenderedType
<1>3. /\ constraintImplies(eventConstraint(t), eventConstraint(type))
      /\ constraintImplies(eventConstraint(type), eventConstraint(t))
  BY <1>1 DEF Different, constraintsEquivalent
<1>4. Declaring(type) # {}
  BY DEF found
<1>5. Included(FileOf(type), b) <=> Eval(eventConstraint(type), Holds(b))
  BY <1>1, <1>4, EventIncluded DEF eventConstraint
<1> QED BY <1>2, <1>3, <1>5, ImpliesIsSound

\* The generated file is compiled in the builds in which the rendered constraint
\* holds: the name of the output adds nothing to it.
LEMMA OutputRendered ==
  ASSUME Inv, Accepted, NEW b \in Builds
  PROVE  b \in OutputBuilds <=> Eval(renderedConstraint, Holds(b))
<1>1. constraintImplies(renderedConstraint, filenameBuildConstraints(output))
  BY DEF Inv, Passed, Accepted, Misnamed, outputConstraint
<1>2. output \in Seq(STRING) \ {<<>>}
  BY NamesAssumption DEF Inv, Accepted, NoName
<1> QED BY <1>1, <1>2, NameIsGo, ImpliesIsSound DEF OutputBuilds

\* WriterPresent holds of any package, targets, tags and limits: in every build
\* that has an event type of an accepted package, its writer is compiled.
THEOREM WritersArePresent == Spec => []WriterPresent
<1>1. Inv => WriterPresent
  BY EventRendered, OutputRendered DEF WriterPresent, Accepted, Passed
<1> QED BY <1>1, Inductive, PTL

LEMMA AcceptedCompiles ==
  ASSUME Inv, Accepted, NEW b \in OutputBuilds
  PROVE  /\ \A type \in neededTypes : Included(FileOf(type), b)
         /\ \A f \in package : Included(f, b) /\ f.name # output =>
              f.declares \cap takenNames = {}
<1> b \in Builds
  BY DEF OutputBuilds
<1>1. /\ package \in Packages /\ output # NoName
      /\ ~Shadowed /\ ~Collides /\ ~Undefined /\ ~NoEvent /\ ~Dependent
  BY DEF Inv, Passed, Accepted
<1>2. \A type \in found : Included(FileOf(type), b)
  BY OutputRendered, EventRendered DEF Accepted, Passed
<1>3. \A type \in found : Declaring(type) # {} /\ Eval(eventConstraint(type), Holds(b))
  BY <1>1, <1>2, EventIncluded DEF found, eventConstraint
<1>4. ASSUME usesT, "X" \in found PROVE Included(FileOf("T"), b)
  <2>1. Declaring("T") # {}
    BY <1>1, <1>3, <1>4 DEF Undefined
  <2>2. Eval(constraintOf(FileOf("T")), Holds(b))
    <3>1. CASE constraintOf(FileOf("T")) = {}
      BY <3>1, EvalNone
    <3>2. CASE constraintImplies(eventConstraint("X"), constraintOf(FileOf("T")))
      BY <1>3, <1>4, <3>2, ImpliesIsSound
    <3> QED BY <1>1, <1>4, <3>1, <3>2 DEF Dependent, constraintsEquivalent
  <2> QED BY <1>1, <2>1, <2>2, EventIncluded
<1>5. ASSUME NEW f \in package, Included(f, b), f.name # output
      PROVE  f.declares \cap takenNames = {}
  <2>1. f \in AllFiles
    BY <1>1, <1>5 DEF AllFiles, isOutput, Included
  <2>2. Eval(constraintOf(f), Holds(b))
    BY <1>1, <1>5, IncludedHolds, NamesAssumption
  <2>3. \A type \in found : constraintsOverlap(eventConstraint(type), constraintOf(f))
    BY <1>3, <2>2, OverlapIsComplete
  <2>4. found # {}
    BY <1>1 DEF NoEvent
  <2> QED BY <1>1, <2>1, <2>3, <2>4 DEF Shadowed, Collides, takenNames
<1> QED BY <1>2, <1>4, <1>5 DEF neededTypes

\* Compiles holds of any package, targets, tags and limits: an accepted package
\* compiles with the generated file in every build that includes it.
THEOREM AcceptedFits == Spec => []Compiles
<1>1. Inv => Compiles
  BY AcceptedCompiles DEF Compiles
<1> QED BY <1>1, Inductive, PTL

-----------------------------------------------------------------------------
(* What a refusal means *)

\* What evaluateValidAssignments finds is a build, if its custom tags may be
\* given to the go command.
LEMMA FoundIsBuild ==
  ASSUME NEW left, NEW right, NEW wanted \in BOOLEAN, customTags(left, right) \subseteq Custom,
         Found(left, right, wanted)
  PROVE  \E b \in Builds : Eval(left, Holds(b)) /\ Eval(right, Holds(b)) = wanted
<1> DEFINE tags == constraintTags(left) \cup constraintTags(right)
           holdsOf(t, fs, vs) == {tag \in tags : evaluate(tag, t, fs, vs)}
<1>1. PICK target \in Targets :
        \E features \in architectureFeatureProfiles(target.goarch),
           values \in SUBSET customTags(left, right) :
          /\ Eval(left, holdsOf(target, features, values))
          /\ Eval(right, holdsOf(target, features, values)) = wanted
  BY DEF Found
<1>2. PICK features \in architectureFeatureProfiles(target.goarch),
           values \in SUBSET customTags(left, right) :
        /\ Eval(left, holdsOf(target, features, values))
        /\ Eval(right, holdsOf(target, features, values)) = wanted
  BY <1>1
<1> DEFINE b == [target |-> target, features |-> features,
                 tags |-> {v \in values : isFeature(v) => v[1] = target.goarch}]
<1>3. b \in Builds
  <2>1. b.tags \in SUBSET {tag \in Custom : isCustom(tag)}
    BY DEF customTags
  <2>2. b.features \in UNION {architectureFeatureProfiles(t.goarch) : t \in Targets}
    OBVIOUS
  <2> QED BY <2>1, <2>2 DEF Builds
<1>4. \A tag \in tags : evaluate(tag, target, features, values) <=> tag \in Holds(b)
  <2>1. \A tag \in tags : evaluate(tag, b.target, b.features, b.tags) <=> tag \in Holds(b)
    <3> HIDE DEF b
    <3> QED BY <1>3, EvaluateIsGo
  <2>2. \A tag \in tags :
          evaluate(tag, target, features, values) <=> evaluate(tag, b.target, b.features, b.tags)
    BY DEF evaluate
  <2> QED BY <2>1, <2>2
<1> DEFINE holds == holdsOf(target, features, values)
<1>5. \A tag \in tags : tag \in holds <=> tag \in Holds(b)
  BY <1>4
<1> HIDE DEF b, holds
<1>6. Eval(left, holds) <=> Eval(left, Holds(b))
  BY <1>5, EvalAgrees
<1>7. Eval(right, holds) <=> Eval(right, Holds(b))
  BY <1>5, EvalAgrees
<1>8. Eval(right, holds) \in BOOLEAN /\ Eval(right, Holds(b)) \in BOOLEAN
  BY DEF Eval
<1>9. Eval(left, holds) /\ Eval(right, holds) = wanted
  BY <1>2 DEF holds
<1> QED BY <1>3, <1>6, <1>7, <1>8, <1>9

\* constraintImplies says no only if left does not imply right in some build,
\* or there are more custom tags than it looks at.
THEOREM ImpliesIsComplete ==
  ASSUME NEW left, NEW right, customTags(left, right) \subseteq Custom,
         ~constraintImplies(left, right)
  PROVE  \/ ~Complete(left, right, MaxImpliesTags)
         \/ \E b \in Builds : Eval(left, Holds(b)) /\ ~Eval(right, Holds(b))
BY FoundIsBuild DEF constraintImplies

\* constraintsOverlap says yes only if both hold in some build, or there are
\* more custom tags than it looks at, or neither constrains anything.
THEOREM OverlapIsSound ==
  ASSUME NEW left, NEW right, customTags(left, right) \subseteq Custom,
         constraintsOverlap(left, right)
  PROVE  \/ left = {} /\ right = {}
         \/ ~Complete(left, right, MaxOverlapTags)
         \/ \E b \in Builds : Eval(left, Holds(b)) /\ Eval(right, Holds(b))
BY FoundIsBuild DEF constraintsOverlap

\* The files of a package have no other custom tags.
LEMMA FileTags ==
  ASSUME package \in Packages, NEW e \in package, NEW f \in package
  PROVE  customTags(constraintOf(e), constraintOf(f)) \subseteq Custom
BY PackagesAssumption DEF customTags

\* The constraint of a file name has no custom tag.
LEMMA NameTags ==
  ASSUME NEW name
  PROVE  \A tag \in constraintTags(filenameBuildConstraints(name)) : ~isCustom(tag)
<1>1. \A tag : constraintTags(Tag(tag)) \subseteq {tag}
  <2> SUFFICES ASSUME NEW tag, NEW l \in UNION Tag(tag) PROVE l[1] = tag
    BY DEF constraintTags
  <2>1. l = <<tag, TRUE>>
    BY DEF Tag
  <2>2. <<tag, TRUE>>[1] = tag
    OBVIOUS
  <2> QED BY <2>1, <2>2
<1>2. \A c, d : constraintTags(c \cup d) = constraintTags(c) \cup constraintTags(d)
  BY DEF constraintTags
<1>3. constraintTags({}) = {}
  BY DEF constraintTags
<1> DEFINE parts == trimTest(name)
           last == <<parts[Len(parts)]>>
           previous == <<parts[Len(parts) - 1]>>
<1>4. LET c == filenameBuildConstraints(name)
      IN  \/ c = {}
          \/ last \in knownOS \cup knownArch /\ c = Tag(last)
          \/ last \in knownArch /\ c = Tag(last) \cup {}
          \/ last \in knownArch /\ previous \in knownOS /\ c = Tag(last) \cup Tag(previous)
  BY DEF filenameBuildConstraints
<1> HIDE DEF last, previous
<1>5. constraintTags(filenameBuildConstraints(name)) \subseteq knownOS \cup knownArch
  BY <1>1, <1>2, <1>3, <1>4
<1> QED BY <1>5 DEF isCustom

\* The conditions under which Justified accepts a refusal, for the files e and f.
Together(e, f) ==
  TooMany(e, f, MaxOverlapTags) \/ \E b \in Builds : Included(e, b) /\ Included(f, b)

Apart(e, f) ==
  TooMany(e, f, MaxImpliesTags) \/ \E b \in Builds : Included(e, b) # Included(f, b)

\* Files of the package are compiled exactly where their constraint holds.
LEMMA FileIncluded ==
  ASSUME package \in Packages, NEW f \in package, f.own, NEW b \in Builds
  PROVE  Included(f, b) <=> Eval(constraintOf(f), Holds(b))
BY NamesAssumption, PackagesAssumption, IncludedHolds, HoldsIncluded

LEMMA OverlapTogether ==
  ASSUME package \in Packages, host \in Hosts, NEW e \in package, NEW f \in package,
         e.own, f.own, constraintsOverlap(constraintOf(e), constraintOf(f))
  PROVE  Together(e, f)
<1>1. CASE \E b \in Builds : Eval(constraintOf(e), Holds(b)) /\ Eval(constraintOf(f), Holds(b))
  BY <1>1, FileIncluded DEF Together
<1>2. CASE constraintOf(e) = {} /\ constraintOf(f) = {}
  BY <1>1, <1>2, EvalNone, HostsAssumption
<1>3. CASE ~Complete(constraintOf(e), constraintOf(f), MaxOverlapTags)
  BY <1>3 DEF Together, TooMany
<1> QED BY <1>1, <1>2, <1>3, FileTags, OverlapIsSound

LEMMA DifferentApart ==
  ASSUME package \in Packages, NEW e \in package, NEW f \in package, e.own, f.own,
         ~constraintsEquivalent(constraintOf(e), constraintOf(f))
  PROVE  Apart(e, f)
<1>1. customTags(constraintOf(f), constraintOf(e)) = customTags(constraintOf(e), constraintOf(f))
  BY DEF customTags
<1>2. CASE ~constraintImplies(constraintOf(e), constraintOf(f))
  BY <1>2, FileTags, ImpliesIsComplete, FileIncluded DEF Apart, TooMany
<1>3. CASE ~constraintImplies(constraintOf(f), constraintOf(e))
  BY <1>1, <1>3, FileTags, ImpliesIsComplete, FileIncluded DEF Apart, TooMany, Complete
<1> QED BY <1>2, <1>3 DEF constraintsEquivalent

\* Only the identifiers generated for X and for NewX collide.
LEMMA GeneratedCollide ==
  ASSUME NEW t \in Types, NEW u \in Types, t # u,
         generatedIdentifiers(t) \cap generatedIdentifiers(u) # {}
  PROVE  {"X", "NewX"} \subseteq {t, u}
<1>1. /\ generatedIdentifiers("X") = {"XSchema", "XWriter", "NewXWriter"}
      /\ generatedIdentifiers("NewX") = {"NewXSchema", "NewXWriter", "NewNewXWriter"}
      /\ generatedIdentifiers("Y") = {"YSchema", "YWriter", "NewYWriter"}
  BY DEF generatedIdentifiers
<1>2. t \in {"X", "NewX", "Y"} /\ u \in {"X", "NewX", "Y"}
  BY DEF Types
<1> QED BY <1>1, <1>2

\* The reasons for which Justified accepts a refusal are those of the checks.
LEMMA RefusedJustified ==
  ASSUME Inv, named \subseteq Types
  PROVE  Justified
<1> DEFINE events == {FileOf(type) : type \in found}
<1>1. package \in Packages /\ host \in Hosts /\ output \in Outputs
  BY DEF Inv
<1>2. \A type \in found : Declaring(type) # {} /\ type \in Types
  BY DEF found, selectedTypes
<1>3. \A name : Declaring(name) # {} => FileOf(name) \in package /\ FileOf(name).own
  BY <1>1, EventFiles
<1>4. AllFiles \subseteq package /\ \A f \in AllFiles : f.own
  BY DEF AllFiles
<1>5. ASSUME result = "shadow"
      PROVE  \E e \in events, f \in AllFiles :
               f.declares \cap Predeclared # {} /\ Together(e, f)
  BY <1>1, <1>2, <1>3, <1>4, <1>5, OverlapTogether DEF Inv, Shadowed, eventConstraint
<1>6. ASSUME result = "collision"
      PROVE  \/ {"X", "NewX"} \subseteq found
             \/ \E e \in events, f \in AllFiles :
                  /\ f.declares \cap (takenNames \ Predeclared) # {}
                  /\ Together(e, f)
  <2>1. CASE \E t, u \in found :
               t # u /\ generatedIdentifiers(t) \cap generatedIdentifiers(u) # {}
    BY <1>2, <2>1, GeneratedCollide
  <2>2. CASE \E type \in found, f \in AllFiles :
               /\ f.declares \cap (generatedIdentifiers(type) \cup {reservedMethod(type)}) # {}
               /\ constraintsOverlap(eventConstraint(type), constraintOf(f))
    <3>1. PICK type \in found, f \in AllFiles :
            /\ f.declares \cap (generatedIdentifiers(type) \cup {reservedMethod(type)}) # {}
            /\ constraintsOverlap(eventConstraint(type), constraintOf(f))
      BY <2>2
    <3>2. "error" \notin generatedIdentifiers(type) \cup {reservedMethod(type)}
      <4>1. type \in {"X", "NewX", "Y"}
        BY <1>2 DEF Types
      <4> QED BY <4>1 DEF generatedIdentifiers, reservedMethod
    <3>3. f.declares \cap (takenNames \ Predeclared) # {}
      BY <3>1, <3>2 DEF takenNames, Predeclared
    <3> QED BY <1>1, <1>2, <1>3, <1>4, <3>1, <3>3, OverlapTogether DEF eventConstraint
  <2> QED BY <1>6, <2>1, <2>2 DEF Inv, Collides
<1>7. ASSUME result = "dependency"
      PROVE  Apart(FileOf("X"), FileOf("T"))
  <2>1. Dependent /\ Declaring("X") # {} /\ Declaring("T") # {}
    BY <1>2, <1>7 DEF Inv, Dependent, Undefined
  <2> QED BY <1>1, <1>3, <2>1, DifferentApart DEF Dependent, eventConstraint
<1>8. ASSUME result = "different"
      PROVE  \E e, f \in events : Apart(e, f)
  BY <1>1, <1>2, <1>3, <1>8, DifferentApart DEF Inv, Different, eventConstraint
<1>9. ASSUME result = "output name"
      PROVE  \E e \in events :
               \/ ~Complete(constraintOf(e), outputConstraint, MaxImpliesTags)
               \/ \E b \in Builds : Included(e, b) /\ ~goodOSArchFile(output, b)
  <2>1. Misnamed /\ ~NoEvent
    BY <1>9 DEF Inv
  <2>2. PICK type \in found : renderedConstraint = constraintOf(FileOf(type))
    BY <2>1, RenderedType DEF eventConstraint
  <2>3. output # NoName /\ outputConstraint = filenameBuildConstraints(output)
    BY <2>1 DEF Misnamed, outputConstraint, constraintImplies
  <2>4. customTags(renderedConstraint, outputConstraint) \subseteq Custom
    BY <1>1, <1>2, <1>3, <2>2, <2>3, NameTags, PackagesAssumption DEF customTags
  <2>5. CASE ~Complete(renderedConstraint, outputConstraint, MaxImpliesTags)
    BY <2>2, <2>5
  <2>6. CASE \E b \in Builds :
               Eval(renderedConstraint, Holds(b)) /\ ~Eval(outputConstraint, Holds(b))
    <3>1. output \in Seq(STRING) \ {<<>>}
      BY <1>1, <2>3, NamesAssumption DEF NoName
    <3> QED BY <1>1, <1>2, <2>2, <2>3, <2>6, <3>1, NameIsGo, EventIncluded
  <2> QED BY <2>1, <2>4, <2>5, <2>6, ImpliesIsComplete DEF Misnamed
<1> QED BY <1>5, <1>6, <1>7, <1>8, <1>9 DEF Justified, Together, Apart

\* Justified holds of any package, targets, tags and limits: what is refused for
\* its constraints would break some build, or has more custom tags than the
\* generator looks at.
THEOREM RefusalsAreJustified == Spec => []Justified
<1>1. Init => named \subseteq Types
  BY DEF Init, Types
<1>2. named \subseteq Types /\ [Next]_vars => (named \subseteq Types)'
  BY DEF Next, vars, loadPackage, checkPredeclaredShadows, checkSelectedGeneratedCollisions,
         typeCheck, analyzeEvent, checkDependency, checkEquivalent, checkOutputConstraint,
         render, Verdict, Pass, Refuse
<1>3. Inv /\ named \subseteq Types => Justified
  BY RefusedJustified
<1> QED BY <1>1, <1>2, <1>3, Inductive, PTL DEF Spec
=============================================================================

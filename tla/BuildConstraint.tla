--------------------------- MODULE BuildConstraint ---------------------------
(***************************************************************************)
(* Build constraints as eventheader-gen compares them (generator.go) and   *)
(* as the go command applies them. A constraint is a set of conjuncts      *)
(* (combineBuildConstraints), each a set of literals <<tag, wanted>> of    *)
(* which one must hold; the empty constraint is "". A tag is a tuple:      *)
(*   <<"linux">>, <<"amd64">>, <<"unix">>   systems and architectures      *)
(*   <<"amd64", "v2">>, <<"arm64", 8, 1>>   features, amd64.v2, arm64.v8.1 *)
(*   <<"cgo">> and anything else            custom tags                    *)
(***************************************************************************)
EXTENDS Integers, Sequences, FiniteSets

CONSTANTS
  Targets,          \* go tool dist list, [goos, goarch]
  Custom,           \* custom tags a build may have
  MaxImpliesTags,   \* the limits on custom tags of constraintImplies
  MaxOverlapTags    \* and of constraintsOverlap

knownOS == {<<t.goos>> : t \in Targets}
knownArch == {<<t.goarch>> : t \in Targets}

Tag(t) == {{<<t, TRUE>>}}
constraintTags(c) == {l[1] : l \in UNION c}

\* constraint.Expr.Eval, with the set of tags that hold.
Eval(c, holds) == \A conjunct \in c : \E l \in conjunct : (l[1] \in holds) = l[2]

-----------------------------------------------------------------------------
(* Architecture features: one set of tags for each setting of GOAMD64 etc. *)

levels(arch, names) == {{<<arch, names[j]>> : j \in 1..i} : i \in DOMAIN names}
exclusive(arch, names) == {{<<arch, name>>} : name \in names}

arm64FeatureProfile(major, minor) ==
  {<<"arm64", major, i>> : i \in 0..minor}
    \cup {<<"arm64", 8, i>> : i \in {j \in 0..9 : major = 9 /\ j <= minor + 5}}

architectureFeatureProfiles(arch) ==
  CASE arch = "386" -> exclusive(arch, {"387", "sse2", "softfloat"})
    [] arch = "amd64" -> levels(arch, <<"v1", "v2", "v3", "v4">>)
    [] arch = "arm" -> levels(arch, <<"5", "6", "7">>)
    [] arch = "arm64" -> {arm64FeatureProfile(8, minor) : minor \in 0..9}
                           \cup {arm64FeatureProfile(9, minor) : minor \in 0..5}
    [] arch \in {"mips", "mipsle", "mips64", "mips64le"} ->
         exclusive(arch, {"hardfloat", "softfloat"})
    [] arch \in {"ppc64", "ppc64le"} -> levels(arch, <<"power8", "power9", "power10">>)
    [] arch = "riscv64" -> levels(arch, <<"rva20u64", "rva22u64", "rva23u64">>)
    [] arch = "wasm" -> SUBSET {<<arch, "satconv">>, <<arch, "signext">>}
    [] OTHER -> {{}}

\* architectureFeatureTag: of a known architecture, and with a known feature.
isFeature(tag) == Len(tag) > 1 /\ <<tag[1]>> \in knownArch
isKnownFeature(tag) ==
  isFeature(tag) /\ \E features \in architectureFeatureProfiles(tag[1]) : tag \in features

-----------------------------------------------------------------------------
(* evaluateValidAssignments *)

\* Mutant: android is not a linux.
matchesSameOSOnly(goos, tag) == tag = <<goos>>

targetMatchesOSBuildTag(goos, tag) ==
  \/ tag = <<goos>>
  \/ tag = <<"linux">> /\ goos = "android"
  \/ tag = <<"solaris">> /\ goos = "illumos"
  \/ tag = <<"darwin">> /\ goos = "ios"
  \/ tag = <<"unix">> /\ goos \in {"aix", "android", "darwin", "dragonfly", "freebsd", "hurd",
                                   "illumos", "ios", "linux", "netbsd", "openbsd", "solaris"}

isCustom(tag) ==
  tag \notin knownOS \cup knownArch \cup {<<"unix">>} /\ ~isKnownFeature(tag)

\* values: the custom tags that are set.
evaluate(tag, target, features, values) ==
  IF tag \in knownOS \/ tag = <<"unix">> THEN targetMatchesOSBuildTag(target.goos, tag)
  ELSE IF tag \in knownArch THEN tag = <<target.goarch>>
  ELSE IF isFeature(tag) /\ tag[1] # target.goarch THEN FALSE
  ELSE IF isKnownFeature(tag) THEN tag \in features
  ELSE tag \in values

customTags(left, right) == {tag \in constraintTags(left) \cup constraintTags(right) : isCustom(tag)}

Complete(left, right, maxCustomTags) ==
  Cardinality(customTags(left, right)) <= maxCustomTags /\ Targets # {}

\* Some assignment satisfies left and gives right the value wanted.
Found(left, right, wanted) ==
  \E target \in Targets :
    \E features \in architectureFeatureProfiles(target.goarch),
       values \in SUBSET customTags(left, right) :
      LET holds == {tag \in constraintTags(left) \cup constraintTags(right) :
                      evaluate(tag, target, features, values)}
      IN  Eval(left, holds) /\ Eval(right, holds) = wanted

constraintImplies(left, right) ==
  \/ right = {} \/ left = right
  \/ Complete(left, right, MaxImpliesTags) /\ ~Found(left, right, FALSE)

constraintsEquivalent(left, right) ==
  constraintImplies(left, right) /\ constraintImplies(right, left)

\* Mutant: too many custom tags are taken for no overlap.
overlapIfFound(left, right) ==
  \/ left = {} /\ right = {}
  \/ Complete(left, right, MaxOverlapTags) /\ Found(left, right, TRUE)

constraintsOverlap(left, right) ==
  \/ left = {} /\ right = {}
  \/ ~Complete(left, right, MaxOverlapTags)
  \/ Found(left, right, TRUE)

-----------------------------------------------------------------------------
(* Constraints of file names, which are sequences of parts between "_".    *)

trimTest(parts) ==
  IF Len(parts) > 1 /\ parts[Len(parts)] = "test" THEN SubSeq(parts, 1, Len(parts) - 1) ELSE parts

\* Mutant: the part before an architecture is always taken for a system.
filenameAnyOS(name) ==
  LET parts == trimTest(name)
      last == <<parts[Len(parts)]>>
      previous == <<parts[Len(parts) - 1]>>
  IN  IF Len(parts) < 2 THEN {}
      ELSE IF last \in knownArch
      THEN Tag(last) \cup (IF previous \in knownOS THEN Tag(previous) ELSE {})
      ELSE IF last \in knownOS THEN Tag(last) ELSE {}

filenameBuildConstraints(name) ==
  LET parts == trimTest(name)
      last == <<parts[Len(parts)]>>
      previous == <<parts[Len(parts) - 1]>>
  IN  IF Len(parts) < 2 THEN {}
      ELSE IF last \in knownArch
      THEN Tag(last) \cup (IF Len(parts) >= 3 /\ previous \in knownOS THEN Tag(previous) ELSE {})
      ELSE IF last \in knownOS THEN Tag(last) ELSE {}

-----------------------------------------------------------------------------
(* The go command (go/build): a build has a target, a setting of the       *)
(* architecture's features and custom tags; -tags names no system,         *)
(* architecture or known feature.                                          *)

Builds ==
  {b \in [target : Targets,
          features : UNION {architectureFeatureProfiles(t.goarch) : t \in Targets},
          tags : SUBSET {tag \in Custom : isCustom(tag)}] :
     /\ b.features \in architectureFeatureProfiles(b.target.goarch)
     /\ \A tag \in b.tags : isFeature(tag) => tag[1] = b.target.goarch}

AlsoMatches == {<<"android", "linux">>, <<"illumos", "solaris">>, <<"ios", "darwin">>}

\* What go tool dist list never breaks: a name is of a system or of an
\* architecture, not both; unix is neither; a system that matches another one
\* comes with it.
ASSUME TargetsAssumption ==
  /\ Targets \subseteq [goos : STRING, goarch : STRING]
  /\ knownOS \cap knownArch = {}
  /\ <<"unix">> \notin knownOS \cup knownArch
  /\ \A p \in AlsoMatches : <<p[1]>> \in knownOS => <<p[2]>> \in knownOS

UnixOS == {"aix", "android", "darwin", "dragonfly", "freebsd", "hurd", "illumos", "ios",
           "linux", "netbsd", "openbsd", "solaris"}

\* matchTag, for the tags of a package.
Holds(b) ==
  {<<b.target.goos>>, <<b.target.goarch>>} \cup b.features \cup b.tags
    \cup {<<p[2]>> : p \in {q \in AlsoMatches : q[1] = b.target.goos}}
    \cup {tag \in {<<"unix">>} : b.target.goos \in UnixOS}

\* goodOSArchFile: only what follows the first "_" counts.
goodOSArchFile(name, b) ==
  LET rest == Tail(name)
      l == IF rest # <<>> /\ rest[Len(rest)] = "test" THEN SubSeq(rest, 1, Len(rest) - 1) ELSE rest
      n == Len(l)
      isOS(part) == <<part>> \in knownOS
      isArch(part) == <<part>> \in knownArch
      good(part) == <<part>> \in Holds(b)
  IN  IF n >= 2 /\ isOS(l[n - 1]) /\ isArch(l[n]) THEN good(l[n - 1]) /\ good(l[n])
      ELSE n >= 1 /\ (isOS(l[n]) \/ isArch(l[n])) => good(l[n])
=============================================================================

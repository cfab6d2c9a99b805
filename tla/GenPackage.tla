----------------------------- MODULE GenPackage ------------------------------
(***************************************************************************)
(* How eventheader-gen decides whether the file it would generate fits     *)
(* into the package (Generate, loadPackage and the checks they call in     *)
(* generator.go). The generator sees the package as one build selects it   *)
(* (the host's); what it writes is compiled in every build that includes   *)
(* it. The package may hold the event types X, NewX (whose generated       *)
(* identifiers collide with those of X) and Y; X may have a field of the   *)
(* local type T.                                                           *)
(***************************************************************************)
EXTENDS BuildConstraint

CONSTANTS
  Packages,   \* sets of files, see File
  Outputs,    \* names of the output, NoName for -output=-
  Hosts       \* builds the generator is run in

NoName == <<>>

\* name: parts of the file name; expr: its //go:build line; cgo: it imports C;
\* own: it belongs to the package; generated: it has the header of generated
\* files; declares: what it declares at top level.
File(name, expr, cgo, own, generated, declares) ==
  [name |-> name, expr |-> expr, cgo |-> cgo, own |-> own, generated |-> generated,
   declares |-> declares]

\* The generator is run in one of the go command's builds.
ASSUME HostsAssumption == Hosts \subseteq Builds

\* File names have a first part.
ASSUME NamesAssumption ==
  /\ \A p \in Packages : \A f \in p : f.name \in Seq(STRING) \ {NoName}
  /\ Outputs \subseteq Seq(STRING)

VARIABLES
  package,    \* the files of the directory
  host,       \* the build go list selects files for
  output,     \* the name of the output
  named,      \* config.Types, or {}: all annotated types
  usesT,      \* X has a field of type T
  stage,      \* the next check
  result      \* "ok", or why the package was refused

vars == <<package, host, output, named, usesT, stage, result>>

Types == {"X", "NewX", "Y"}
Predeclared == {"error"}

\* Of the six identifiers the ones that can collide. "X.Write" stands for a
\* method of XWriter with one of the reserved names.
generatedIdentifiers(type) ==
  CASE type = "X" -> {"XSchema", "XWriter", "NewXWriter"}
    [] type = "NewX" -> {"NewXSchema", "NewXWriter", "NewNewXWriter"}
    [] type = "Y" -> {"YSchema", "YWriter", "NewYWriter"}

reservedMethod(type) ==
  CASE type = "X" -> "X.Write" [] type = "NewX" -> "NewX.Write" [] type = "Y" -> "Y.Write"

-----------------------------------------------------------------------------
(* Files: as the go command sees them, and as the generator does           *)

isTest(f) == Len(f.name) > 1 /\ f.name[Len(f.name)] = "test"

\* The go command compiles f into the package in build b (of go test).
Included(f, b) ==
  /\ f.own
  /\ goodOSArchFile(f.name, b)
  /\ Eval(f.expr, Holds(b))
  /\ f.cgo => <<"cgo">> \in Holds(b)

\* Mutant: a file that imports C has no implicit constraint.
constraintWithoutCgo(f) == f.expr \cup filenameBuildConstraints(f.name)

\* canonicalBuildConstraint and, except for tests, the implicit cgo.
constraintOf(f) ==
  f.expr \cup filenameBuildConstraints(f.name)
    \cup (IF f.cgo /\ ~isTest(f) THEN Tag(<<"cgo">>) ELSE {})

\* Any custom tag of a package may be passed with -tags; a test does not import C,
\* which the go command refuses.
ASSUME PackagesAssumption ==
  \A p \in Packages : \A f \in p :
    customTags(constraintOf(f), {}) \subseteq Custom /\ ~(f.cgo /\ isTest(f))

\* An earlier output is not looked at.
isOutput(f) == IF output = NoName THEN f.generated ELSE f.name = output

\* files, and files with testFiles and ignoredFiles; files of other packages
\* (external tests, programs marked ignore) are skipped.
Selected == {f \in package : Included(f, host) /\ ~isTest(f) /\ ~isOutput(f)}
AllFiles == {f \in package : f.own /\ ~isOutput(f)}

Declaring(name) == {f \in Selected : name \in f.declares}
FileOf(name) == CHOOSE f \in Declaring(name) : TRUE

\* The types to generate for, and those of them that were found.
selectedTypes == IF named # {} THEN named ELSE {t \in Types : Declaring(t) # {}}
found == {t \in selectedTypes : Declaring(t) # {}}

eventConstraint(type) == constraintOf(FileOf(type))

-----------------------------------------------------------------------------
(* The checks, in their order *)

Pass(next) == stage' = next /\ UNCHANGED <<package, host, output, named, usesT, result>>

Refuse(why) ==
  /\ stage' = "end"
  /\ result' = why
  /\ UNCHANGED <<package, host, output, named, usesT>>

Verdict(at, bad, why, next) ==
  /\ stage = at
  /\ \/ bad /\ Refuse(why)
     \/ ~bad /\ Pass(next)

loadPackage ==
  Verdict("load",
    \E type \in Types \cup {"T"} : Cardinality(Declaring(type)) > 1,
    "declared twice", "shadows")

checkPredeclaredShadows ==
  Verdict("shadows",
    \E f \in AllFiles, type \in found :
      /\ f.declares \cap Predeclared # {}
      /\ constraintsOverlap(eventConstraint(type), constraintOf(f)),
    "shadow", "collisions")

\* Mutant: only the files go list selected are looked at.
collisionsInSelected ==
  Verdict("collisions",
    \/ \E t, u \in found : t # u /\ generatedIdentifiers(t) \cap generatedIdentifiers(u) # {}
    \/ \E type \in found, f \in Selected :
         /\ f.declares \cap (generatedIdentifiers(type) \cup {reservedMethod(type)}) # {}
         /\ constraintsOverlap(eventConstraint(type), constraintOf(f)),
    "collision", "typecheck")

\* checkGeneratedCollisions repeats the first part.
checkSelectedGeneratedCollisions ==
  Verdict("collisions",
    \/ \E t, u \in found : t # u /\ generatedIdentifiers(t) \cap generatedIdentifiers(u) # {}
    \/ \E type \in found, f \in AllFiles :
         /\ f.declares \cap (generatedIdentifiers(type) \cup {reservedMethod(type)}) # {}
         /\ constraintsOverlap(eventConstraint(type), constraintOf(f)),
    "collision", "typecheck")

\* The field's type must be declared in the host's build.
typeCheck ==
  Verdict("typecheck",
    usesT /\ Declaring("X") # {} /\ Declaring("T") = {},
    "undefined", "events")

\* Every type asked for exists; there is one.
analyzeEvent ==
  Verdict("events", selectedTypes = {} \/ found # selectedTypes, "no event", "dependency")

\* Mutant: it is enough that the dependency's constraint implies the event's.
dependencyImplies ==
  Verdict("dependency",
    /\ usesT /\ "X" \in found
    /\ constraintOf(FileOf("T")) # {}
    /\ ~constraintImplies(constraintOf(FileOf("T")), eventConstraint("X")),
    "dependency", "equivalent")

checkDependency ==
  Verdict("dependency",
    /\ usesT /\ "X" \in found
    /\ constraintOf(FileOf("T")) # {}
    /\ ~constraintsEquivalent(eventConstraint("X"), constraintOf(FileOf("T"))),
    "dependency", "equivalent")

\* Generate: the events of one output have one constraint.
checkEquivalent ==
  Verdict("equivalent",
    \E t, u \in found : ~constraintsEquivalent(eventConstraint(t), eventConstraint(u)),
    "different", "output")

outputConstraint == IF output = NoName THEN {} ELSE filenameBuildConstraints(output)

\* The constraint that render writes.
renderedConstraint == eventConstraint(CHOOSE type \in found : TRUE)

\* Mutant: the implication is the wrong way round.
outputImplies ==
  Verdict("output",
    ~constraintImplies(outputConstraint, renderedConstraint),
    "output name", "render")

checkOutputConstraint ==
  Verdict("output",
    ~constraintImplies(renderedConstraint, outputConstraint),
    "output name", "render")

render ==
  /\ stage = "render"
  /\ stage' = "end"
  /\ result' = "ok"
  /\ UNCHANGED <<package, host, output, named, usesT>>

Init ==
  /\ package \in Packages
  /\ host \in Hosts
  /\ output \in Outputs
  /\ named \in {{}, {"X"}}
  /\ usesT \in {FALSE, \E f \in package : "T" \in f.declares}
  /\ stage = "load"
  /\ result = "none"

Next ==
  \/ loadPackage \/ checkPredeclaredShadows \/ checkSelectedGeneratedCollisions
  \/ typeCheck \/ analyzeEvent \/ checkDependency \/ checkEquivalent
  \/ checkOutputConstraint \/ render

Spec == Init /\ [][Next]_vars

-----------------------------------------------------------------------------
(* Properties *)

\* The builds in which the go command compiles the generated file.
OutputBuilds ==
  LET constraint == renderedConstraint
  IN  {b \in Builds : goodOSArchFile(output, b) /\ Eval(constraint, Holds(b))}

Accepted == result = "ok" /\ output # NoName

\* Of the events and of the fields' types.
neededTypes == found \cup (IF usesT /\ "X" \in found THEN {"T"} ELSE {})

\* What another file must not declare.
takenNames ==
  Predeclared \cup UNION {generatedIdentifiers(type) \cup {reservedMethod(type)} : type \in found}

\* Wherever the generated file is compiled, so are the event types and the types
\* of their fields, and nothing compiled with it declares one of its identifiers
\* or methods, or shadows a predeclared identifier: also in builds for other
\* systems, features and tags than the host's.
Compiles ==
  Accepted =>
    LET builds == OutputBuilds
    IN  /\ \A f \in {FileOf(type) : type \in neededTypes}, b \in builds : Included(f, b)
        /\ \A f \in package : f.name # output /\ f.declares \cap takenNames # {} =>
             \A b \in builds : ~Included(f, b)

\* Wherever an event type is compiled, so is its writer: the generated file and
\* its name preserve the event's constraints, no more and no less.
WriterPresent ==
  Accepted =>
    LET builds == OutputBuilds
    IN  \A f \in {FileOf(type) : type \in found}, b \in Builds : Included(f, b) => b \in builds

TooMany(f, g, limit) == ~Complete(constraintOf(f), constraintOf(g), limit)

\* The generator refuses a package for its constraints only if some build would
\* be broken (or mixes constraints, which the documentation rules out), or there
\* are more custom tags than it looks at.
Justified ==
  LET events == {FileOf(type) : type \in found}
      Together(bad) ==
        \E e \in events, f \in AllFiles :
          /\ f.declares \cap bad # {}
          /\ TooMany(e, f, MaxOverlapTags) \/ \E b \in Builds : Included(e, b) /\ Included(f, b)
      Apart(e, f) ==
        TooMany(e, f, MaxImpliesTags) \/ \E b \in Builds : Included(e, b) # Included(f, b)
  IN  /\ result = "shadow" => Together(Predeclared)
      /\ result = "collision" =>
           \/ {"X", "NewX"} \subseteq found
           \/ Together(takenNames \ Predeclared)
      /\ result = "dependency" => Apart(FileOf("X"), FileOf("T"))
      /\ result = "different" => \E e, f \in events : Apart(e, f)
      /\ result = "output name" =>
           \E e \in events :
             \/ ~Complete(constraintOf(e), outputConstraint, MaxImpliesTags)
             \/ \E b \in Builds : Included(e, b) /\ ~goodOSArchFile(output, b)
=============================================================================

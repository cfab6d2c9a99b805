---------------------------- MODULE MCGenPackage -----------------------------
(* Instance of GenPackage for TLC. *)
EXTENDS GenPackage

MCTargets ==
  {[goos |-> "linux", goarch |-> "amd64"], [goos |-> "android", goarch |-> "arm"],
   [goos |-> "windows", goarch |-> "amd64"], [goos |-> "js", goarch |-> "wasm"]}

MCCustom == {<<"cgo">>, <<"c1">>, <<"c2">>, <<"amd64", "v9">>}

Literal(t, wanted) == {{<<t, wanted>>}}

\* Explicit constraints: systems and their families, features that are levels
\* and one that is unknown, custom tags, and more of them than the limits.
Exprs ==
  {{}, Tag(<<"linux">>), Tag(<<"android">>), Tag(<<"unix">>), Literal(<<"windows">>, FALSE),
   Tag(<<"amd64", "v1">>), Tag(<<"amd64", "v3">>), Tag(<<"amd64", "v9">>),
   Tag(<<"linux">>) \cup Tag(<<"windows">>),
   Tag(<<"c1">>), Literal(<<"c1">>, FALSE), {{<< <<"c1">>, TRUE>>, << <<"c2">>, TRUE>>}},
   Tag(<<"c1">>) \cup Tag(<<"c2">>), Tag(<<"cgo">>)}

Plain(parts, declares) == File(parts, {}, FALSE, TRUE, FALSE, declares)

Places(base, declares) ==
  {File(<<base>>, expr, FALSE, TRUE, FALSE, declares) : expr \in Exprs}
    \cup {File(<<base>>, {}, TRUE, TRUE, FALSE, declares)}
    \cup {Plain(<<base>> \o tail, declares) :
            tail \in {<<"linux">>, <<"linux", "amd64">>, <<"amd64", "linux">>, <<"test">>,
                      <<"windows", "test">>}}
    \cup {Plain(tail, declares) : tail \in {<<"linux">>, <<"linux", "amd64">>}}
    \cup {File(<<base>>, {}, FALSE, FALSE, FALSE, declares)}

OtherDeclares == {{}, {"T"}, {"NewX"}, {"Y"}, {"NewXWriter"}, {"X.Write"}, {"error"}}

MCPackages ==
  {{f, g} : f \in Places("a", {"X"}), g \in UNION {Places("b", d) : d \in OtherDeclares}}
    \cup {{Plain(<<"a">>, {"X"}), Plain(<<"b", "linux">>, {"T"}), g} :
            g \in Places("c", {"T"})}
    \cup {{f, File(<<"gen">>, {}, FALSE, TRUE, TRUE, {"XWriter"})} : f \in Places("a", {"X"})}

Amd64(goos, tags) ==
  [target |-> [goos |-> goos, goarch |-> "amd64"], features |-> {<<"amd64", "v1">>}, tags |-> tags]

MCHosts == {Amd64("linux", {<<"cgo">>}), Amd64("linux", {<<"c1">>, <<"c2">>})}

MCOutputs == {NoName, <<"gen">>, <<"gen", "linux">>, <<"linux", "amd64">>, <<"gen", "linux", "amd64">>}
=============================================================================

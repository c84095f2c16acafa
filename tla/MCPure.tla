-------------------------------- MODULE MCPure --------------------------------
(***************************************************************************)
(* The pure functions of ContainerNames, ConfigFiles and CliOutput over    *)
(* all inputs up to a length: a behaviour picks a scene and lets one input *)
(* grow by a symbol at a time.                                             *)
(***************************************************************************)
EXTENDS ContainerNames, ConfigFiles, CliOutput

CONSTANTS
  NameScenes, Refs,                          \* what goes with a template, with a path
  MaxTemplate, MaxTree, MaxOutput, MaxPath   \* the lengths that are explored

\* Names, versions and words of a reference hold none of its separators.
Separators == {"/", ":", "@"}

ASSUME ScenesAssumption ==
  /\ \A s \in NameScenes :
       /\ DOMAIN s.env \subseteq Vars /\ s.env \in [DOMAIN s.env -> Seq(Chars)]
       /\ s.second \in Seq(Chars \cup Vars)
  /\ \A r \in Refs :
       r.name \notin Separators /\ r.version \notin Separators

VARIABLES kind, scene, word

vars == <<kind, scene, word>>

Variables == {"v1", "v2"}

\* v2 has a value on the host or not; the second name is good, or the same as the
\* first container's, or bad; the configuration has comments or not.
MCNameScenes ==
  [env : {("v1" :> v) @@ e : v \in {<<>>, <<"alnum">>, <<"mark", "alnum">>, <<"alnum", "newline">>,
                                    <<"alnum", "other">>, <<"open">>},
                             e \in {<<>>, "v2" :> <<"alnum">>}},
   second : {<<"alnum", "alnum", "mark">>, <<"v1", "alnum">>},
   containers : {{}, {[name |-> <<"alnum">>, owner |-> "ours"]},
                 {[name |-> <<"alnum", "mark">>, owner |-> "theirs"]},
                 {[name |-> <<"alnum">>, owner |-> "nobody"],
                  [name |-> <<"alnum", "alnum">>, owner |-> "ours"]}},
   answers : BOOLEAN,
   strict : BOOLEAN]

MCRefs == [port : BOOLEAN, name : {"codex-cli", "other"}, version : {"none", "1", "1.2.3", "digest"}]

\* Two of three contents are bytes that read alike.
MCContents == {"bytes1", "bytes2", "text"}
MCDigestRank == "bytes1" :> 2 @@ "bytes2" :> 1 @@ "text" :> 3
MCDecode == "bytes1" :> "?" @@ "bytes2" :> "?" @@ "text" :> "t"

Init ==
  /\ word = <<>>
  /\ \/ kind = "template" /\ scene \in NameScenes
     \/ kind = "tree" /\ scene = <<>>
     \/ kind = "output" /\ scene = <<>>
     \/ kind = "path" /\ scene \in Refs

Grow(k, max, Symbols) ==
  /\ kind = k
  /\ Len(word) < max
  /\ \E s \in Symbols : word' = Append(word, s)
  /\ UNCHANGED <<kind, scene>>

GrowTemplate == Grow("template", MaxTemplate, Chars \cup Vars)

\* Before and after of one file.
GrowTree == Grow("tree", MaxTree, (Contents \cup {Missing}) \X (Contents \cup {Missing}))

GrowOutput == Grow("output", MaxOutput, LineKinds)

GrowPath == Grow("path", MaxPath, {"codex-cli", "features"})

Next == GrowTemplate \/ GrowTree \/ GrowOutput \/ GrowPath

Spec == Init /\ [][Next]_vars

-----------------------------------------------------------------------------
Templates == <<word, scene.second>>

\* What the CLI is given by a configuration in strict JSON is good and free: no
\* `--name=` of several that the engine would refuse or that is another container's
\* (lint.py:1-7, 185-194). Of other configurations nothing is promised (lint.py:108-126).
NamesAreGood ==
  kind = "template" =>
    CliGetsGoodNames(scene.strict, Templates, scene.env, "ours", scene.containers, scene.answers)

\* A refusal is right, and the way out it prints is one (lint.py:160-182).
RefusalsHelp == kind = "template" => RefusalHelps(Templates, scene.env)

\* "Hash comparison is our lightweight 'did devcontainer config change?' signal"
\* (cli.py:246): it misses no edit, and the diff shows what it noticed.
EditsAreNoticed ==
  kind = "tree" => EditIsNoticed([i \in DOMAIN word |-> word[i][1]], [i \in DOMAIN word |-> word[i][2]])

\* "pick the last JSON object with the expected shape instead of relying on a
\* particular number of log lines" (devcontainer_cli.py:62).
PayloadsAreFound == kind = "output" => PayloadIsFound(word)

\* A feature counts as used, and as pinned, whatever registry, path and tag its
\* reference has (container.py:335, features.py:21-34).
FeaturesAreRead ==
  kind = "path" =>
    FeatureIsRead([path |-> word, port |-> scene.port, name |-> scene.name,
                   version |-> scene.version], "codex-cli")

\* The docstring of sanitize_container_name, for the name the check stops at unless
\* that is empty.
SuggestionsAreValid ==
  kind = "template" /\ Refusals(Templates, scene.env) # {} =>
    LET name == Resolve(Templates[Min(Refusals(Templates, scene.env))], scene.env)
    IN name # <<>> => SanitizedIsValid(name)
=============================================================================

---------------------------- MODULE ContainerNames ----------------------------
(***************************************************************************)
(* The names `runArgs` ask for with "--name=": variables resolved, the     *)
(* result validated, and the engine asked whether another container has    *)
(* the name, before the Dev Container CLI is run (lint.py).                *)
(*                                                                         *)
(* A name is a sequence of character classes, a template one of classes    *)
(* and variables.                                                          *)
(***************************************************************************)
EXTENDS SequencesExt

CONSTANTS
  Vars,       \* the variables of templates
  Unmanaged   \* what labels a container that is not a dev container

\* "alnum" [a-zA-Z0-9], "mark" one of "_.-", "newline", "open" a "${", "other".
Chars == {"alnum", "mark", "newline", "open", "other"}

\* _VALID_CHARS_CLASS.
ValidChars == {"alnum", "mark"}

ASSUME NamesAssumption == Vars \cap Chars = {}

-----------------------------------------------------------------------------
\* [a-zA-Z0-9][a-zA-Z0-9_.-]*, to the last character, as the engines have it.
EngineAccepts(name) ==
  name # <<>> /\ name[1] = "alnum" /\ \A i \in DOMAIN name : name[i] \in ValidChars

\* _is_valid_container_name: the "$" of the pattern also matches before a newline
\* at the end.
IsValid(name) ==
  /\ name # <<>> /\ name[1] = "alnum"
  /\ \A i \in DOMAIN name :
       name[i] \in ValidChars \/ (i = Len(name) /\ name[i] = "newline")

\* Mutant: only the characters in the way of a shell are replaced.
SanitizeOthers(name) ==
  LET sanitized == [i \in DOMAIN name |-> IF name[i] = "other" THEN "mark" ELSE name[i]]
  IN IF name # <<>> /\ sanitized[1] # "alnum" THEN <<"mark">> \o sanitized ELSE sanitized

\* sanitize_container_name.
Sanitize(name) ==
  LET sanitized == [i \in DOMAIN name |-> IF name[i] \in ValidChars THEN name[i] ELSE "mark"]
  IN IF name # <<>> /\ sanitized[1] # "alnum" THEN <<"mark">> \o sanitized ELSE sanitized

\* _resolve_name_template: env[v] is the value of v on the host; a variable that
\* has none there stays as it is.
Resolve(template, env) ==
  FlattenSeq([i \in DOMAIN template |->
    CASE template[i] \in Chars -> <<template[i]>>
      [] template[i] \in DOMAIN env -> env[template[i]]
      [] OTHER -> <<"open">>])

Unresolved(name) == "open" \in ToSet(name)

\* The values of the template's variables.
Substituted(template, env) == {v \in ToSet(template) \cap Vars : v \in DOMAIN env}

Refused(template, env) ==
  LET name == Resolve(template, env) IN ~Unresolved(name) /\ ~IsValid(name)

\* validate_runargs_container_name raises for the first of these templates ...
Refusals(templates, env) == {i \in DOMAIN templates : Refused(templates[i], env)}

\* ... and names the variable whose value alone would not be a valid name.
Blamed(template, env) == {v \in Substituted(template, env) : ~IsValid(env[v])}

\* The engine's filter matches any part of a name.
Matches(name, c) ==
  \E i \in 0..(Len(c.name) - Len(name)) : SubSeq(c.name, i + 1, i + Len(name)) = name

\* Mutant: a container without the label is passed over.
IsOthersLabelled(c, workspace) == c.owner \notin {workspace, Unmanaged}

\* Is c another workspace's, or not dcman's at all?
IsOthers(c, workspace) == c.owner # workspace

\* check_container_name_conflict; an engine that does not answer is no conflict.
Conflicts(templates, env, workspace, containers, answers) ==
  /\ answers
  /\ \E i \in DOMAIN templates :
       LET name == Resolve(templates[i], env)
       IN IsValid(name) /\ \E c \in containers : Matches(name, c) /\ IsOthers(c, workspace)

\* devcontainer_up goes on to the CLI. A configuration that is not strict JSON has no
\* names for _load_devcontainer_config, so neither check looks at any.
Passes(strict, templates, env, workspace, containers, answers) ==
  strict =>
    /\ Refusals(templates, env) = {}
    /\ ~Conflicts(templates, env, workspace, containers, answers)

-----------------------------------------------------------------------------
\* The names the engine will see, unless a variable only the CLI knows is left in
\* them; a line break at the end, which the pattern lets through, is not looked at.
Given(templates, env) ==
  {Resolve(templates[i], env) : i \in DOMAIN templates}

Plain(name) == ~Unresolved(name) /\ (name = <<>> \/ Last(name) # "newline")

\* Of a configuration in strict JSON, the engine accepts the names the CLI gives it, and
\* none belongs to a container of another workspace or of none: not even one of
\* several. One with comments, which the CLI reads all the same, is left unchecked.
CliGetsGoodNames(strict, templates, env, workspace, containers, answers) ==
  strict /\ Passes(strict, templates, env, workspace, containers, answers) =>
    \A name \in Given(templates, env) : Plain(name) =>
      /\ EngineAccepts(name)
      /\ answers => \A c \in containers : c.name = name => c.owner = workspace

\* What a refusal says: that the name is bad, a better one for a name that begins
\* well, and a variable to blame where the template itself is fine.
RefusalHelps(templates, env) ==
  \A i \in Refusals(templates, env) :
    LET template == templates[i]
        name == Resolve(template, env)
    IN  /\ ~EngineAccepts(name)
        /\ name # <<>> /\ name[1] = "alnum" => EngineAccepts(Sanitize(name))
        /\ (/\ template # <<>> /\ template[1] # "mark"
            /\ \A j \in DOMAIN template : template[j] \in ValidChars \cup Vars
            /\ \A v \in Substituted(template, env) : Plain(env[v]))
           => Blamed(template, env) # {}

\* "The result is guaranteed to be a syntactically valid container name"
\* (lint.py:46).
SanitizedIsValid(name) == EngineAccepts(Sanitize(name))
=============================================================================

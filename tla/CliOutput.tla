------------------------------- MODULE CliOutput -------------------------------
(***************************************************************************)
(* What dcman reads from others' text: the JSON object in the output of    *)
(* the Dev Container CLI (devcontainer_cli.py), and the reference of a     *)
(* feature in a configuration (features.py, container.py).                 *)
(***************************************************************************)
EXTENDS SequencesExt

-----------------------------------------------------------------------------
(***************************************************************************)
(* Output, a sequence of lines: "payload" an object with the required key, *)
(* "log" one without, "array" other JSON, "text" not JSON, "blank"; and    *)
(* "open", "inner", "close" the lines of an object printed over several,   *)
(* "inner" a nested object without the key.                                *)
(***************************************************************************)
LineKinds == {"payload", "log", "array", "text", "blank", "open", "inner", "close"}

OneLine == {"payload", "log", "array", "inner"}

IsObject(line) == line \in {"payload", "log", "inner"}

IsBlank(line) == line = "blank"

\* Does json.loads take the lines as one value?
IsOneValue(lines) ==
  LET full == {i \in DOMAIN lines : ~IsBlank(lines[i])}
  IN \/ \E i \in full : full = {i} /\ lines[i] \in OneLine
     \/ \E b, e \in full :
          /\ b < e /\ lines[b] = "open" /\ lines[e] = "close"
          /\ \A i \in full \ {b, e} : b < i /\ i < e /\ lines[i] = "inner"

\* An object over several lines has the key.
HasShape(line) == line \in {"payload", "open"}

\* Mutant: the first line of the shape.
LastOfShapeFirst(output) == SelectInSeq(output, LAMBDA l : l = "payload")

\* The walk backwards over the lines that are an object.
LastOfShape(output) == SelectLastInSeq(output, LAMBDA l : IsObject(l) /\ HasShape(l))

\* _loads_last_json_object with a required key: the line its result begins at, or
\* 0 for the CmdError.
LoadsLastJsonObject(output) ==
  LET begin == SelectInSeq(output, LAMBDA l : ~IsBlank(l))
  IN IF IsOneValue(output) /\ HasShape(output[begin]) THEN begin ELSE LastOfShape(output)

\* The last object with the key is found behind any number of log lines, whatever
\* they are; one over several lines only when it is all there is.
PayloadIsFound(output) ==
  LET found == LoadsLastJsonObject(output)
  IN /\ found # 0 => HasShape(output[found])
     /\ \A i \in DOMAIN output : output[i] = "payload" => i <= found
     /\ found # 0 /\ output[found] = "open" => IsOneValue(output)

-----------------------------------------------------------------------------
(***************************************************************************)
(* References to features, sequences of "/", ":", "@" and words.           *)
(***************************************************************************)
Cut(ref, mark) == SelectInSeq(ref, LAMBDA t : t = mark)

LastCut(ref, mark) == SelectLastInSeq(ref, LAMBDA t : t = mark)

\* ref.rsplit("/", 1)[-1].
LastPart(ref) == SubSeq(ref, LastCut(ref, "/") + 1, Len(ref))

\* Mutant: the reference is cut at its first colon.
FeatureTagFirstColon(ref) ==
  IF "@" \in ToSet(LastPart(ref)) THEN <<>>
  ELSE IF Cut(ref, ":") = 0 THEN <<"latest">>
  ELSE SubSeq(ref, Cut(ref, ":") + 1, Len(ref))

\* _feature_tag; <<>> is None.
FeatureTag(ref) ==
  LET last == LastPart(ref)
  IN IF "@" \in ToSet(last) THEN <<>>
     ELSE IF LastCut(last, ":") = 0 THEN <<"latest">>
     ELSE SubSeq(last, LastCut(last, ":") + 1, Len(last))

\* _is_exact_semver.
IsExactSemver(tag) == tag = <<"1.2.3">>

\* ref.rstrip("/").
Stripped(ref) ==
  LET other == SelectLastInSeq(ref, LAMBDA t : t # "/") IN SubSeq(ref, 1, other)

\* name in _feature_ref_matches.
FeatureName(ref) ==
  LET last == LastPart(Stripped(ref))
  IN IF Cut(last, ":") = 0 THEN last ELSE SubSeq(last, 1, Cut(last, ":") - 1)

FeatureRefMatches(ref, feature) == FeatureName(ref) = <<feature>>

\* A reference, [host, port]/.../name[:tag | @digest], as it is written.
Written(r) ==
  <<"host">> \o (IF r.port THEN <<":", "5000">> ELSE <<>>)
    \o FlattenSeq([i \in DOMAIN r.path |-> <<"/", r.path[i]>>])
    \o <<"/", r.name>>
    \o (CASE r.version = "none" -> <<>>
          [] r.version = "digest" -> <<"@", "sha256", ":", "abc">>
          [] OTHER -> <<":", r.version>>)

\* A feature is recognised by the last part of its reference, with any tag, from
\* any registry; one pinned by a digest never is.  Only an exact version spares the
\* registry a question.
FeatureIsRead(r, feature) ==
  /\ r.version # "digest" => (FeatureRefMatches(Written(r), feature) <=> r.name = feature)
  /\ FeatureTag(Written(r)) =
       CASE r.version = "none" -> <<"latest">>
         [] r.version = "digest" -> <<>>
         [] OTHER -> <<r.version>>
  /\ IsExactSemver(FeatureTag(Written(r))) <=> r.version = "1.2.3"
=============================================================================

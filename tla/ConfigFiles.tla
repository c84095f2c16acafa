------------------------------ MODULE ConfigFiles ------------------------------
(***************************************************************************)
(* The files of a dev container configuration as the hash sees them and as *)
(* the review of a change shows them (container.py:400-473).               *)
(*                                                                         *)
(* tree[i] is the content of the file at path i, or Missing: path 1 is     *)
(* .devcontainer.json, the others are under .devcontainer/.                *)
(***************************************************************************)
EXTENDS SequencesExt

CONSTANTS
  Contents,    \* what the bytes of a file can be
  Missing,     \* no file
  DigestRank,  \* the digests of contents, in their order: nobody finds two alike
  Decode       \* read_text(errors="replace"); two contents can read alike

ASSUME FilesAssumption ==
  /\ Missing \notin Contents
  /\ DigestRank \in [Contents -> Nat]
  /\ \A b, c \in Contents : DigestRank[b] = DigestRank[c] => b = c
  /\ DOMAIN Decode = Contents
  /\ \A c \in Contents : Decode[c] # Missing

-----------------------------------------------------------------------------
Files(tree) == {i \in DOMAIN tree : tree[i] # Missing}

\* Mutant: files of one content count once.
ContentDigestsOnce(tree) == SetToSortSeq({DigestRank[tree[i]] : i \in Files(tree)}, <)

RankAt(tree, i) == DigestRank[tree[i]]

\* sorted(content_digests), by the files they are of.
InOrder(files, tree) ==
  \A j, k \in DOMAIN files : j < k => RankAt(tree, files[j]) <= RankAt(tree, files[k])

\* devcontainer_hash, before the last digest: the sorted digests of the contents,
\* <<>> for None.  The names of the files are not part of it.
ContentDigests(tree) ==
  LET files == CHOOSE f \in Bijection(1..Cardinality(Files(tree)), Files(tree)) : InOrder(f, tree)
  IN  [j \in 1..Cardinality(Files(tree)) |-> RankAt(tree, files[j])]

\* devcontainer_config_snapshot.
Snapshot(tree) == [i \in Files(tree) |-> Decode[tree[i]]]

TextAt(snapshot, i) == IF i \in DOMAIN snapshot THEN snapshot[i] ELSE Missing

\* _render_unified_config_diff: the files with a section in it.
Diff(old, new) ==
  {i \in DOMAIN old \cup DOMAIN new : TextAt(old, i) # TextAt(new, i)}

-----------------------------------------------------------------------------
Changed(old, new) == {i \in DOMAIN old : old[i] # new[i]}

\* The contents of one tree are those of the other, at other paths.
IsMove(old, new) ==
  \A c \in Contents :
    Cardinality({i \in DOMAIN old : old[i] = c}) = Cardinality({i \in DOMAIN new : new[i] = c})

\* The hash misses only that files have moved, never an edit; what it notices, the
\* diff shows, but for bytes that read alike.
EditIsNoticed(old, new) ==
  /\ ContentDigests(old) = ContentDigests(new) => IsMove(old, new)
  /\ Cardinality(Changed(old, new)) = 1 => ContentDigests(old) # ContentDigests(new)
  /\ Diff(Snapshot(old), Snapshot(new)) =
       {i \in Changed(old, new) :
          old[i] = Missing \/ new[i] = Missing \/ Decode[old[i]] # Decode[new[i]]}
=============================================================================

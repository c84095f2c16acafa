----------------------------- MODULE MCSeedCache -----------------------------
(***************************************************************************)
(* SeedCache on small instances.  Neither the terminals nor the versions   *)
(* are told apart.                                                         *)
(***************************************************************************)
EXTENDS SeedCache, TLC

\* What a command has computed counts only up to the step that uses it last.
Used(p) ==
  LET At(steps, v) == IF pc[p] \in steps THEN v ELSE NoFile
      Writing == {"open", "fill", "move"}
      Marking == {"markLoad", "markSave"}
  IN  <<At(Steps \ {"idle", "saveOther"}, <<seed[p], target[p]>>),
        At({"check"} \cup Writing \cup Marking, val[p]),
        At(Writing, at[p]), At(Writing, tmp[p]), At({"saveOther", "markSave"}, copy[p])>>

View == <<hostVars, cid, file, cache, pc, [p \in Procs |-> Used(p)]>>

Symmetry == Permutations(Procs) \cup Permutations(Versions)
=============================================================================

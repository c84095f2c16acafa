--------------------------- MODULE MCConfigReview ---------------------------
(***************************************************************************)
(* ConfigReview on small instances.  Neither the terminals nor the configs *)
(* are told apart.                                                         *)
(***************************************************************************)
EXTENDS ConfigReview, TLC

\* What a command has computed counts only up to the step that uses it last.
Used(p) ==
  LET At(steps, v) == IF pc[p] \in steps THEN v ELSE None
      Comparing == {"readState", "findContainers", "decide"}
      Choosing  == Comparing \cup {"diff", "answer", "digest", "save", "env", "envSave", "up"}
  IN  <<At(Comparing, cur[p]), At({"findContainers", "decide"}, stored[p]),
        At({"decide"}, found[p]), At({"answer"}, seen[p]),
        At({"save", "lastSave"}, digest[p]), At({"envSave"}, copy[p]),
        At(Choosing, cmd[p]), At(Choosing \ Comparing, <<changed[p], recreate[p]>>)>>

View == <<world, diskVars, stateVars, built, pc, accepted, [p \in Procs |-> Used(p)]>>

Symmetry == Permutations(Procs) \cup Permutations(Configs)
=============================================================================

------------------------------ MODULE MCPruneAll ------------------------------
EXTENDS PruneAll, TLC

CONSTANTS p1, p2, w1, w2, c1, c2, c3

MCProcs == {p1, p2}
MCWorkspaces == {w1, w2}
MCIds == {c1, c2, c3}
MCOwner == c1 :> w1 @@ c2 :> w1 @@ c3 :> w2

CalmWorlds == {{"faults"}, {"all"}, {"overlap", "all", "faults"}}
HalfWorlds == {{"all", "faults"}}
OverlapWorlds == {{"overlap"}}

\* Without what a prune overwrites before it reads it again.
Seen(p) ==
  CASE pc[p] \in {"idle", "failed"} -> <<>>
    [] pc[p] = "list" -> <<mode[p], IF mode[p] = "target" THEN target[p] ELSE w1, touched[p]>>
    [] pc[p] = "inspect" ->
         <<mode[p], IF mode[p] = "target" THEN target[p] ELSE w1, touched[p], left[p]>>
    [] pc[p] = "pruned" -> <<Answered(p) \ touched[p]>>
    [] OTHER ->
         <<mode[p], IF mode[p] = "target" \/ pc[p] = "clear" THEN target[p] ELSE w1,
           touched[p], left[p], IF mode[p] = "all" THEN <<done[p], Answered(p)>> ELSE {}>>

View == <<world, status, tracked, pc, [p \in Procs |-> Seen(p)]>>

Symmetry == Permutations(Procs) \cup Permutations({c1, c2})
=============================================================================

----------------------------- MODULE MCHostLinks -----------------------------
(***************************************************************************)
(* HostLinks on small instances.  The terminals are interchangeable.       *)
(***************************************************************************)
EXTENDS HostLinks, TLC

\* What a command has found counts only while it runs; its history counts in the
\* states the properties speak of.
Used(p) ==
  LET Running == pc[p] \notin Ended
      Told    == Running \/ pc[p] \in {"linked", "unlinked"} \/ made[p] # {}
  IN  <<Running /\ conflict[p], IF Running THEN <<at[p], links[p]>> ELSE <<1, {}>>,
        made[p] # {}, IF Told THEN moved[p] ELSE {}>>

View == <<diskVars, pc, [p \in Procs |-> Used(p)]>>

Symmetry == Permutations(Procs)
=============================================================================

------------------------------ MODULE MCBringUp ------------------------------
(***************************************************************************)
(* BringUp on small instances.  Neither the invocations nor the ports are  *)
(* told apart.                                                             *)
(***************************************************************************)
EXTENDS BringUp, TLC

\* What a command has computed counts only up to the step that uses it last.
Used(p) ==
  LET m == my[p]
      At(steps, v) == IF pc[p] \in steps THEN v ELSE None
      Busy == Labels \ (Ended \cup {"remove", "forget"})
      ToWait == {"list", "port", "save", "repair", "look", "cli", "unlock", "wait"}
  IN  <<At(Busy, <<m.cmd, m.env, m.target, m.clear>>),
        At(ToWait, <<m.recreate, m.lockfile, m.prev, m.ok>>), At({"cli", "unlock"}, m.existed)>>

View == <<pc, [p \in Procs |-> Used(p)], port, stale, lock, container, known, history>>

Symmetry == Permutations(Procs) \cup Permutations(Ports)
=============================================================================

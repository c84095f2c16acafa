--------------------------- MODULE MCManagedShell ---------------------------
(***************************************************************************)
(* ManagedShell on small instances.  The invocations are interchangeable:  *)
(* runs that check no liveness use the symmetry.                           *)
(***************************************************************************)
EXTENDS ManagedShell, TLC

Symmetry == Permutations(Procs)
=============================================================================

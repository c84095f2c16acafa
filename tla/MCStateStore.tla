---------------------------- MODULE MCStateStore ----------------------------
(***************************************************************************)
(* StateStore on small instances.  Processes and files are interchangeable.*)
(***************************************************************************)
EXTENDS StateStore, TLC

\* The text of a file nothing refers to is never read again, nor is the field of
\* a process that has not loaded.
View ==
  <<pc, dict, [p \in Procs |-> IF pc[p] = "idle" THEN Unset ELSE field[p]], fd, tmp, json,
    [i \in Inodes |-> IF i \in Unused THEN Empty ELSE content[i]]>>

Symmetry == Permutations(Procs) \cup Permutations(Inodes)
=============================================================================

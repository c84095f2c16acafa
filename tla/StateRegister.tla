--------------------------- MODULE StateRegister ---------------------------
(***************************************************************************)
(* What state.json promises its readers and writers: a register holding a  *)
(* whole dict.  A process loads a copy, and later replaces the register by *)
(* its copy with one field set, in one step.  It may also drop its copy.   *)
(***************************************************************************)
EXTENDS Naturals

CONSTANTS
  Procs,     \* processes that use the state of one workspace
  Keys,      \* the fields of the dict
  Unset      \* a field that is missing, or null

Values == Procs \cup {Unset}     \* a process writes values of its own
Dicts  == [Keys -> Values]
Fresh  == [k \in Keys |-> Unset]

VARIABLES
  reg,       \* the dict
  copy,      \* copy[p]: the dict p loaded
  holding    \* the processes between a load and its save

vars == <<reg, copy, holding>>

Init ==
  /\ reg = Fresh
  /\ copy = [p \in Procs |-> Fresh]
  /\ holding = {}

Load(p) ==
  /\ copy' = [copy EXCEPT ![p] = reg]
  /\ holding' = holding \cup {p}
  /\ UNCHANGED reg

Save(p) ==
  /\ p \in holding
  /\ \E k \in Keys : reg' = [copy[p] EXCEPT ![k] = p]
  /\ copy' = [copy EXCEPT ![p] = Fresh]
  /\ holding' = holding \ {p}

Drop(p) ==
  /\ copy' = [copy EXCEPT ![p] = Fresh]
  /\ holding' = holding \ {p}
  /\ UNCHANGED reg

Next == \E p \in Procs : Load(p) \/ Save(p) \/ Drop(p)

Spec == Init /\ [][Next]_vars
=============================================================================

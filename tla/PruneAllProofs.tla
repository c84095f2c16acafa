---------------------------- MODULE PruneAllProofs ----------------------------
(***************************************************************************)
(* Proofs about PruneAll, for any terminals, workspaces and containers: a  *)
(* list is complete but for the workspaces started since, whatever other   *)
(* prunes remove; and where commands take turns, it stays accurate.        *)
(***************************************************************************)
EXTENDS PruneAll, TLAPS

LEMMA StepNames ==
  /\ {"list", "inspect", "prompt", "remove", "clear"} \subseteq Steps
  /\ {"idle", "failed", "pruned"} \subseteq Steps
BY DEF Steps, Ended

(***************************************************************************)
(* Types.                                                                  *)
(***************************************************************************)
LEMMA TypeStep == TypeOK /\ [Next]_vars => TypeOK'
<1>. SUFFICES ASSUME TypeOK, [Next]_vars PROVE TypeOK'
  OBVIOUS
<1>. USE StepNames, PruneAssumption DEF TypeOK
<1>1. ASSUME NEW w \in Workspaces, Start(w) PROVE TypeOK'
  <2>1. status' \in [Ids -> Statuses] BY <1>1 DEF Start, Statuses
  <2>. QED BY <1>1, <2>1 DEF Start
<1>2. ASSUME NEW c \in Ids, RemovalEnds(c) PROVE TypeOK'
  BY <1>2 DEF RemovalEnds, Statuses, historyVars
<1>3. ASSUME NEW p \in Procs, PruneStep(p) PROVE TypeOK'
  <2>1. CASE Prune(p)
    <3>1. mode' \in [Procs -> {"target", "select", "all"}] /\ target' \in [Procs -> Workspaces]
      BY <2>1 DEF Prune
    <3>. QED BY <2>1, <3>1 DEF Prune, Goto, engineVars
  <2>2. CASE ListContainers(p) BY <2>2 DEF ListContainers, Goto, engineVars, historyVars
  <2>3. CASE InspectTarget(p)
    <3>1. OfTarget(p) \subseteq Ids BY DEF OfTarget, Inspected
    <3>. QED BY <2>3, <3>1 DEF InspectTarget, Goto, engineVars
  <2>4. CASE InspectSelect(p)
    <3>1. \A c \in Inspected(p) : Owner[c] \in Workspaces BY DEF Inspected
    <3>. QED BY <2>4, <3>1 DEF InspectSelect, Goto, engineVars, historyVars
  <2>5. CASE InspectAll(p)
    <3>1. Inspected(p) \subseteq Ids BY DEF Inspected
    <3>. QED BY <2>5, <3>1 DEF InspectAll, Goto, engineVars
  <2>6. CASE Answer(p) BY <2>6 DEF Answer, Goto, engineVars, historyVars
  <2>7. CASE Remove(p) BY <2>7 DEF Remove, IsNext, Goto, historyVars, Statuses
  <2>8. CASE RemoveFails(p) BY <2>8 DEF RemoveFails, Goto, historyVars, Statuses
  <2>9. CASE AllRemoved(p) BY <2>9 DEF AllRemoved, Goto, engineVars, historyVars
  <2>10. CASE ClearTracking(p)
    <3>1. pc' = [pc EXCEPT ![p] = "remove"] \/ pc' = [pc EXCEPT ![p] = "pruned"]
      BY <2>10 DEF ClearTracking, Goto
    <3>. QED BY <2>10, <3>1 DEF ClearTracking, historyVars
  <2>11. CASE Killed(p) BY <2>11 DEF Killed, Goto, engineVars, historyVars
  <2>. QED BY <1>3, <2>1, <2>2, <2>3, <2>4, <2>5, <2>6, <2>7, <2>8, <2>9, <2>10, <2>11 DEF PruneStep
<1>4. CASE UNCHANGED vars BY <1>4 DEF vars, engineVars, historyVars
<1>. QED BY <1>1, <1>2, <1>3, <1>4 DEF Next

LEMMA TypeInit == Init => TypeOK
BY StepNames, PruneAssumption DEF Init, TypeOK, Statuses

\* Every variable keeps its type, and a prune removes what it has listed.
THEOREM TypeInvariant == Spec => []TypeOK
BY TypeInit, TypeStep, PTL DEF Spec

(***************************************************************************)
(* What a step of p leaves alone.                                          *)
(***************************************************************************)
Unseen(p) == Workspaces \ touched[p]

SameFor(q) ==
  /\ pc'[q] = pc[q] /\ mode'[q] = mode[q] /\ target'[q] = target[q] /\ left'[q] = left[q]
  /\ done'[q] = done[q] /\ listed'[q] = listed[q]

LEMMA OthersFrame ==
  ASSUME TypeOK, NEW p \in Procs, PruneStep(p)
  PROVE  /\ \A q \in Procs \ {p} : SameFor(q) /\ touched'[q] = touched[q]
         /\ world' = world
         /\ \A c \in Ids : status'[c] = "there" => status[c] = "there"
         /\ \A w \in Workspaces : tracked'[w] => tracked[w]
<1>. USE DEF TypeOK, SameFor
<1>1. CASE Prune(p)
  <2>1. \A q \in Procs \ {p} : mode'[q] = mode[q] /\ target'[q] = target[q]
    BY <1>1 DEF Prune
  <2>. QED BY <1>1, <2>1 DEF Prune, Goto, engineVars
<1>2. CASE ListContainers(p) BY <1>2 DEF ListContainers, Goto, engineVars, historyVars
<1>3. CASE InspectTarget(p) BY <1>3 DEF InspectTarget, Goto, engineVars
<1>4. CASE InspectSelect(p)
  <2>1. \A q \in Procs \ {p} : mode'[q] = mode[q] /\ target'[q] = target[q] /\ pc'[q] = pc[q]
    BY <1>4 DEF InspectSelect, Goto
  <2>. QED BY <1>4, <2>1 DEF InspectSelect, engineVars, historyVars
<1>5. CASE InspectAll(p) BY <1>5 DEF InspectAll, Goto, engineVars
<1>6. CASE Answer(p) BY <1>6 DEF Answer, Goto, engineVars, historyVars
<1>7. CASE Remove(p) BY <1>7 DEF Remove, IsNext, Goto, historyVars
<1>8. CASE RemoveFails(p) BY <1>8 DEF RemoveFails, Goto, historyVars
<1>9. CASE AllRemoved(p) BY <1>9 DEF AllRemoved, Goto, engineVars, historyVars
<1>10. CASE ClearTracking(p)
  <2>1. \A q \in Procs \ {p} : pc'[q] = pc[q] BY <1>10 DEF ClearTracking, Goto
  <2>. QED BY <1>10, <2>1 DEF ClearTracking, historyVars
<1>11. CASE Killed(p) BY <1>11 DEF Killed, Goto, engineVars, historyVars
<1>. QED BY <1>1, <1>2, <1>3, <1>4, <1>5, <1>6, <1>7, <1>8, <1>9, <1>10, <1>11 DEF PruneStep

(***************************************************************************)
(* The invariant behind PrunedIsClean.                                     *)
(***************************************************************************)
\* What p has listed is all there is of a workspace nobody has started since.
Inspecting(p) == pc[p] = "inspect" => \A w \in Unseen(p) : There(w) \subseteq left[p]

Scope(p) == IF mode[p] = "all" THEN Workspaces ELSE {target[p]}

Removing(p) ==
  pc[p] \in {"prompt", "remove"} => \A w \in Unseen(p) \cap Scope(p) : There(w) \subseteq left[p]

Clearing(p) ==
  pc[p] = "clear" =>
    \A w \in Unseen(p) \cap Scope(p) :
      There(w) \subseteq (IF mode[p] = "all" THEN left[p] ELSE {})

\* A workspace whose containers are being removed has been cleared.
Clears(p) ==
  /\ \A w \in done[p] \cap Unseen(p) : ~tracked[w]
  /\ mode[p] = "all" /\ pc[p] \in {"prompt", "remove"} =>
       \A c \in listed[p] \ left[p] : Owner[c] \in done[p]
  /\ mode[p] = "all" /\ pc[p] = "clear" =>
       \A c \in listed[p] \ left[p] : Owner[c] \in done[p] \cup {target[p]}

Cleaned(p) ==
  pc[p] = "pruned" =>
    \A w \in Answered(p) \ touched[p] : There(w) = {} /\ ~tracked[w]

ListIsComplete(p) ==
  Inspecting(p) /\ Removing(p) /\ Clearing(p) /\ Clears(p) /\ Cleaned(p)

PInv == TypeOK /\ \A p \in Procs : ListIsComplete(p)

\* A step of others keeps what p knows: containers only go, but for the workspaces
\* that p does not answer for any more.
LEMMA OthersKeep ==
  ASSUME TypeOK, TypeOK', NEW p \in Procs, ListIsComplete(p), SameFor(p),
         touched[p] \subseteq touched'[p],
         \A w \in Workspaces \ touched'[p] :
           There(w)' \subseteq There(w) /\ (tracked'[w] => tracked[w])
  PROVE  ListIsComplete(p)'
<1>1. Unseen(p)' \subseteq Unseen(p) /\ Scope(p)' = Scope(p) BY DEF Unseen, Scope, SameFor
<1>2. \A w \in Unseen(p)' : There(w)' \subseteq There(w) /\ (tracked'[w] => tracked[w])
  BY DEF Unseen
<1>3. Inspecting(p)' BY <1>1, <1>2 DEF ListIsComplete, Inspecting, SameFor
<1>4. Removing(p)' BY <1>1, <1>2 DEF ListIsComplete, Removing, SameFor
<1>5. Clearing(p)' BY <1>1, <1>2 DEF ListIsComplete, Clearing, SameFor
<1>6. Clears(p)' BY <1>1, <1>2 DEF ListIsComplete, Clears, SameFor
<1>7. Cleaned(p)'
  <2>1. Answered(p)' = Answered(p) BY DEF Answered, SameFor
  <2>2. Answered(p) \subseteq Workspaces BY PruneAssumption DEF Answered, TypeOK
  <2>. QED BY <1>1, <1>2, <2>1, <2>2 DEF ListIsComplete, Cleaned, SameFor, Unseen
<1>. QED BY <1>3, <1>4, <1>5, <1>6, <1>7 DEF ListIsComplete

LEMMA OwnStep ==
  ASSUME PInv, TypeOK', NEW p \in Procs, PruneStep(p)
  PROVE  ListIsComplete(p)'
<1>0. ListIsComplete(p) /\ TypeOK BY DEF PInv
<1>. USE DEF ListIsComplete
<1>1. CASE Prune(p)
  <2>1. pc'[p] = "list" /\ done'[p] = {} BY <1>0, <1>1 DEF Prune, Goto, TypeOK
  <2>. QED BY <2>1 DEF Inspecting, Removing, Clearing, Clears, Cleaned
<1>2. CASE ListContainers(p)
  <2>1. /\ pc'[p] = "inspect" /\ left'[p] = {c \in Ids : status[c] \in {"there", "removing"}}
        /\ UNCHANGED <<status, tracked, done, touched>>
    BY <1>0, <1>2 DEF ListContainers, Goto, TypeOK, engineVars, historyVars
  <2>2. Inspecting(p)' BY <2>1 DEF Inspecting, There
  <2>. QED BY <1>0, <2>1, <2>2 DEF Removing, Clearing, Clears, Cleaned, Unseen
<1>3. CASE InspectTarget(p)
  <2>1. /\ pc[p] = "inspect" /\ mode[p] = "target"
        /\ pc'[p] = (IF OfTarget(p) = {} THEN "clear" ELSE "prompt")
        /\ left'[p] = OfTarget(p)
        /\ UNCHANGED <<status, tracked, done, touched, mode, target>>
    BY <1>0, <1>3 DEF InspectTarget, Goto, TypeOK, engineVars
  <2>2. \A w \in Unseen(p) \cap Scope(p) : There(w) \subseteq OfTarget(p)
    BY <1>0, <2>1 DEF Inspecting, Scope, OfTarget, Inspected, There
  <2>3. Unseen(p)' = Unseen(p) /\ Scope(p)' = Scope(p) /\ \A w : There(w)' = There(w)
    BY <2>1 DEF Unseen, Scope, There
  <2>4. Removing(p)' /\ Clearing(p)' BY <2>1, <2>2, <2>3 DEF Removing, Clearing
  <2>5. Clears(p)' BY <1>0, <2>1, <2>3 DEF Clears
  <2>. QED BY <2>1, <2>4, <2>5 DEF Inspecting, Cleaned
<1>4. CASE InspectSelect(p)
  <2>1. /\ pc'[p] \in {"idle", "list"} /\ UNCHANGED <<tracked, done, touched>>
    BY <1>0, <1>4 DEF InspectSelect, Goto, TypeOK, engineVars, historyVars
  <2>. QED BY <1>0, <2>1 DEF Inspecting, Removing, Clearing, Clears, Cleaned, Unseen
<1>5. CASE InspectAll(p)
  <2>1. /\ pc[p] = "inspect" /\ mode[p] = "all" /\ pc'[p] = "prompt"
        /\ left'[p] = Inspected(p) /\ listed'[p] = Inspected(p)
        /\ UNCHANGED <<status, tracked, done, touched, mode, target>>
    BY <1>0, <1>5 DEF InspectAll, Goto, TypeOK, engineVars
  <2>2. \A w \in Unseen(p) : There(w) \subseteq Inspected(p)
    BY <1>0, <2>1 DEF Inspecting, Inspected, There
  <2>3. Unseen(p)' = Unseen(p) /\ \A w : There(w)' = There(w) BY <2>1 DEF Unseen, There
  <2>4. Removing(p)' BY <2>1, <2>2, <2>3 DEF Removing
  <2>5. Clears(p)' BY <1>0, <2>1, <2>3 DEF Clears
  <2>. QED BY <2>1, <2>4, <2>5 DEF Inspecting, Clearing, Cleaned
<1>6. CASE Answer(p)
  <2>1. /\ pc[p] = "prompt" /\ pc'[p] \in {"remove", "idle"}
        /\ UNCHANGED <<status, tracked, done, touched, mode, target, left, listed>>
    BY <1>0, <1>6 DEF Answer, Goto, TypeOK, engineVars, historyVars
  <2>2. Unseen(p)' = Unseen(p) /\ Scope(p)' = Scope(p) /\ \A w : There(w)' = There(w)
    BY <2>1 DEF Unseen, Scope, There
  <2>3. Removing(p)' BY <1>0, <2>1, <2>2 DEF Removing
  <2>4. Clears(p)' BY <1>0, <2>1, <2>2 DEF Clears
  <2>. QED BY <2>1, <2>3, <2>4 DEF Inspecting, Clearing, Cleaned
<1>7. CASE Remove(p)
  <2>1. PICK c \in Ids :
          /\ IsNext(p, c)
          /\ status' = [status EXCEPT ![c] = "gone"]
          /\ left' = [left EXCEPT ![p] = @ \ {c}]
          /\ IF ClearsEarly(p, Owner[c])
               THEN target' = [target EXCEPT ![p] = Owner[c]] /\ Goto(p, "clear")
               ELSE UNCHANGED <<target, pc>>
    BY <1>7 DEF Remove
  <2>2. /\ pc[p] = "remove" /\ UNCHANGED <<tracked, done, touched, mode, listed>>
        /\ left'[p] = left[p] \ {c}
    BY <1>0, <1>7, <2>1 DEF Remove, historyVars, TypeOK
  <2>3. \A w : There(w)' \subseteq There(w) \ {c} BY <1>0, <2>1 DEF There, TypeOK
  <2>4. Unseen(p)' = Unseen(p) BY <2>2 DEF Unseen
  <2>5. CASE ClearsEarly(p, Owner[c])
    <3>1. mode[p] = "all" /\ target'[p] = Owner[c] /\ pc'[p] = "clear"
      BY <1>0, <2>1, <2>5 DEF ClearsEarly, Goto, TypeOK
    <3>2. Clearing(p)' BY <1>0, <2>2, <2>3, <2>4, <3>1 DEF Clearing, Removing, Scope
    <3>3. Clears(p)' BY <1>0, <2>2, <2>4, <3>1 DEF Clears
    <3>. QED BY <3>1, <3>2, <3>3 DEF Inspecting, Removing, Cleaned
  <2>6. CASE ~ClearsEarly(p, Owner[c])
    <3>1. pc' = pc /\ target' = target BY <2>1, <2>6
    <3>2. Removing(p)' BY <1>0, <2>2, <2>3, <2>4, <3>1 DEF Removing, Scope
    <3>3. Clears(p)' BY <1>0, <2>2, <2>4, <2>6, <3>1 DEF Clears, ClearsEarly
    <3>. QED BY <2>2, <3>1, <3>2, <3>3 DEF Inspecting, Clearing, Cleaned
  <2>. QED BY <2>5, <2>6
<1>8. CASE RemoveFails(p)
  <2>1. pc'[p] = "failed" /\ UNCHANGED <<tracked, done, touched>>
    BY <1>0, <1>8 DEF RemoveFails, Goto, historyVars, TypeOK
  <2>. QED BY <1>0, <2>1 DEF Inspecting, Removing, Clearing, Clears, Cleaned, Unseen
<1>9. CASE AllRemoved(p)
  <2>1. /\ pc[p] = "remove" /\ left[p] = {}
        /\ pc'[p] = (IF mode[p] = "all" THEN "pruned" ELSE "clear")
        /\ UNCHANGED <<status, tracked, done, touched, mode, target, left, listed>>
    BY <1>0, <1>9 DEF AllRemoved, Goto, engineVars, historyVars, TypeOK
  <2>2. Unseen(p)' = Unseen(p) /\ Scope(p)' = Scope(p) /\ \A w : There(w)' = There(w)
    BY <2>1 DEF Unseen, Scope, There
  <2>3. \A w \in Unseen(p) \cap Scope(p) : There(w) = {} BY <1>0, <2>1 DEF Removing
  <2>4. Clearing(p)' BY <2>1, <2>2, <2>3 DEF Clearing
  <2>5. Clears(p)' BY <1>0, <2>1, <2>2 DEF Clears
  <2>6. Cleaned(p)'
    <3>1. SUFFICES ASSUME mode[p] = "all", NEW w \in Answered(p) \ touched[p]
                   PROVE  There(w) = {} /\ ~tracked[w]
      BY <2>1, <2>2 DEF Cleaned, Answered
    <3>2. w \in Workspaces /\ w \in done[p]
      BY <1>0, <2>1, <3>1, PruneAssumption DEF Answered, Clears, TypeOK
    <3>. QED BY <1>0, <2>3, <3>1, <3>2 DEF Unseen, Scope, Clears
  <2>. QED BY <2>1, <2>4, <2>5, <2>6 DEF Inspecting, Removing
<1>10. CASE ClearTracking(p)
  <2>1. /\ pc[p] = "clear" /\ target[p] \in Workspaces
        /\ pc'[p] = (IF mode[p] = "all" THEN "remove" ELSE "pruned")
        /\ UNCHANGED <<status, touched, mode, target, left, listed>>
        /\ done'[p] = done[p] \cup {target[p]}
        /\ ~tracked'[target[p]] /\ \A w \in Workspaces : tracked'[w] => tracked[w]
    BY <1>0, <1>10 DEF ClearTracking, Goto, historyVars, TypeOK
  <2>2. Unseen(p)' = Unseen(p) /\ Scope(p)' = Scope(p) /\ \A w : There(w)' = There(w)
    BY <2>1 DEF Unseen, Scope, There
  <2>3. Removing(p)' BY <1>0, <2>1, <2>2 DEF Removing, Clearing
  <2>4. Clears(p)'
    <3>1. \A w \in done'[p] \cap Unseen(p) : ~tracked'[w]
      BY <1>0, <2>1 DEF Clears, Unseen
    <3>. QED BY <1>0, <2>1, <2>2, <3>1 DEF Clears
  <2>5. Cleaned(p)'
    <3>1. SUFFICES ASSUME mode[p] # "all", target[p] \notin touched[p]
                   PROVE  There(target[p]) = {} /\ ~tracked'[target[p]]
      BY <2>1, <2>2 DEF Cleaned, Answered
    <3>. QED BY <1>0, <2>1, <3>1 DEF Clearing, Unseen, Scope
  <2>. QED BY <2>1, <2>3, <2>4, <2>5 DEF Inspecting, Clearing
<1>11. CASE Killed(p)
  <2>1. pc'[p] = "failed" /\ UNCHANGED <<tracked, done, touched>>
    BY <1>0, <1>11 DEF Killed, Goto, engineVars, historyVars, TypeOK
  <2>. QED BY <1>0, <2>1 DEF Inspecting, Removing, Clearing, Clears, Cleaned, Unseen
<1>. QED BY <1>1, <1>2, <1>3, <1>4, <1>5, <1>6, <1>7, <1>8, <1>9, <1>10, <1>11 DEF PruneStep

LEMMA PStep == PInv /\ [Next]_vars => PInv'
<1>. SUFFICES ASSUME PInv, [Next]_vars PROVE PInv'
  OBVIOUS
<1>0. TypeOK /\ TypeOK' BY TypeStep DEF PInv
<1>. SUFFICES ASSUME NEW q \in Procs PROVE ListIsComplete(q)'
  BY <1>0 DEF PInv
<1>9. ListIsComplete(q) BY DEF PInv
<1>1. ASSUME NEW w \in Workspaces, Start(w) PROVE ListIsComplete(q)'
  <2>1. SameFor(q) /\ touched'[q] = touched[q] \cup {w} BY <1>1 DEF Start, SameFor
  <2>2. \A v \in Workspaces \ {w} : There(v)' \subseteq There(v) /\ (tracked'[v] => tracked[v])
    BY <1>0, <1>1 DEF Start, There, TypeOK
  <2>. QED BY <1>0, <1>9, <2>1, <2>2, OthersKeep
<1>2. ASSUME NEW c \in Ids, RemovalEnds(c) PROVE ListIsComplete(q)'
  <2>1. SameFor(q) /\ touched' = touched /\ tracked' = tracked
    BY <1>2 DEF RemovalEnds, SameFor, historyVars
  <2>2. \A v \in Workspaces : There(v)' \subseteq There(v)
    BY <1>0, <1>2 DEF RemovalEnds, There, TypeOK
  <2>. QED BY <1>0, <1>9, <2>1, <2>2, OthersKeep
<1>3. ASSUME NEW p \in Procs, PruneStep(p) PROVE ListIsComplete(q)'
  <2>1. CASE q = p BY <1>0, <1>3, <2>1, OwnStep
  <2>2. CASE q # p
    <3>1. SameFor(q) /\ touched'[q] = touched[q] BY <1>0, <1>3, <2>2, OthersFrame
    <3>2. \A v \in Workspaces : There(v)' \subseteq There(v) /\ (tracked'[v] => tracked[v])
      BY <1>0, <1>3, OthersFrame DEF There
    <3>. QED BY <1>0, <1>9, <3>1, <3>2, OthersKeep
  <2>. QED BY <2>1, <2>2
<1>4. CASE UNCHANGED vars
  <2>1. SameFor(q) /\ touched' = touched /\ tracked' = tracked /\ \A v : There(v)' = There(v)
    BY <1>4 DEF vars, engineVars, historyVars, SameFor, There
  <2>. QED BY <1>0, <1>9, <2>1, OthersKeep
<1>. QED BY <1>1, <1>2, <1>3, <1>4 DEF Next

\* At every step, what a prune has still to inspect, remove and clear covers what
\* is left of the workspaces it answers for (ListIsComplete).
THEOREM PruneInvariant == Spec => []PInv
<1>1. Init => PInv
  <2>1. Init => \A p \in Procs : ListIsComplete(p)
    BY DEF Init, ListIsComplete, Inspecting, Removing, Clearing, Clears, Cleaned
  <2>. QED BY <2>1, TypeInit DEF PInv
<1>. QED BY <1>1, PStep, PTL DEF Spec

\* A prune that reports success leaves nothing of a workspace nobody has started
\* since, whatever other prunes and the engine do meanwhile.
THEOREM PruningIsComplete == Spec => []PrunedIsClean
<1>1. PInv => PrunedIsClean BY DEF PInv, ListIsComplete, Cleaned, PrunedIsClean
<1>. QED BY <1>1, PruneInvariant, PTL

(***************************************************************************)
(* The invariant behind ContainersAreTracked: commands that take turns.    *)
(***************************************************************************)
Calm == "overlap" \notin world /\ ~({"all", "faults"} \subseteq world)

Active(p) == pc[p] \notin Ended

\* One prune at a time, and no start while it runs.
TakeTurns ==
  \A p \in Procs : Active(p) => touched[p] = {} /\ \A q \in Procs : Active(q) => q = p

ModesOfWorld == "all" \notin world => \A p \in Procs : mode[p] # "all"

\* Where nothing fails, what is listed stays until it is removed.
ListIsCurrent ==
  "faults" \notin world =>
    \A p \in Procs : pc[p] \in {"prompt", "remove", "clear"} => \A c \in left[p] : status[c] = "there"

\* Only a `prune all` at work has cleared a workspace before its containers.
TrackedOrPruned ==
  \A w \in Workspaces :
    \/ tracked[w] \/ There(w) = {}
    \/ \E p \in Procs : pc[p] \in {"remove", "clear"} /\ mode[p] = "all" /\ There(w) \subseteq left[p]

CInv == PInv /\ (Calm => TakeTurns /\ ModesOfWorld /\ ListIsCurrent /\ TrackedOrPruned)

LEMMA WorldStays == [Next]_vars => world' = world
BY DEF Next, vars, Start, RemovalEnds, PruneStep, Prune, ListContainers, InspectTarget,
       InspectSelect, InspectAll, Answer, Remove, RemoveFails, AllRemoved, ClearTracking, Killed

LEMMA TurnsStep == Calm /\ TypeOK /\ TakeTurns /\ [Next]_vars => TakeTurns'
<1>. SUFFICES ASSUME Calm, TypeOK, TakeTurns, [Next]_vars PROVE TakeTurns'
  OBVIOUS
<1>. USE DEF TakeTurns, Active
<1>1. ASSUME NEW w \in Workspaces, Start(w) PROVE TakeTurns'
  BY <1>1 DEF Start, MayAct, Calm
<1>2. ASSUME NEW c \in Ids, RemovalEnds(c) PROVE TakeTurns'
  BY <1>2 DEF RemovalEnds, historyVars
<1>3. ASSUME NEW p \in Procs, PruneStep(p) PROVE TakeTurns'
  <2>1. \A q \in Procs \ {p} : pc'[q] = pc[q] /\ touched'[q] = touched[q]
    BY <1>3, OthersFrame DEF SameFor
  <2>2. CASE Prune(p)
    <3>1. \A q \in Procs : ~Active(q) BY <2>2 DEF Prune, MayAct, Calm
    <3>2. touched'[p] = {} BY <2>2 DEF Prune, TypeOK
    <3>. QED BY <2>1, <3>1, <3>2
  <2>3. CASE ~Prune(p)
    <3>1. Active(p) /\ touched' = touched
      BY <1>3, <2>3 DEF PruneStep, ListContainers, InspectTarget, InspectSelect, InspectAll, Answer,
         Remove, RemoveFails, AllRemoved, ClearTracking, Killed, Ended, historyVars
    <3>. QED BY <2>1, <3>1
  <2>. QED BY <2>2, <2>3
<1>4. CASE UNCHANGED vars BY <1>4 DEF vars, historyVars
<1>. QED BY <1>1, <1>2, <1>3, <1>4 DEF Next

LEMMA ModesStep == TypeOK /\ ModesOfWorld /\ [Next]_vars => ModesOfWorld'
<1>. SUFFICES ASSUME TypeOK, ModesOfWorld, [Next]_vars, "all" \notin world,
                     NEW q \in Procs
              PROVE  mode'[q] # "all"
  BY WorldStays DEF ModesOfWorld
<1>0. mode[q] # "all" BY DEF ModesOfWorld
<1>1. CASE mode' = mode BY <1>0, <1>1
<1>2. ASSUME NEW p \in Procs, Prune(p) PROVE mode'[q] # "all"
  <2>1. \E m \in {"target", "select"} : mode' = [mode EXCEPT ![p] = m] BY <1>2 DEF Prune
  <2>. QED BY <1>0, <2>1 DEF TypeOK
<1>3. ASSUME NEW p \in Procs, InspectSelect(p) PROVE mode'[q] # "all"
  <2>1. mode' = mode \/ mode' = [mode EXCEPT ![p] = "target"] BY <1>3 DEF InspectSelect
  <2>. QED BY <1>0, <2>1 DEF TypeOK
<1>. QED
  BY <1>1, <1>2, <1>3
     DEF Next, vars, Start, RemovalEnds, PruneStep, ListContainers, InspectTarget,
         InspectAll, Answer, Remove, RemoveFails, AllRemoved, ClearTracking, Killed

LEMMA CurrentStep ==
  Calm /\ TypeOK /\ TakeTurns /\ ListIsCurrent /\ [Next]_vars => ListIsCurrent'
<1>. SUFFICES ASSUME Calm, TypeOK, TakeTurns, ListIsCurrent, [Next]_vars, "faults" \notin world,
                     NEW q \in Procs, pc'[q] \in {"prompt", "remove", "clear"}, NEW c \in left'[q]
              PROVE  status'[c] = "there"
  BY WorldStays DEF ListIsCurrent
<1>. USE DEF TypeOK
<1>1. ASSUME NEW w \in Workspaces, Start(w) PROVE status'[c] = "there"
  BY <1>1 DEF Start, MayAct, Calm, Ended
<1>2. ASSUME NEW d \in Ids, RemovalEnds(d) PROVE status'[c] = "there"
  BY <1>2 DEF RemovalEnds, historyVars, ListIsCurrent
<1>3. ASSUME NEW p \in Procs, PruneStep(p) PROVE status'[c] = "there"
  <2>1. CASE q # p
    <3>1. Active(q) /\ ~Active(p) BY <1>3, <2>1, OthersFrame DEF SameFor, Active, Ended, TakeTurns
    <3>2. Prune(p)
      BY <1>3, <3>1 DEF PruneStep, ListContainers, InspectTarget, InspectSelect, InspectAll, Answer,
         Remove, RemoveFails, AllRemoved, ClearTracking, Killed, Active, Ended
    <3>. QED BY <3>1, <3>2 DEF Prune, MayAct, Calm, Active
  <2>2. CASE q = p
    <3>1. CASE Prune(p) BY <2>2, <3>1 DEF Prune, Goto
    <3>2. CASE ListContainers(p) BY <2>2, <3>2 DEF ListContainers, Goto
    <3>3. CASE InspectTarget(p)
      BY <2>2, <3>3 DEF InspectTarget, OfTarget, Inspected, engineVars
    <3>4. CASE InspectSelect(p)
      <4>1. pc' = [pc EXCEPT ![p] = "idle"] \/ pc' = [pc EXCEPT ![p] = "list"]
        BY <3>4 DEF InspectSelect, Goto
      <4>. QED BY <2>2, <4>1
    <3>5. CASE InspectAll(p) BY <2>2, <3>5 DEF InspectAll, Inspected, engineVars
    <3>6. CASE Answer(p) BY <2>2, <3>6 DEF Answer, ListIsCurrent, engineVars
    <3>7. CASE Remove(p) BY <2>2, <3>7 DEF Remove, ListIsCurrent, IsNext
    <3>8. CASE RemoveFails(p) BY <2>2, <3>8 DEF RemoveFails, Goto
    <3>9. CASE AllRemoved(p) BY <2>2, <3>9 DEF AllRemoved, ListIsCurrent, engineVars
    <3>10. CASE ClearTracking(p) BY <2>2, <3>10 DEF ClearTracking, ListIsCurrent
    <3>11. CASE Killed(p) BY <3>11 DEF Killed
    <3>. QED BY <1>3, <3>1, <3>2, <3>3, <3>4, <3>5, <3>6, <3>7, <3>8, <3>9, <3>10, <3>11 DEF PruneStep
  <2>. QED BY <2>1, <2>2
<1>4. CASE UNCHANGED vars BY <1>4 DEF vars, engineVars, ListIsCurrent
<1>. QED BY <1>1, <1>2, <1>3, <1>4 DEF Next

\* A workspace that has its tracking, or no container, keeps it so while p steps,
\* unless p clears it; one that `prune all` has cleared is emptied.
LEMMA TrackedStep == CInv /\ Calm /\ [Next]_vars => TrackedOrPruned'
<1>. SUFFICES ASSUME CInv, Calm, [Next]_vars, NEW w \in Workspaces
              PROVE  \/ tracked'[w] \/ There(w)' = {}
                     \/ \E p \in Procs : /\ pc'[p] \in {"remove", "clear"} /\ mode'[p] = "all"
                                         /\ There(w)' \subseteq left'[p]
  BY DEF TrackedOrPruned
<1>0. /\ TypeOK /\ PInv /\ TakeTurns /\ ModesOfWorld /\ ListIsCurrent
      /\ \/ tracked[w] \/ There(w) = {}
         \/ \E p \in Procs : pc[p] \in {"remove", "clear"} /\ mode[p] = "all" /\ There(w) \subseteq left[p]
  BY DEF CInv, PInv, TrackedOrPruned
<1>1. ASSUME NEW v \in Workspaces, Start(v)
      PROVE  tracked'[w] \/ There(w)' = {}
  <2>1. tracked[w] \/ There(w) = {} BY <1>0, <1>1 DEF Start, MayAct, Calm, Ended
  <2>2. CASE v = w BY <1>0, <1>1, <2>2 DEF Start, TypeOK
  <2>3. CASE v # w
    <3>1. There(w)' = There(w) BY <1>0, <1>1, <2>3 DEF Start, There, TypeOK
    <3>. QED BY <1>0, <1>1, <2>1, <2>3, <3>1 DEF Start, TypeOK
  <2>. QED BY <2>2, <2>3
<1>2. CASE \E c \in Ids : RemovalEnds(c)
  <2>1. There(w)' \subseteq There(w) BY <1>0, <1>2 DEF RemovalEnds, There, TypeOK
  <2>. QED BY <1>0, <1>2, <2>1 DEF RemovalEnds, historyVars
<1>3. ASSUME NEW p \in Procs, PruneStep(p)
      PROVE  \/ tracked'[w] \/ There(w)' = {}
             \/ /\ pc'[p] \in {"remove", "clear"} /\ mode'[p] = "all"
                /\ There(w)' \subseteq left'[p]
  <2>0. There(w)' \subseteq There(w) BY <1>0, <1>3, OthersFrame DEF There
  <2>1. CASE Prune(p)
    <3>1. tracked[w] \/ There(w) = {} BY <1>0, <2>1 DEF Prune, MayAct, Calm, Ended
    <3>. QED BY <2>0, <2>1, <3>1 DEF Prune, engineVars
  <2>2. CASE ~Prune(p)
    <3>1. pc[p] \notin Ended
      BY <1>3, <2>2 DEF PruneStep, ListContainers, InspectTarget, InspectSelect, InspectAll, Answer,
         Remove, RemoveFails, AllRemoved, ClearTracking, Killed, Ended
    <3>2. touched[p] = {} BY <1>0, <3>1 DEF TakeTurns, Active
    <3>3. \/ tracked[w] \/ There(w) = {}
          \/ pc[p] \in {"remove", "clear"} /\ mode[p] = "all" /\ There(w) \subseteq left[p]
      BY <1>0, <3>1 DEF TakeTurns, Active, Ended
    <3>4. CASE ClearTracking(p)
      <4>1. /\ pc[p] = "clear" /\ UNCHANGED <<status, mode, left>>
            /\ pc'[p] = (IF mode[p] = "all" THEN "remove" ELSE "pruned")
            /\ \A v \in Workspaces \ {target[p]} : tracked'[v] = tracked[v]
        BY <1>0, <3>4 DEF ClearTracking, Goto, TypeOK
      <4>2. There(w)' = There(w) BY <4>1 DEF There
      <4>3. CASE w = target[p]
        <5>1. w \in Unseen(p) \cap Scope(p) BY <3>2, <4>3 DEF Unseen, Scope
        <5>2. There(w) \subseteq (IF mode[p] = "all" THEN left[p] ELSE {})
          BY <1>0, <4>1, <5>1 DEF PInv, ListIsComplete, Clearing
        <5>. QED BY <4>1, <4>2, <5>2
      <4>4. CASE w # target[p] BY <3>3, <4>1, <4>2, <4>4
      <4>. QED BY <4>3, <4>4
    <3>5. CASE Remove(p)
      <4>1. PICK c \in Ids : /\ status' = [status EXCEPT ![c] = "gone"]
                             /\ left' = [left EXCEPT ![p] = @ \ {c}]
                             /\ pc' = pc \/ pc' = [pc EXCEPT ![p] = "clear"]
        BY <3>5 DEF Remove, Goto
      <4>2. There(w)' \subseteq There(w) \ {c} /\ left'[p] = left[p] \ {c}
        BY <1>0, <4>1 DEF There, TypeOK
      <4>3. pc[p] = "remove" /\ pc'[p] \in {"remove", "clear"} /\ UNCHANGED <<tracked, mode>>
        BY <1>0, <3>5, <4>1 DEF Remove, TypeOK
      <4>. QED BY <3>3, <4>2, <4>3
    <3>6. CASE AllRemoved(p)
      <4>1. left[p] = {} /\ tracked' = tracked BY <3>6 DEF AllRemoved, engineVars
      <4>. QED BY <2>0, <3>3, <4>1
    <3>7. CASE RemoveFails(p) \/ Killed(p)
      <4>1. tracked' = tracked BY <3>7 DEF RemoveFails, Killed, engineVars
      <4>2. CASE mode[p] = "all"
        <5>1. "faults" \notin world BY <1>0, <4>2 DEF ModesOfWorld, Calm
        <5>2. FALSE BY <1>0, <3>7, <5>1 DEF RemoveFails, Killed, ListIsCurrent, IsNext
        <5>. QED BY <5>2
      <4>3. CASE mode[p] # "all" BY <2>0, <3>3, <4>1, <4>3
      <4>. QED BY <4>2, <4>3
    <3>8. CASE ~ClearTracking(p) /\ ~Remove(p) /\ ~AllRemoved(p) /\ ~RemoveFails(p) /\ ~Killed(p)
      <4>1. tracked' = tracked /\ pc[p] \notin {"remove", "clear"}
        BY <1>3, <2>2, <3>8 DEF PruneStep, ListContainers, InspectTarget, InspectSelect, InspectAll,
           Answer, engineVars
      <4>. QED BY <2>0, <3>3, <4>1
    <3>. QED BY <3>4, <3>5, <3>6, <3>7, <3>8
  <2>. QED BY <2>1, <2>2
<1>4. CASE UNCHANGED vars
  <2>1. There(w)' = There(w) BY <1>4 DEF vars, engineVars, There
  <2>. QED BY <1>0, <1>4, <2>1 DEF vars, engineVars
<1>. QED BY <1>1, <1>2, <1>3, <1>4 DEF Next

\* A container keeps its workspace's tracking, where commands take turns: through
\* failures unless `prune all` is used, and through `prune all` unless it fails.
THEOREM ContainersStayTracked == Spec => []ContainersAreTracked
<1>1. Init => CInv
  <2>1. Init => TakeTurns /\ ModesOfWorld /\ ListIsCurrent /\ TrackedOrPruned
    BY DEF Init, TakeTurns, ModesOfWorld, ListIsCurrent, TrackedOrPruned, Active, Ended
  <2>2. Init => PInv
    <3>1. Init => \A p \in Procs : ListIsComplete(p)
      BY DEF Init, ListIsComplete, Inspecting, Removing, Clearing, Clears, Cleaned
    <3>. QED BY <3>1, TypeInit DEF PInv
  <2>. QED BY <2>1, <2>2 DEF CInv
<1>2. CInv /\ [Next]_vars => CInv'
  <2>. SUFFICES ASSUME CInv, [Next]_vars PROVE CInv' OBVIOUS
  <2>1. PInv' BY PStep DEF CInv
  <2>2. Calm' <=> Calm BY WorldStays DEF Calm
  <2>. QED BY <2>1, <2>2, TurnsStep, ModesStep, CurrentStep, TrackedStep DEF CInv, PInv
<1>3. CInv => ContainersAreTracked
  BY DEF CInv, Calm, ContainersAreTracked, TrackedWhileThere, TrackedOrPruned, Ended
<1>. QED BY <1>1, <1>2, <1>3, PTL DEF Spec
=============================================================================

--------------------------- MODULE HostLinksProofs ---------------------------
(***************************************************************************)
(* Proofs about HostLinks, for any number of terminals and paths: what a   *)
(* command has found, made and removed so far holds of every path that     *)
(* nobody else has changed since it began.                                 *)
(***************************************************************************)
EXTENDS HostLinks, TLAPS

(***************************************************************************)
(* Types.                                                                  *)
(***************************************************************************)
LEMMA AdvanceType ==
  ASSUME TypeOK, NEW p \in Procs, NEW l \in Steps, NEW again \in Steps, Advance(p, l, again)
  PROVE  /\ at' \in [Procs -> Paths] /\ pc' \in [Procs -> Steps]
         /\ \A q \in Procs \ {p} : at'[q] = at[q] /\ pc'[q] = pc[q]
         /\ \/ at[p] < Last /\ at'[p] = at[p] + 1 /\ pc'[p] = again
            \/ at[p] = Last /\ at'[p] = 1 /\ pc'[p] = l
<1>1. at[p] \in Nat /\ 1 <= at[p] /\ at[p] <= Last /\ Last \in Nat \ {0} /\ 1 \in Paths
  BY LinksAssumption DEF TypeOK, Paths
<1>2. CASE at[p] < Last
  <2>1. at' = [at EXCEPT ![p] = at[p] + 1] /\ pc' = [pc EXCEPT ![p] = again]
    BY <1>2 DEF Advance, Goto
  <2>2. at[p] + 1 \in Paths BY <1>1, <1>2 DEF Paths
  <2>. QED BY <1>2, <2>1, <2>2 DEF TypeOK
<1>3. CASE ~(at[p] < Last)
  <2>1. at' = [at EXCEPT ![p] = 1] /\ pc' = [pc EXCEPT ![p] = l]
    BY <1>3 DEF Advance, Goto
  <2>2. at[p] = Last BY <1>1, <1>3
  <2>. QED BY <1>1, <2>1, <2>2 DEF TypeOK
<1>. QED BY <1>2, <1>3

LEMMA MovedType ==
  ASSUME TypeOK, NEW i \in 0..Last, NEW Own, moved' = Moved(i, Own)
  PROVE  /\ moved' \in [Procs -> SUBSET (0..Last)]
         /\ \A q \in Procs : moved[q] \subseteq moved'[q]
         /\ \A q \in Procs : q \notin Own => i \in moved'[q]
         /\ \A q \in Procs : q \in Own => moved'[q] = moved[q]
BY DEF TypeOK, Moved

LEMMA BeginType ==
  ASSUME TypeOK, NEW p \in Procs, NEW l \in Steps, Begin(p, l)
  PROVE  TypeOK'
BY LinksAssumption DEF Begin, TypeOK, Goto, Paths, diskVars

LEMMA StepNames ==
  /\ {"check", "exists", "ensure", "look", "make", "scan", "unlink"} \subseteq Steps
  /\ {"idle", "refused", "failed", "linked", "unlinked"} \subseteq Steps
BY DEF Steps, Ended

LEMMA PathsAreMoved == Paths \subseteq 0..Last
BY LinksAssumption DEF Paths

LEMMA TypeStep == TypeOK /\ [Next]_vars => TypeOK'
<1>. SUFFICES ASSUME TypeOK, [Next]_vars PROVE TypeOK'
  OBVIOUS
<1>. USE StepNames, PathsAreMoved
<1>1. CASE PathChanges
  <2>. PICK i \in Paths, k \in Kinds : entry' = [entry EXCEPT ![i] = k] /\ moved' = Moved(i, {})
    BY <1>1 DEF PathChanges
  <2>1. moved' \in [Procs -> SUBSET (0..Last)] BY MovedType
  <2>. QED BY <1>1, <2>1 DEF PathChanges, TypeOK
<1>2. CASE SourceRemoved
  <2>1. 0 \in 0..Last BY LinksAssumption
  <2>2. moved' \in [Procs -> SUBSET (0..Last)] BY <1>2, <2>1, MovedType DEF SourceRemoved
  <2>. QED BY <1>2, <2>2 DEF SourceRemoved, TypeOK
<1>3. ASSUME NEW p \in Procs, CommandStep(p) PROVE TypeOK'
  <2>0. at[p] \in Paths BY DEF TypeOK
  <2>1. CASE LinkHost(p) BY <2>1, BeginType DEF LinkHost
  <2>2. CASE CheckResolves(p)
    <3>1. CASE Resolves(at[p])
      <4>1. Advance(p, IF conflict[p] THEN "refused" ELSE "ensure", "check")
        BY <2>2, <3>1 DEF CheckResolves
      <4>2. at' \in [Procs -> Paths] /\ pc' \in [Procs -> Steps] BY <4>1, AdvanceType
      <4>. QED BY <2>2, <4>2 DEF CheckResolves, TypeOK, diskVars, historyVars
    <3>2. CASE ~Resolves(at[p])
      BY <2>2, <3>2 DEF CheckResolves, TypeOK, diskVars, historyVars, Goto
    <3>. QED BY <3>1, <3>2
  <2>3. CASE CheckExists(p)
    <3>. DEFINE found == conflict[p] \/ entry[at[p]] # "absent"
    <3>1. Advance(p, IF found THEN "refused" ELSE "ensure", "check")
          /\ conflict' = [conflict EXCEPT ![p] = found]
      BY <2>3 DEF CheckExists
    <3>2. at' \in [Procs -> Paths] /\ pc' \in [Procs -> Steps] BY <3>1, AdvanceType
    <3>3. found \in BOOLEAN BY DEF TypeOK
    <3>. HIDE DEF found
    <3>. QED BY <2>3, <3>1, <3>2, <3>3 DEF CheckExists, TypeOK, diskVars, historyVars
  <2>4. CASE EnsureSource(p) BY <2>4 DEF EnsureSource, TypeOK, Goto, historyVars
  <2>5. CASE LinkLooks(p)
    <3>1. CASE Resolves(at[p])
      <4>1. at' \in [Procs -> Paths] /\ pc' \in [Procs -> Steps]
        BY <2>5, <3>1, AdvanceType DEF LinkLooks
      <4>. QED BY <2>5, <4>1 DEF LinkLooks, TypeOK, diskVars, historyVars
    <3>2. CASE ~Resolves(at[p])
      BY <2>5, <3>2 DEF LinkLooks, TypeOK, diskVars, historyVars, Goto
    <3>. QED BY <3>1, <3>2
  <2>6. CASE MakeLink(p)
    <3>1. at' \in [Procs -> Paths] /\ pc' \in [Procs -> Steps] BY <2>6, AdvanceType DEF MakeLink
    <3>2. moved' \in [Procs -> SUBSET (0..Last)] BY <2>0, <2>6, MovedType DEF MakeLink
    <3>. QED BY <2>0, <2>6, <3>1, <3>2 DEF MakeLink, TypeOK, Kinds
  <2>7. CASE LinkingFails(p) BY <2>7 DEF LinkingFails, TypeOK, Goto, diskVars, historyVars
  <2>8. CASE UnlinkHost(p) BY <2>8, BeginType DEF UnlinkHost
  <2>9. CASE ScanPath(p)
    <3>1. at' \in [Procs -> Paths] /\ pc' \in [Procs -> Steps] BY <2>9, AdvanceType DEF ScanPath
    <3>. QED BY <2>0, <2>9, <3>1 DEF ScanPath, TypeOK, diskVars, historyVars
  <2>10. CASE UnlinkPath(p)
    <3>1. at' \in [Procs -> Paths] /\ pc' \in [Procs -> Steps] BY <2>10, AdvanceType DEF UnlinkPath
    <3>2. moved' \in [Procs -> SUBSET (0..Last)]
      BY <2>0, <2>10, MovedType DEF UnlinkPath, TypeOK
    <3>. QED BY <2>0, <2>10, <3>1, <3>2 DEF UnlinkPath, TypeOK, Kinds
  <2>11. CASE UnlinkingFails(p) BY <2>11 DEF UnlinkingFails, TypeOK, Goto, diskVars, historyVars
  <2>12. CASE Killed(p) BY <2>12 DEF Killed, TypeOK, Goto, diskVars, historyVars
  <2>. QED BY <1>3, <2>1, <2>2, <2>3, <2>4, <2>5, <2>6, <2>7, <2>8, <2>9, <2>10, <2>11, <2>12
           DEF CommandStep
<1>4. CASE UNCHANGED vars BY <1>4 DEF vars, diskVars, historyVars, TypeOK
<1>. QED BY <1>1, <1>2, <1>3, <1>4 DEF Next

\* Every variable keeps its type, whatever terminals, tools and users do.
THEOREM TypeInvariant == Spec => []TypeOK
<1>1. Init => TypeOK
  BY LinksAssumption DEF Init, TypeOK, Paths, Steps, Ended
<1>. QED BY <1>1, TypeStep, PTL DEF Spec

(***************************************************************************)
(* The invariant: what a command knows of the paths nobody else changed.   *)
(***************************************************************************)
Own(p) == Paths \ moved[p]

\* The paths already checked are free, or a conflict is noted.
CheckedSoFar(p) ==
  pc[p] \in {"check", "exists"} =>
    \A i \in Own(p) : i < at[p] => conflict[p] \/ entry[i] # "file"

\* All paths have been checked.
AllChecked(p) ==
  /\ pc[p] \in {"ensure", "look", "make"} => \A i \in Own(p) : entry[i] # "file"
  /\ pc[p] = "ensure" => at[p] = 1

LinkedSoFar(p) ==
  pc[p] \in {"look", "make"} =>
    /\ source \/ 0 \in moved[p]
    /\ \A i \in Own(p) : i < at[p] => Resolves(i)

NothingMade(p) ==
  pc[p] \in {"check", "exists", "ensure", "scan", "unlink"} => made[p] = {}

ListedSoFar(p) ==
  pc[p] = "scan" => \A i \in Own(p) : i < at[p] /\ entry[i] = "link" => i \in links[p]

LeftToUnlink(p) ==
  pc[p] = "unlink" => \A i \in Own(p) : entry[i] = "link" => i \in links[p] /\ at[p] <= i

EndsWell(p) ==
  /\ made[p] # {} => \A i \in Own(p) : entry[i] # "file"
  /\ pc[p] = "linked" => /\ source \/ 0 \in moved[p]
                         /\ \A i \in Own(p) : Resolves(i)
  /\ pc[p] = "unlinked" => \A i \in Own(p) : entry[i] # "link"

Knows(p) ==
  /\ CheckedSoFar(p) /\ AllChecked(p) /\ LinkedSoFar(p) /\ NothingMade(p)
  /\ ListedSoFar(p) /\ LeftToUnlink(p) /\ EndsWell(p)

\* What a command knows stays true while only others act.
LEMMA OthersAct ==
  ASSUME NEW q \in Procs, Knows(q),
         pc'[q] = pc[q], at'[q] = at[q], conflict'[q] = conflict[q],
         links'[q] = links[q], made'[q] = made[q],
         moved[q] \subseteq moved'[q],
         \A i \in Paths \ moved'[q] : entry'[i] = entry[i],
         source => source' \/ 0 \in moved'[q]
  PROVE  Knows(q)'
BY DEF Knows, CheckedSoFar, AllChecked, LinkedSoFar, NothingMade, ListedSoFar, LeftToUnlink,
       EndsWell, Own, Resolves

KInv == TypeOK /\ \A p \in Procs : Knows(p)

LEMMA BeginKnows ==
  ASSUME KInv, NEW p \in Procs, NEW l \in {"check", "scan"}, Begin(p, l)
  PROVE  \A q \in Procs : Knows(q)'
<1>1. at'[p] = 1 /\ pc'[p] = l /\ made'[p] = {} /\ UNCHANGED diskVars
  BY DEF KInv, TypeOK, Begin, Goto
<1>2. Knows(p)'
  BY <1>1 DEF Knows, CheckedSoFar, AllChecked, LinkedSoFar, NothingMade, ListedSoFar, LeftToUnlink,
              EndsWell, Own, Paths, Resolves
<1>3. ASSUME NEW q \in Procs \ {p} PROVE Knows(q)'
  <2>1. /\ pc'[q] = pc[q] /\ at'[q] = at[q] /\ conflict'[q] = conflict[q]
        /\ links'[q] = links[q] /\ made'[q] = made[q] /\ moved'[q] = moved[q]
    BY DEF KInv, TypeOK, Begin, Goto
  <2>. QED BY <1>1, <2>1, OthersAct DEF KInv, diskVars
<1>. QED BY <1>2, <1>3

LEMMA KnowsStep == KInv /\ [Next]_vars => KInv'
<1>. SUFFICES ASSUME KInv, [Next]_vars PROVE KInv'
  OBVIOUS
<1>0. TypeOK /\ TypeOK' BY TypeStep DEF KInv
<1>. USE StepNames, PathsAreMoved
<1>. SUFFICES \A q \in Procs : Knows(q)'
  BY <1>0 DEF KInv
<1>1. CASE PathChanges
  <2>. PICK i \in Paths, k \in Kinds : entry' = [entry EXCEPT ![i] = k] /\ moved' = Moved(i, {})
    BY <1>1 DEF PathChanges
  <2>0. i \in 0..Last BY PathsAreMoved
  <2>1. \A q \in Procs : moved[q] \subseteq moved'[q] /\ i \in moved'[q]
    BY <1>0, <2>0, MovedType
  <2>2. \A j \in Paths \ {i} : entry'[j] = entry[j] BY <1>0 DEF TypeOK
  <2>. QED BY <1>1, <2>1, <2>2, OthersAct DEF PathChanges, KInv
<1>2. CASE SourceRemoved
  <2>1. 0 \in 0..Last BY LinksAssumption
  <2>2. \A q \in Procs : moved[q] \subseteq moved'[q] /\ 0 \in moved'[q]
    BY <1>0, <1>2, <2>1, MovedType DEF SourceRemoved
  <2>. QED BY <1>2, <2>2, OthersAct DEF SourceRemoved, KInv
<1>3. ASSUME NEW p \in Procs, CommandStep(p) PROVE \A q \in Procs : Knows(q)'
  <2>0. /\ at[p] \in Paths /\ at[p] \in Nat /\ Last \in Nat /\ at[p] <= Last
        /\ Paths \subseteq Nat /\ \A i \in Paths : i <= Last /\ i >= 1
        /\ Knows(p)
    BY <1>0, LinksAssumption DEF TypeOK, Paths, KInv
  <2>1. CASE LinkHost(p) BY <2>1, BeginKnows DEF LinkHost
  <2>2. CASE CheckResolves(p)
    <3>1. CASE Resolves(at[p])
      <4>1. /\ \A q \in Procs \ {p} : at'[q] = at[q] /\ pc'[q] = pc[q]
            /\ \/ at[p] < Last /\ at'[p] = at[p] + 1 /\ pc'[p] = "check"
               \/ /\ at[p] = Last /\ at'[p] = 1
                  /\ pc'[p] = IF conflict[p] THEN "refused" ELSE "ensure"
        <5>1. Advance(p, IF conflict[p] THEN "refused" ELSE "ensure", "check")
          BY <2>2, <3>1 DEF CheckResolves
        <5>. QED BY <1>0, <5>1, AdvanceType
      <4>2. Knows(p)'
        BY <2>0, <2>2, <3>1, <4>1
           DEF CheckResolves, diskVars, historyVars, Knows, CheckedSoFar, AllChecked, LinkedSoFar,
               NothingMade, ListedSoFar, LeftToUnlink, EndsWell, Own, Resolves
      <4>3. \A q \in Procs \ {p} : Knows(q)'
        BY <2>2, <4>1, OthersAct DEF CheckResolves, diskVars, historyVars, KInv
      <4>. QED BY <4>2, <4>3
    <3>2. CASE ~Resolves(at[p])
      <4>1. pc'[p] = "exists" /\ \A q \in Procs \ {p} : pc'[q] = pc[q]
        BY <1>0, <2>2, <3>2 DEF CheckResolves, TypeOK, Goto
      <4>2. Knows(p)'
        BY <2>0, <2>2, <3>2, <4>1
           DEF CheckResolves, diskVars, historyVars, Knows, CheckedSoFar, AllChecked, LinkedSoFar,
               NothingMade, ListedSoFar, LeftToUnlink, EndsWell, Own, Resolves
      <4>3. \A q \in Procs \ {p} : Knows(q)'
        BY <2>2, <3>2, <4>1, OthersAct DEF CheckResolves, diskVars, historyVars, KInv
      <4>. QED BY <4>2, <4>3
    <3>. QED BY <3>1, <3>2
  <2>3. CASE CheckExists(p)
    <3>. DEFINE found == conflict[p] \/ entry[at[p]] # "absent"
    <3>1. Advance(p, IF found THEN "refused" ELSE "ensure", "check")
          /\ conflict' = [conflict EXCEPT ![p] = found]
      BY <2>3 DEF CheckExists
    <3>2. /\ \A q \in Procs \ {p} : at'[q] = at[q] /\ pc'[q] = pc[q] /\ conflict'[q] = conflict[q]
          /\ \/ at[p] < Last /\ at'[p] = at[p] + 1 /\ pc'[p] = "check"
             \/ /\ at[p] = Last /\ at'[p] = 1
                /\ pc'[p] = IF found THEN "refused" ELSE "ensure"
      <4>1. \A q \in Procs \ {p} : conflict'[q] = conflict[q] BY <1>0, <3>1 DEF TypeOK
      <4>. HIDE DEF found
      <4>. QED BY <1>0, <3>1, <4>1, AdvanceType
    <3>3. conflict'[p] = found BY <1>0, <3>1 DEF TypeOK
    <3>. HIDE DEF found
    <3>6. \A i \in Own(p) : i <= at[p] => found \/ entry[i] # "file"
      BY <2>0, <2>3 DEF found, CheckExists, Knows, CheckedSoFar, Own
    <3>4. Knows(p)'
      <4>1. made'[p] = {} /\ Own(p)' = Own(p) /\ UNCHANGED <<entry, source>> /\ pc[p] = "exists"
        BY <2>0, <2>3 DEF CheckExists, diskVars, historyVars, Knows, NothingMade, Own
      <4>2. CASE at[p] < Last
        <5>1. at'[p] = at[p] + 1 /\ pc'[p] = "check" BY <2>0, <3>2, <4>2
        <5>2. \A i \in Own(p) : i < at[p] + 1 => i <= at[p] BY <2>0 DEF Own
        <5>. QED BY <3>3, <3>6, <4>1, <5>1, <5>2 DEF Knows, CheckedSoFar, AllChecked, LinkedSoFar,
               NothingMade, ListedSoFar, LeftToUnlink, EndsWell, Own, Resolves
      <4>3. CASE at[p] = Last
        <5>1. at'[p] = 1 /\ pc'[p] = IF found THEN "refused" ELSE "ensure" BY <2>0, <3>2, <4>3
        <5>2. \A i \in Own(p) : i <= at[p] BY <2>0, <4>3 DEF Own
        <5>3. CASE found BY <3>6, <4>1, <5>1, <5>3 DEF Knows, CheckedSoFar, AllChecked, LinkedSoFar,
               NothingMade, ListedSoFar, LeftToUnlink, EndsWell, Own, Resolves
        <5>4. CASE ~found
          BY <3>6, <4>1, <5>1, <5>2, <5>4 DEF Knows, CheckedSoFar, AllChecked, LinkedSoFar,
               NothingMade, ListedSoFar, LeftToUnlink, EndsWell, Own, Resolves
        <5>. QED BY <5>3, <5>4
      <4>. QED BY <2>0, <4>2, <4>3
    <3>5. \A q \in Procs \ {p} : Knows(q)'
      BY <2>3, <3>2, OthersAct DEF CheckExists, diskVars, historyVars, KInv
    <3>. QED BY <3>4, <3>5
  <2>4. CASE EnsureSource(p)
    <3>1. pc'[p] = "look" /\ \A q \in Procs \ {p} : pc'[q] = pc[q]
      BY <1>0, <2>4 DEF EnsureSource, TypeOK, Goto
    <3>3. Knows(p)'
      BY <2>0, <2>4, <3>1
         DEF EnsureSource, historyVars, Knows, CheckedSoFar, AllChecked, LinkedSoFar,
             NothingMade, ListedSoFar, LeftToUnlink, EndsWell, Own, Resolves
    <3>4. \A q \in Procs \ {p} : Knows(q)'
      BY <2>4, <3>1, OthersAct DEF EnsureSource, historyVars, KInv
    <3>. QED BY <3>3, <3>4
  <2>5. CASE LinkLooks(p)
    <3>1. CASE Resolves(at[p])
      <4>1. /\ \A q \in Procs \ {p} : at'[q] = at[q] /\ pc'[q] = pc[q]
            /\ \/ at[p] < Last /\ at'[p] = at[p] + 1 /\ pc'[p] = "look"
               \/ at[p] = Last /\ at'[p] = 1 /\ pc'[p] = "linked"
        BY <1>0, <2>5, <3>1, AdvanceType DEF LinkLooks
      <4>2. Knows(p)'
        BY <2>0, <2>5, <3>1, <4>1
           DEF LinkLooks, diskVars, historyVars, Knows, CheckedSoFar, AllChecked, LinkedSoFar,
               NothingMade, ListedSoFar, LeftToUnlink, EndsWell, Own, Resolves
      <4>3. \A q \in Procs \ {p} : Knows(q)'
        BY <2>5, <4>1, OthersAct DEF LinkLooks, diskVars, historyVars, KInv
      <4>. QED BY <4>2, <4>3
    <3>2. CASE ~Resolves(at[p])
      <4>1. pc'[p] = "make" /\ \A q \in Procs \ {p} : pc'[q] = pc[q]
        BY <1>0, <2>5, <3>2 DEF LinkLooks, TypeOK, Goto
      <4>2. Knows(p)'
        BY <2>0, <2>5, <3>2, <4>1
           DEF LinkLooks, diskVars, historyVars, Knows, CheckedSoFar, AllChecked, LinkedSoFar,
               NothingMade, ListedSoFar, LeftToUnlink, EndsWell, Own, Resolves
      <4>3. \A q \in Procs \ {p} : Knows(q)'
        BY <2>5, <3>2, <4>1, OthersAct DEF LinkLooks, diskVars, historyVars, KInv
      <4>. QED BY <4>2, <4>3
    <3>. QED BY <3>1, <3>2
  <2>6. CASE MakeLink(p)
    <3>1. /\ \A q \in Procs \ {p} : at'[q] = at[q] /\ pc'[q] = pc[q] /\ made'[q] = made[q]
          /\ \/ at[p] < Last /\ at'[p] = at[p] + 1 /\ pc'[p] = "look"
             \/ at[p] = Last /\ at'[p] = 1 /\ pc'[p] = "linked"
      <4>1. \A q \in Procs \ {p} : made'[q] = made[q] BY <1>0, <2>6 DEF MakeLink, TypeOK
      <4>. QED BY <1>0, <2>6, <4>1, AdvanceType DEF MakeLink
    <3>2. /\ entry'[at[p]] = "link" /\ \A i \in Paths \ {at[p]} : entry'[i] = entry[i]
          /\ moved'[p] = moved[p]
          /\ \A q \in Procs \ {p} : moved[q] \subseteq moved'[q] /\ at[p] \in moved'[q]
      <4>1. entry' = [entry EXCEPT ![at[p]] = "link"] /\ moved' = Moved(at[p], {p})
        BY <2>6 DEF MakeLink
      <4>2. at[p] \in 0..Last BY <2>0
      <4>3. /\ moved'[p] = moved[p]
            /\ \A q \in Procs \ {p} : moved[q] \subseteq moved'[q] /\ at[p] \in moved'[q]
        <5>1. p \in {p} /\ \A q \in Procs \ {p} : q \notin {p} OBVIOUS
        <5>. QED BY <1>0, <4>1, <4>2, <5>1, MovedType
      <4>. QED BY <1>0, <2>0, <4>1, <4>3 DEF TypeOK
    <3>3. Knows(p)'
      <4>1. Own(p)' = Own(p) /\ source' = source /\ pc[p] = "make" BY <2>6, <3>2 DEF MakeLink, Own
      <4>2. \A i \in Own(p) : entry'[i] # "file"
        BY <2>0, <3>2, <4>1 DEF Knows, AllChecked, Own
      <4>3. \A i \in Own(p) : i <= at[p] => Resolves(i)'
        BY <2>0, <3>2, <4>1 DEF Knows, LinkedSoFar, Own, Resolves
      <4>4. source' \/ 0 \in moved'[p] BY <2>0, <3>2, <4>1 DEF Knows, LinkedSoFar
      <4>5. CASE at[p] < Last
        <5>1. at'[p] = at[p] + 1 /\ pc'[p] = "look" BY <2>0, <3>1, <4>5
        <5>2. \A i \in Own(p) : i < at[p] + 1 => i <= at[p] BY <2>0 DEF Own
        <5>. QED BY <4>1, <4>2, <4>3, <4>4, <5>1, <5>2 DEF Knows, CheckedSoFar, AllChecked, LinkedSoFar,
               NothingMade, ListedSoFar, LeftToUnlink, EndsWell, Own, Resolves
      <4>6. CASE at[p] = Last
        <5>1. at'[p] = 1 /\ pc'[p] = "linked" BY <2>0, <3>1, <4>6
        <5>2. \A i \in Own(p) : i <= at[p] BY <2>0, <4>6 DEF Own
        <5>. QED BY <4>1, <4>2, <4>3, <4>4, <5>1, <5>2 DEF Knows, CheckedSoFar, AllChecked, LinkedSoFar,
               NothingMade, ListedSoFar, LeftToUnlink, EndsWell, Own, Resolves
      <4>. QED BY <2>0, <4>5, <4>6
    <3>4. \A q \in Procs \ {p} : Knows(q)'
      BY <2>6, <3>1, <3>2, OthersAct DEF MakeLink, KInv
    <3>. QED BY <3>3, <3>4
  <2>7. CASE LinkingFails(p)
    <3>1. pc'[p] = "failed" /\ \A q \in Procs \ {p} : pc'[q] = pc[q]
      BY <1>0, <2>7 DEF LinkingFails, TypeOK, Goto
    <3>2. Knows(p)'
      BY <2>0, <2>7, <3>1
         DEF LinkingFails, diskVars, historyVars, Knows, CheckedSoFar, AllChecked, LinkedSoFar,
             NothingMade, ListedSoFar, LeftToUnlink, EndsWell, Own, Resolves
    <3>3. \A q \in Procs \ {p} : Knows(q)'
      BY <2>7, <3>1, OthersAct DEF LinkingFails, diskVars, historyVars, KInv
    <3>. QED BY <3>2, <3>3
  <2>8. CASE UnlinkHost(p) BY <2>8, BeginKnows DEF UnlinkHost
  <2>9. CASE ScanPath(p)
    <3>1. /\ \A q \in Procs \ {p} : at'[q] = at[q] /\ pc'[q] = pc[q] /\ links'[q] = links[q]
          /\ \/ at[p] < Last /\ at'[p] = at[p] + 1 /\ pc'[p] = "scan"
             \/ at[p] = Last /\ at'[p] = 1 /\ pc'[p] = "unlink"
      <4>1. \A q \in Procs \ {p} : links'[q] = links[q] BY <1>0, <2>9 DEF ScanPath, TypeOK
      <4>. QED BY <1>0, <2>9, <4>1, AdvanceType DEF ScanPath
    <3>2. links'[p] = IF entry[at[p]] = "link" THEN links[p] \cup {at[p]} ELSE links[p]
      BY <1>0, <2>9 DEF ScanPath, TypeOK
    <3>3. Knows(p)'
      BY <2>0, <2>9, <3>1, <3>2
         DEF ScanPath, diskVars, historyVars, Knows, CheckedSoFar, AllChecked, LinkedSoFar,
             NothingMade, ListedSoFar, LeftToUnlink, EndsWell, Own, Resolves
    <3>4. \A q \in Procs \ {p} : Knows(q)'
      BY <2>9, <3>1, OthersAct DEF ScanPath, diskVars, historyVars, KInv
    <3>. QED BY <3>3, <3>4
  <2>10. CASE UnlinkPath(p)
    <3>1. /\ \A q \in Procs \ {p} : at'[q] = at[q] /\ pc'[q] = pc[q]
          /\ \/ at[p] < Last /\ at'[p] = at[p] + 1 /\ pc'[p] = "unlink"
             \/ at[p] = Last /\ at'[p] = 1 /\ pc'[p] = "unlinked"
      BY <1>0, <2>10, AdvanceType DEF UnlinkPath
    <3>2. /\ \A i \in Paths \ {at[p]} : entry'[i] = entry[i]
          /\ moved'[p] = moved[p]
          /\ \A q \in Procs \ {p} : moved[q] \subseteq moved'[q]
          /\ \A q \in Procs \ {p} : at[p] \in moved'[q] \/ entry'[at[p]] = entry[at[p]]
          /\ at[p] \in links[p] => entry'[at[p]] = "absent"
          /\ at[p] \notin links[p] => entry'[at[p]] = entry[at[p]]
      <4>1. CASE at[p] \in links[p]
        <5>1. entry' = [entry EXCEPT ![at[p]] = "absent"] /\ moved' = Moved(at[p], {p})
          BY <2>10, <4>1 DEF UnlinkPath
        <5>2. at[p] \in 0..Last BY <2>0
        <5>3. /\ moved'[p] = moved[p]
              /\ \A q \in Procs \ {p} : moved[q] \subseteq moved'[q] /\ at[p] \in moved'[q]
          <6>1. p \in {p} /\ \A q \in Procs \ {p} : q \notin {p} OBVIOUS
          <6>. QED BY <1>0, <5>1, <5>2, <6>1, MovedType
        <5>. QED BY <1>0, <2>0, <4>1, <5>1, <5>3 DEF TypeOK
      <4>2. CASE at[p] \notin links[p] BY <2>10, <4>2 DEF UnlinkPath
      <4>. QED BY <4>1, <4>2
    <3>3. Knows(p)'
      BY <2>0, <2>10, <3>1, <3>2
         DEF UnlinkPath, Knows, CheckedSoFar, AllChecked, LinkedSoFar,
             NothingMade, ListedSoFar, LeftToUnlink, EndsWell, Own, Resolves
    <3>4. ASSUME NEW q \in Procs \ {p} PROVE Knows(q)'
      <4>1. \A i \in Paths \ moved'[q] : entry'[i] = entry[i] BY <3>2
      <4>. QED BY <2>10, <3>1, <3>2, <4>1, OthersAct DEF UnlinkPath, KInv
    <3>. QED BY <3>3, <3>4
  <2>11. CASE UnlinkingFails(p)
    <3>1. pc'[p] = "failed" /\ \A q \in Procs \ {p} : pc'[q] = pc[q]
      BY <1>0, <2>11 DEF UnlinkingFails, TypeOK, Goto
    <3>2. Knows(p)'
      BY <2>0, <2>11, <3>1
         DEF UnlinkingFails, diskVars, historyVars, Knows, CheckedSoFar, AllChecked, LinkedSoFar,
             NothingMade, ListedSoFar, LeftToUnlink, EndsWell, Own, Resolves
    <3>3. \A q \in Procs \ {p} : Knows(q)'
      BY <2>11, <3>1, OthersAct DEF UnlinkingFails, diskVars, historyVars, KInv
    <3>. QED BY <3>2, <3>3
  <2>12. CASE Killed(p)
    <3>1. pc'[p] = "idle" /\ \A q \in Procs \ {p} : pc'[q] = pc[q]
      BY <1>0, <2>12 DEF Killed, TypeOK, Goto
    <3>2. Knows(p)'
      BY <2>0, <2>12, <3>1
         DEF Killed, diskVars, historyVars, Knows, CheckedSoFar, AllChecked, LinkedSoFar,
             NothingMade, ListedSoFar, LeftToUnlink, EndsWell, Own, Resolves
    <3>3. \A q \in Procs \ {p} : Knows(q)'
      BY <2>12, <3>1, OthersAct DEF Killed, diskVars, historyVars, KInv
    <3>. QED BY <3>2, <3>3
  <2>. QED BY <1>3, <2>1, <2>2, <2>3, <2>4, <2>5, <2>6, <2>7, <2>8, <2>9, <2>10, <2>11, <2>12
           DEF CommandStep
<1>4. CASE UNCHANGED vars
  BY <1>4, OthersAct DEF vars, diskVars, historyVars, KInv
<1>. QED BY <1>1, <1>2, <1>3, <1>4 DEF Next

\* What each command knows of the paths it has passed is true of those nobody else
\* has touched since (KInv).
THEOREM KnowsInvariant == Spec => []KInv
<1>1. Init => KInv
  <2>. SUFFICES ASSUME Init PROVE KInv OBVIOUS
  <2>1. TypeOK BY LinksAssumption DEF Init, TypeOK, Paths, Steps, Ended
  <2>2. \A p \in Procs : Knows(p)
    BY DEF Init, Knows, CheckedSoFar, AllChecked, LinkedSoFar, NothingMade, ListedSoFar,
           LeftToUnlink, EndsWell
  <2>. QED BY <2>1, <2>2 DEF KInv
<1>. QED BY <1>1, KnowsStep, PTL DEF Spec

\* A link-host that has linked a path has found none of the others in conflict.
THEOREM ConflictsAreFoundFirst == Spec => []ConflictLinksNothing
<1>1. KInv => ConflictLinksNothing BY DEF KInv, Knows, EndsWell, Own, ConflictLinksNothing
<1>. QED BY <1>1, KnowsInvariant, PTL

\* The links a successful link-host promises are there.
THEOREM LinkingIsComplete == Spec => []LinkedIsComplete
<1>1. KInv => LinkedIsComplete BY DEF KInv, Knows, EndsWell, Own, LinkedIsComplete
<1>. QED BY <1>1, KnowsInvariant, PTL

\* A successful unlink-host leaves no link behind.
THEOREM UnlinkingIsComplete == Spec => []UnlinkedIsComplete
<1>1. KInv => UnlinkedIsComplete BY DEF KInv, Knows, EndsWell, Own, UnlinkedIsComplete
<1>. QED BY <1>1, KnowsInvariant, PTL

(***************************************************************************)
(* Files survive unless somebody else saves one while a command runs.      *)
(***************************************************************************)
LinksAreNoFiles ==
  \A p \in Procs : pc[p] \in {"scan", "unlink"} => \A i \in links[p] : entry[i] \notin {"file", "same"}

SInv == TypeOK /\ LinksAreNoFiles

\* A command neither makes such a path nor changes one.
LEMMA CommandsKeepFiles ==
  ASSUME SInv, NEW p \in Procs, CommandStep(p)
  PROVE  \A i \in Paths :
           entry[i] \in {"file", "same"} \/ entry'[i] \in {"file", "same"} => entry'[i] = entry[i]
<1>0. at[p] \in Paths BY DEF SInv, TypeOK
<1>1. CASE MakeLink(p) BY <1>0, <1>1 DEF MakeLink, SInv, TypeOK
<1>2. CASE UnlinkPath(p)
  <2>1. CASE at[p] \in links[p]
    <3>1. entry[at[p]] \notin {"file", "same"} BY <1>2, <2>1 DEF UnlinkPath, SInv, LinksAreNoFiles
    <3>2. entry' = [entry EXCEPT ![at[p]] = "absent"] BY <1>2, <2>1 DEF UnlinkPath
    <3>. QED BY <1>0, <3>1, <3>2 DEF SInv, TypeOK
  <2>2. CASE at[p] \notin links[p] BY <1>2, <2>2 DEF UnlinkPath
  <2>. QED BY <2>1, <2>2
<1>3. CASE ~MakeLink(p) /\ ~UnlinkPath(p)
  <2>1. entry' = entry
    BY <1>3 DEF CommandStep, LinkHost, UnlinkHost, Begin, CheckResolves, CheckExists, EnsureSource,
                LinkLooks, LinkingFails, ScanPath, UnlinkingFails, Killed, diskVars
  <2>. QED BY <2>1
<1>. QED BY <1>1, <1>2, <1>3

LEMMA OwnListHasNoFile ==
  ASSUME SInv, NEW p \in Procs, CommandStep(p)
  PROVE  /\ pc'[p] \in {"scan", "unlink"} => \A i \in links'[p] : entry[i] \notin {"file", "same"}
         /\ \A q \in Procs \ {p} : pc'[q] = pc[q] /\ links'[q] = links[q]
<1>. USE DEF SInv, TypeOK, LinksAreNoFiles
<1>. USE StepNames
<1>1. CASE LinkHost(p) \/ UnlinkHost(p) BY <1>1 DEF LinkHost, UnlinkHost, Begin, Goto
<1>2. CASE CheckResolves(p)
  <2>1. pc[p] = "check" /\ links' = links /\ \/ pc' = [pc EXCEPT ![p] = "check"]
                                             \/ pc' = [pc EXCEPT ![p] = "refused"]
                                             \/ pc' = [pc EXCEPT ![p] = "ensure"]
                                             \/ pc' = [pc EXCEPT ![p] = "exists"]
    BY <1>2 DEF CheckResolves, Advance, Goto
  <2>. QED BY <2>1
<1>3. CASE CheckExists(p)
  <2>1. links' = links /\ \/ pc' = [pc EXCEPT ![p] = "check"]
                          \/ pc' = [pc EXCEPT ![p] = "refused"]
                          \/ pc' = [pc EXCEPT ![p] = "ensure"]
    BY <1>3 DEF CheckExists, Advance, Goto
  <2>. QED BY <2>1
<1>4. CASE EnsureSource(p) BY <1>4 DEF EnsureSource, Goto
<1>5. CASE LinkLooks(p)
  <2>1. links' = links /\ \/ pc' = [pc EXCEPT ![p] = "look"]
                          \/ pc' = [pc EXCEPT ![p] = "linked"]
                          \/ pc' = [pc EXCEPT ![p] = "make"]
    BY <1>5 DEF LinkLooks, Advance, Goto
  <2>. QED BY <2>1
<1>6. CASE MakeLink(p)
  <2>1. links' = links /\ \/ pc' = [pc EXCEPT ![p] = "look"]
                          \/ pc' = [pc EXCEPT ![p] = "linked"]
    BY <1>6 DEF MakeLink, Advance, Goto
  <2>. QED BY <2>1
<1>7. CASE LinkingFails(p) BY <1>7 DEF LinkingFails, Goto
<1>8. CASE ScanPath(p)
  <2>1. /\ pc[p] = "scan"
        /\ links' = [links EXCEPT ![p] = IF entry[at[p]] = "link" THEN @ \cup {at[p]} ELSE @]
        /\ pc' = [pc EXCEPT ![p] = "scan"] \/ pc' = [pc EXCEPT ![p] = "unlink"]
    BY <1>8 DEF ScanPath, Advance, Goto
  <2>. QED BY <2>1
<1>9. CASE UnlinkPath(p)
  <2>1. /\ pc[p] = "unlink" /\ links' = links
        /\ pc' = [pc EXCEPT ![p] = "unlink"] \/ pc' = [pc EXCEPT ![p] = "unlinked"]
    BY <1>9 DEF UnlinkPath, Advance, Goto
  <2>. QED BY <2>1
<1>10. CASE UnlinkingFails(p) BY <1>10 DEF UnlinkingFails, Goto
<1>11. CASE Killed(p) BY <1>11 DEF Killed, Goto
<1>. QED BY <1>1, <1>2, <1>3, <1>4, <1>5, <1>6, <1>7, <1>8, <1>9, <1>10, <1>11 DEF CommandStep

LEMMA SInvStep == ~MidRun /\ SInv /\ [Next]_vars => SInv'
<1>. SUFFICES ASSUME ~MidRun, SInv, [Next]_vars PROVE SInv'
  OBVIOUS
<1>0. TypeOK /\ TypeOK' BY TypeStep DEF SInv
<1>1. CASE PathChanges
  <2>1. \A q \in Procs : pc'[q] \in Ended BY <1>1 DEF PathChanges, AllEnded
  <2>. QED BY <1>0, <2>1 DEF SInv, LinksAreNoFiles, Ended
<1>2. CASE SourceRemoved BY <1>0, <1>2 DEF SourceRemoved, SInv, LinksAreNoFiles
<1>3. ASSUME NEW p \in Procs, CommandStep(p) PROVE SInv'
  <2>1. \A i \in Paths : entry'[i] \in {"file", "same"} => entry'[i] = entry[i]
    BY <1>3, CommandsKeepFiles
  <2>2. \A q \in Procs : links'[q] \subseteq Paths BY <1>0 DEF TypeOK
  <2>3. \A q \in Procs : pc'[q] \in {"scan", "unlink"} => \A i \in links'[q] : entry[i] \notin {"file", "same"}
    BY <1>3, OwnListHasNoFile DEF SInv, LinksAreNoFiles
  <2>. QED BY <1>0, <2>1, <2>2, <2>3 DEF SInv, LinksAreNoFiles
<1>4. CASE UNCHANGED vars BY <1>0, <1>4 DEF vars, diskVars, historyVars, SInv, LinksAreNoFiles
<1>. QED BY <1>1, <1>2, <1>3, <1>4 DEF Next

\* No command touches a file that is not dcman's link, the source at a tool path
\* included, unless one is saved over a link between the moment unlink-host lists
\* it and the moment it removes it.
THEOREM FilesAreSafe == ASSUME ~MidRun PROVE Spec => FilesSurvive
<1>1. Init => SInv
  BY LinksAssumption DEF Init, SInv, TypeOK, LinksAreNoFiles, Paths, Steps, Ended
<1>2. SInv /\ [Next]_vars =>
        [\A p \in Procs : CommandStep(p) =>
           \A i \in Paths : entry[i] \in {"file", "same"} => entry'[i] = entry[i]]_vars
  BY CommandsKeepFiles
<1>3. ~MidRun => (SInv /\ [Next]_vars => SInv') BY SInvStep
<1>4. ~MidRun OBVIOUS
<1>5. SInv /\ [Next]_vars => SInv' BY <1>3, <1>4
<1>. QED BY <1>1, <1>2, <1>5, PTL DEF Spec, FilesSurvive
=============================================================================

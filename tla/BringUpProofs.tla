---------------------------- MODULE BringUpProofs ----------------------------
(***************************************************************************)
(* Proofs about BringUp, for any invocations and ports: the types, and     *)
(* with one command at a time the lockfile, the port, the server and the   *)
(* host key, whatever fails or is killed.                                  *)
(***************************************************************************)
EXTENDS BringUp, TLAPS

Act(p) == UpStep(p) \/ SshStep(p) \/ Fails(p) \/ Crash(p)

(***************************************************************************)
(* Types.                                                                  *)
(***************************************************************************)
LEMMA TypeInit == Init => TypeOK
<1>. SUFFICES ASSUME Init PROVE TypeOK
  OBVIOUS
<1>1. Fresh \in Locals BY DEF Fresh, Locals, PortOrNone, ContainerOrNone
<1>. QED
  BY <1>1 DEF Init, TypeOK, Labels, Ended, PortOrNone, ContainerOrNone

\* What p decides for itself.
LEMMA OwnTypes ==
  ASSUME TypeOK, NEW p \in Procs, Act(p)
  PROVE  pc' \in [Procs -> Labels] /\ my' \in [Procs -> Locals]
<1>. USE DEF TypeOK, Locals, ContainerOrNone, PortOrNone, Goto, Labels, Ended
<1>1. ASSUME NEW c \in {"start", "rebuild", "prune"}, Launch(p, c)
      PROVE  pc' \in [Procs -> Labels] /\ my' \in [Procs -> Locals]
  <2>1. my' \in [Procs -> Locals]
    <3>1. PICK recreate \in BOOLEAN, lockfile \in BOOLEAN :
            my' = [my EXCEPT ![p] = [Fresh EXCEPT !.cmd = c, !.recreate = recreate,
                                                  !.lockfile = lockfile]]
      BY <1>1 DEF Launch
    <3>2. [Fresh EXCEPT !.cmd = c, !.recreate = recreate, !.lockfile = lockfile] \in Locals
      BY DEF Fresh
    <3>. QED BY <3>1, <3>2
  <2>. QED BY <1>1, <2>1 DEF Launch
<1>2. CASE ListContainers(p) BY <1>2 DEF ListContainers
<1>3. CASE AllocSshPort(p) BY <1>3 DEF AllocSshPort, AfterPort
<1>4. CASE SaveSshPort(p) BY <1>4 DEF SaveSshPort, AfterPort
<1>5. CASE RepairStaleEntries(p) BY <1>5 DEF RepairStaleEntries
<1>6. CASE LookForLockfile(p) BY <1>6 DEF LookForLockfile
<1>7. CASE DevcontainerUp(p) BY <1>7 DEF DevcontainerUp
<1>8. CASE DevcontainerUpFails(p) BY <1>8 DEF DevcontainerUpFails
<1>9. CASE DeleteCreatedLockfile(p) BY <1>9 DEF DeleteCreatedLockfile
<1>10. CASE WaitForContainer(p)
  <2>1. Found \in ContainerOrNone BY DEF Found
  <2>2. MustClear(p, Found) \in BOOLEAN BY DEF MustClear
  <2>3. my[p] \in Locals OBVIOUS
  <2>4. [my[p] EXCEPT !.target = Found, !.clear = MustClear(p, Found)] \in Locals
    BY <2>1, <2>2, <2>3
  <2>5. my' = [my EXCEPT ![p] = [my[p] EXCEPT !.target = Found, !.clear = MustClear(p, Found)]]
    BY <1>10, Zenon DEF WaitForContainer
  <2>6. my' \in [Procs -> Locals] BY <2>4, <2>5
  <2>. QED BY <1>10, <2>6 DEF WaitForContainer
<1>11. CASE FindContainer(p)
  <2>1. Found \in ContainerOrNone BY DEF Found
  <2>. QED BY <1>11, <2>1 DEF FindContainer
<1>12. CASE ClearKnownHost(p) BY <1>12 DEF ClearKnownHost
<1>13. CASE AuthorizeKey(p) BY <1>13 DEF AuthorizeKey
<1>14. CASE StartDropbear(p) BY <1>14 DEF StartDropbear
<1>15. CASE Connect(p) BY <1>15 DEF Connect
<1>16. CASE PruneRemove(p) BY <1>16 DEF PruneRemove
<1>17. CASE PruneRemoveFails(p) BY <1>17 DEF PruneRemoveFails
<1>18. CASE PruneForget(p) BY <1>18 DEF PruneForget
<1>19. CASE Fails(p) BY <1>19 DEF Fails, CutOff
<1>20. CASE Crash(p) BY <1>20 DEF Crash, CutOff
<1>. QED
  BY <1>1, <1>2, <1>3, <1>4, <1>5, <1>6, <1>7, <1>8, <1>9, <1>10, <1>11, <1>12, <1>13, <1>14,
     <1>15, <1>16, <1>17, <1>18, <1>19, <1>20 DEF Act, UpStep, SshStep

LEMMA TypeStep == TypeOK /\ [Next]_vars => TypeOK'
<1>. SUFFICES ASSUME TypeOK, [Next]_vars PROVE TypeOK'
  OBVIOUS
<1>. USE ConstantsAssumption DEF container, history
<1>1. ASSUME NEW p \in Procs, Act(p) PROVE TypeOK'
  <2>1. pc' \in [Procs -> Labels] /\ my' \in [Procs -> Locals] BY <1>1, OwnTypes
  <2>2. my[p] \in Locals BY DEF TypeOK
  <2>. USE <2>1, <2>2 DEF TypeOK, ContainerOrNone, PortOrNone
  <2>3. my[p].env \in Ports \cup {None} BY DEF Locals
  <2>4. ASSUME NEW c \in {"start", "rebuild", "prune"}, Launch(p, c) PROVE TypeOK'
    BY <2>4 DEF Launch
  <2>5. CASE ListContainers(p) BY <2>5 DEF ListContainers
  <2>6. CASE AllocSshPort(p) BY <2>6 DEF AllocSshPort
  <2>7. CASE SaveSshPort(p) BY <2>3, <2>7 DEF SaveSshPort
  <2>8. CASE RepairStaleEntries(p) BY <2>8 DEF RepairStaleEntries
  <2>9. CASE LookForLockfile(p) BY <2>9 DEF LookForLockfile
  <2>10. lock' \in BOOLEAN /\ wanted' \in BOOLEAN
         /\ my[p].lockfile \in BOOLEAN /\ my[p].existed \in BOOLEAN
    <3>1. my[p].lockfile \in BOOLEAN /\ my[p].existed \in BOOLEAN BY DEF Locals
    <3>2. CASE UNCHANGED <<lock, wanted>> BY <3>1, <3>2
    <3>3. CASE MayWriteLockfile(p) BY <3>1, <3>3 DEF MayWriteLockfile
    <3>4. CASE DeleteCreatedLockfile(p) BY <3>1, <3>4 DEF DeleteCreatedLockfile
    <3>. QED
      BY <1>1, <3>2, <3>3, <3>4
      DEF Act, UpStep, SshStep, Launch, ListContainers, AllocSshPort, SaveSshPort,
          RepairStaleEntries, LookForLockfile, DevcontainerUp, DevcontainerUpFails,
          WaitForContainer, FindContainer, ClearKnownHost, AuthorizeKey, StartDropbear, Connect,
          PruneRemove, PruneRemoveFails, PruneForget, Fails, Crash
  <2>11. CASE DevcontainerUp(p) BY <2>3, <2>10, <2>11 DEF DevcontainerUp, CreateContainer
  <2>12. CASE DevcontainerUpFails(p)
    <3>. USE <2>3, <2>10, <2>12
    <3>1. CASE UNCHANGED container BY <3>1 DEF DevcontainerUpFails
    <3>2. CASE RemoveContainer BY <3>2 DEF DevcontainerUpFails, RemoveContainer
    <3>3. CASE CreateContainer(p) BY <3>3 DEF DevcontainerUpFails, CreateContainer
    <3>. QED BY <3>1, <3>2, <3>3 DEF DevcontainerUpFails
  <2>13. CASE DeleteCreatedLockfile(p) BY <2>10, <2>13 DEF DeleteCreatedLockfile
  <2>14. CASE WaitForContainer(p) BY <2>14 DEF WaitForContainer
  <2>15. CASE FindContainer(p) BY <2>15 DEF FindContainer
  <2>16. CASE ClearKnownHost(p) BY <2>16 DEF ClearKnownHost
  <2>17. CASE AuthorizeKey(p) BY <2>17 DEF AuthorizeKey
  <2>18. CASE StartDropbear(p) BY <2>18 DEF StartDropbear, Reachable
  <2>19. CASE Connect(p) BY <2>19 DEF Connect, Meet
  <2>20. CASE PruneRemove(p) BY <2>20 DEF PruneRemove, RemoveContainer
  <2>21. CASE PruneRemoveFails(p)
    <3>1. CASE UNCHANGED <<stale, container>> BY <2>21, <3>1 DEF PruneRemoveFails
    <3>2. CASE RemoveContainer /\ stale' = TRUE BY <2>21, <3>2 DEF PruneRemoveFails, RemoveContainer
    <3>. QED BY <2>21, <3>1, <3>2 DEF PruneRemoveFails
  <2>22. CASE PruneForget(p) BY <2>22 DEF PruneForget
  <2>23. CASE Fails(p) BY <2>23 DEF Fails
  <2>24. CASE Crash(p) BY <2>24 DEF Crash
  <2>. QED
    BY <1>1, <2>4, <2>5, <2>6, <2>7, <2>8, <2>9, <2>11, <2>12, <2>13, <2>14, <2>15, <2>16, <2>17,
       <2>18, <2>19, <2>20, <2>21, <2>22, <2>23, <2>24 DEF Act, UpStep, SshStep
<1>2. CASE ContainerStops BY <1>2 DEF ContainerStops, TypeOK
<1>3. CASE EditorReconnects BY <1>3 DEF EditorReconnects, Meet, TypeOK, ContainerOrNone
<1>4. CASE UserChangesLockfile BY <1>4 DEF UserChangesLockfile, TypeOK
<1>5. CASE UNCHANGED vars BY <1>5 DEF vars, TypeOK
<1>. QED BY <1>1, <1>2, <1>3, <1>4, <1>5 DEF Next, Act, Environment

\* TypeOK holds of every reachable state, whatever fails or overlaps.
THEOREM TypeInvariant == Spec => []TypeOK
BY TypeInit, TypeStep, PTL DEF Spec

(***************************************************************************)
(* One command at a time.                                                  *)
(***************************************************************************)
Active(p) == pc[p] \notin Ended

OneActs == \A p, q \in Procs : p # q /\ Active(p) => ~Active(q)

\* While p takes a step, the others have not begun or are over.
LEMMA OthersRest ==
  ASSUME ~Overlap, TypeOK, OneActs, NEW p \in Procs, Act(p)
  PROVE  /\ \A q \in Procs \ {p} : pc[q] \in Ended /\ pc'[q] = pc[q] /\ my'[q] = my[q]
         /\ OneActs'
<1>. USE DEF TypeOK, Goto
<1>1. \A q \in Procs \ {p} : pc[q] \in Ended
  <2>1. CASE \E c \in {"start", "rebuild", "prune"} : Launch(p, c)
    BY <2>1 DEF Launch, MayAct
  <2>2. CASE Active(p) BY <2>2 DEF OneActs, Active
  <2>. QED
    BY <2>1, <2>2
    DEF Act, Active, Ended, UpStep, SshStep, ListContainers, AllocSshPort, SaveSshPort,
        RepairStaleEntries, LookForLockfile, DevcontainerUp, DevcontainerUpFails,
        DeleteCreatedLockfile, WaitForContainer, FindContainer, ClearKnownHost, AuthorizeKey,
        StartDropbear, Connect, PruneRemove, PruneRemoveFails, PruneForget, Fails, Crash
<1>2. \A q \in Procs \ {p} : pc'[q] = pc[q]
  BY DEF Act, UpStep, SshStep, Launch, ListContainers, AllocSshPort, SaveSshPort,
        RepairStaleEntries, LookForLockfile, DevcontainerUp, DevcontainerUpFails,
        DeleteCreatedLockfile, WaitForContainer, FindContainer, ClearKnownHost, AuthorizeKey,
        StartDropbear, Connect, PruneRemove, PruneRemoveFails, PruneForget, Fails, Crash, CutOff
<1>3. \A q \in Procs \ {p} : my'[q] = my[q]
  BY DEF Act, UpStep, SshStep, Launch, ListContainers, AllocSshPort, SaveSshPort,
        RepairStaleEntries, LookForLockfile, DevcontainerUp, DevcontainerUpFails,
        DeleteCreatedLockfile, WaitForContainer, FindContainer, ClearKnownHost, AuthorizeKey,
        StartDropbear, Connect, PruneRemove, PruneRemoveFails, PruneForget, Fails, Crash
<1>. QED BY <1>1, <1>2, <1>3 DEF OneActs, Active

(***************************************************************************)
(* The lockfile.                                                           *)
(***************************************************************************)
\* From the look at the lockfile to its deletion, p knows whether one is to stay:
\* one that nobody asked for was there before only if an earlier run was killed.
LockSeen(p) ==
  /\ pc[p] = "cli" => my[p].existed = lock
  /\ pc[p] = "unlock" =>
       /\ wanted => my[p].existed \/ my[p].lockfile
       /\ lock /\ ~wanted /\ (my[p].existed \/ my[p].lockfile) => \E q \in Procs : pc[q] = "left"

LockInv ==
  OneActs /\ WantedLockfileStays /\ NoStrayLockfile /\ \A p \in Procs : LockSeen(p)

LEMMA LockInit == Init => LockInv
BY DEF Init, LockInv, OneActs, Active, Ended, WantedLockfileStays, NoStrayLockfile, LockSeen

\* p's own step.
LEMMA LockAct ==
  ASSUME ~Overlap, TypeOK, TypeOK', LockInv, NEW p \in Procs, Act(p)
  PROVE  LockInv'
<1>1. /\ \A q \in Procs \ {p} : pc[q] \in Ended /\ pc'[q] = pc[q] /\ my'[q] = my[q]
      /\ OneActs'
  BY OthersRest DEF LockInv
<1>2. \A q \in Procs \ {p} : LockSeen(q)'
  BY <1>1 DEF LockSeen, Ended
<1>3. my[p].existed \in BOOLEAN /\ my[p].lockfile \in BOOLEAN BY DEF TypeOK, Locals
<1>4. SUFFICES (WantedLockfileStays /\ NoStrayLockfile /\ LockSeen(p))'
  BY <1>1, <1>2 DEF LockInv
<1>. USE <1>3 DEF TypeOK, Goto, WantedLockfileStays, NoStrayLockfile, LockSeen
<1>5. lock /\ ~wanted /\ pc[p] \notin {"unlock", "left"} =>
        \E q \in Procs : q # p /\ pc[q] = "left" /\ pc'[q] = "left"
  BY <1>1 DEF LockInv, Ended
<1>6. ASSUME UNCHANGED <<lock, wanted>>, pc[p] \notin {"unlock", "left"},
             pc'[p] \notin {"cli", "unlock"}
      PROVE  (WantedLockfileStays /\ NoStrayLockfile /\ LockSeen(p))'
  BY <1>5, <1>6 DEF LockInv
<1>. USE DEF history, container
<1>7. CASE LookForLockfile(p)
  BY <1>5, <1>7 DEF LookForLockfile, LockInv
<1>8. CASE DevcontainerUp(p) \/ DevcontainerUpFails(p)
  <2>1. pc[p] = "cli" /\ pc'[p] = "unlock" /\ MayWriteLockfile(p)
    BY <1>8 DEF DevcontainerUp, DevcontainerUpFails
  <2>2. my'[p].existed = my[p].existed /\ my'[p].lockfile = my[p].lockfile
    BY <1>8 DEF DevcontainerUp, DevcontainerUpFails, Locals
  <2>. QED BY <1>5, <2>1, <2>2 DEF LockInv, MayWriteLockfile
<1>9. CASE DeleteCreatedLockfile(p)
  BY <1>1, <1>9 DEF DeleteCreatedLockfile, LockInv
<1>10. CASE Fails(p) \/ Crash(p)
  <2>1. CASE pc[p] = "unlock"
    BY <1>10, <2>1 DEF Fails, Crash, CutOff, LockInv
  <2>. QED BY <1>6, <1>10, <2>1 DEF Fails, Crash, CutOff, Ended
<1>. QED
  BY <1>6, <1>7, <1>8, <1>9, <1>10
  DEF Act, UpStep, SshStep, Launch, ListContainers, AllocSshPort, SaveSshPort, AfterPort,
      RepairStaleEntries, WaitForContainer, FindContainer, ClearKnownHost, AuthorizeKey,
      StartDropbear, Connect, PruneRemove, PruneRemoveFails, PruneForget

LEMMA LockStep ==
  ASSUME ~Overlap PROVE TypeOK /\ TypeOK' /\ LockInv /\ [Next]_vars => LockInv'
<1>. SUFFICES ASSUME TypeOK, TypeOK', LockInv, [Next]_vars PROVE LockInv'
  OBVIOUS
<1>1. CASE UNCHANGED <<pc, my, lock, wanted>>
  BY <1>1 DEF LockInv, OneActs, Active, WantedLockfileStays, NoStrayLockfile, LockSeen
<1>2. CASE UserChangesLockfile
  BY <1>2 DEF UserChangesLockfile, LockInv, OneActs, Active, Ended, WantedLockfileStays,
              NoStrayLockfile, LockSeen, TypeOK
<1>. QED
  BY <1>1, <1>2, LockAct
  DEF Next, Act, Environment, ContainerStops, EditorReconnects, history, vars

\* What a run between the CLI and the deletion knows of the lockfile (LockInv) holds
\* in every reachable state of commands that do not overlap.
THEOREM LockInvariant == ASSUME ~Overlap PROVE Spec => [](TypeOK /\ LockInv)
<1>1. TypeOK /\ TypeOK' /\ LockInv /\ [Next]_vars => LockInv' BY LockStep
<1>. QED BY <1>1, LockInit, TypeInvariant, PTL DEF Spec

\* Without overlapping commands, dcman deletes no lockfile that the user or a
\* --lockfile run wants ...
THEOREM WantedLockfileIsKept == ASSUME ~Overlap PROVE Spec => []WantedLockfileStays
<1>1. LockInv => WantedLockfileStays BY DEF LockInv
<1>. QED BY <1>1, LockInvariant, PTL

\* ... and leaves none behind that nobody asked for, unless a run was killed
\* between the Dev Container CLI and the deletion.
THEOREM NoLockfileIsLeft == ASSUME ~Overlap PROVE Spec => []NoStrayLockfile
<1>1. LockInv => NoStrayLockfile BY DEF LockInv
<1>. QED BY <1>1, LockInvariant, PTL

(***************************************************************************)
(* The port and the server.                                                *)
(***************************************************************************)
\* The stored port is the only one in use ...
HasPort(p) ==
  /\ pc[p] \in {"repair", "look", "cli", "unlock", "wait", "find", "clear", "key", "sshd",
                "connect", "open"} => my[p].env = port /\ port # None
  /\ pc[p] = "save" => port = None /\ my[p].env # None

\* ... and the container has it.
PubPort == cid # None => pub = port /\ pub # None

ServerUp(p) ==
  Reachable(p) => /\ pc[p] \in {"sshd", "connect"} => keyed
                  /\ pc[p] = "connect" => sshd

PortInv ==
  OneActs /\ PubPort /\ \A p \in Procs : HasPort(p) /\ ServerUp(p)

LEMMA PortInit == Init => PortInv
BY DEF Init, PortInv, OneActs, Active, Ended, PubPort, HasPort, ServerUp, Reachable

LEMMA PortAct ==
  ASSUME ~Overlap, TypeOK, TypeOK', PortInv, NEW p \in Procs, Act(p)
  PROVE  PortInv'
<1>1. /\ \A q \in Procs \ {p} : pc[q] \in Ended /\ pc'[q] = pc[q] /\ my'[q] = my[q]
      /\ OneActs'
  BY OthersRest DEF PortInv
<1>2. \A q \in Procs \ {p} : (HasPort(q) /\ ServerUp(q))'
  BY <1>1 DEF HasPort, ServerUp, Ended
<1>3. my[p] \in Locals BY DEF TypeOK
<1>4. SUFFICES (PubPort /\ HasPort(p) /\ ServerUp(p))'
  BY <1>1, <1>2 DEF PortInv
<1>5. PubPort /\ HasPort(p) /\ ServerUp(p) BY DEF PortInv
<1>. USE <1>5 DEF TypeOK, Goto, PubPort, HasPort, ServerUp, Reachable, container, history
\* Steps that neither set the port nor touch the container.
<1>6. ASSUME UNCHANGED <<port, stale, container>>, my'[p] = my[p],
             \/ pc[p] = "look" /\ pc'[p] = "cli"
             \/ pc'[p] \in {"list", "port", "remove", "done", "short", "left"}
      PROVE  (PubPort /\ HasPort(p) /\ ServerUp(p))'
  BY <1>6
<1>7. ASSUME NEW c \in {"start", "rebuild", "prune"}, Launch(p, c)
      PROVE  (PubPort /\ HasPort(p) /\ ServerUp(p))'
  BY <1>7 DEF Launch
<1>8. CASE ListContainers(p) BY <1>8 DEF ListContainers
<1>9. CASE AllocSshPort(p)
  <2>1. CASE port # None BY <1>3, <1>9, <2>1 DEF AllocSshPort, AfterPort, Locals
  <2>2. CASE port = None BY <1>3, <1>9, <2>2, ConstantsAssumption DEF AllocSshPort, Locals
  <2>. QED BY <2>1, <2>2
<1>10. CASE SaveSshPort(p) BY <1>10 DEF SaveSshPort, AfterPort
<1>11. CASE RepairStaleEntries(p) BY <1>11 DEF RepairStaleEntries
<1>12. CASE LookForLockfile(p) BY <1>3, <1>12 DEF LookForLockfile, Locals
<1>13. CASE DevcontainerUp(p)
  BY <1>3, <1>13 DEF DevcontainerUp, CreateContainer
<1>14. CASE DevcontainerUpFails(p)
  <2>1. my'[p].env = my[p].env BY <1>3, <1>14 DEF DevcontainerUpFails, Locals
  <2>2. CASE UNCHANGED container BY <1>14, <2>1, <2>2 DEF DevcontainerUpFails
  <2>3. CASE RemoveContainer BY <1>14, <2>1, <2>3 DEF DevcontainerUpFails, RemoveContainer
  <2>4. CASE CreateContainer(p) BY <1>14, <2>1, <2>4 DEF DevcontainerUpFails, CreateContainer
  <2>. QED BY <1>14, <2>2, <2>3, <2>4 DEF DevcontainerUpFails
<1>15. CASE DeleteCreatedLockfile(p) BY <1>15 DEF DeleteCreatedLockfile
<1>16. CASE WaitForContainer(p)
  <2>1. my'[p].env = my[p].env BY <1>3, <1>16 DEF WaitForContainer, Locals
  <2>. QED BY <1>16, <2>1 DEF WaitForContainer
<1>17. CASE FindContainer(p)
  <2>1. my'[p].env = my[p].env BY <1>3, <1>17 DEF FindContainer, Locals
  <2>. QED BY <1>17, <2>1 DEF FindContainer
<1>18. CASE ClearKnownHost(p) BY <1>18 DEF ClearKnownHost
<1>19. CASE AuthorizeKey(p) BY <1>19 DEF AuthorizeKey
<1>20. CASE StartDropbear(p) BY <1>20 DEF StartDropbear
<1>21. CASE Connect(p) BY <1>6, <1>21 DEF Connect
<1>22. CASE PruneRemove(p) BY <1>22 DEF PruneRemove, RemoveContainer
<1>23. CASE PruneRemoveFails(p)
  <2>1. CASE UNCHANGED <<stale, container>> BY <1>6, <1>23, <2>1 DEF PruneRemoveFails
  <2>2. CASE RemoveContainer BY <1>23, <2>2 DEF PruneRemoveFails, RemoveContainer
  <2>. QED BY <1>23, <2>1, <2>2 DEF PruneRemoveFails
<1>24. CASE PruneForget(p) BY <1>6, <1>24 DEF PruneForget
<1>25. CASE Fails(p) BY <1>6, <1>25 DEF Fails, CutOff
<1>26. CASE Crash(p) BY <1>6, <1>26 DEF Crash, CutOff
<1>. QED
  BY <1>7, <1>8, <1>9, <1>10, <1>11, <1>12, <1>13, <1>14, <1>15, <1>16, <1>17, <1>18, <1>19,
     <1>20, <1>21, <1>22, <1>23, <1>24, <1>25, <1>26 DEF Act, UpStep, SshStep

LEMMA PortStep ==
  ASSUME ~Overlap PROVE TypeOK /\ TypeOK' /\ PortInv /\ [Next]_vars => PortInv'
<1>. SUFFICES ASSUME TypeOK, TypeOK', PortInv, [Next]_vars PROVE PortInv'
  OBVIOUS
<1>1. CASE UNCHANGED <<pc, my, port, stale, container>>
  BY <1>1 DEF PortInv, OneActs, Active, PubPort, HasPort, ServerUp, Reachable, container
<1>2. CASE ContainerStops
  BY <1>2 DEF ContainerStops, PortInv, OneActs, Active, PubPort, HasPort, ServerUp,
              Reachable
<1>. QED
  BY <1>1, <1>2, PortAct
  DEF Next, Act, Environment, EditorReconnects, UserChangesLockfile, history, vars

\* The stored port, the published one and the commands' copies of it agree (PortInv)
\* in every reachable state of commands that do not overlap.
THEOREM PortInvariant == ASSUME ~Overlap PROVE Spec => [](TypeOK /\ PortInv)
<1>1. TypeOK /\ TypeOK' /\ PortInv /\ [Next]_vars => PortInv' BY PortStep
<1>. QED BY <1>1, PortInit, TypeInvariant, PTL DEF Spec

\* Without overlapping commands, a container publishes the port state.json has,
\* for its whole life, whatever fails or is killed.
THEOREM PortIsStable == ASSUME ~Overlap PROVE Spec => []PublishesStoredPort
<1>1. PortInv => PublishesStoredPort BY DEF PortInv, PubPort, PublishesStoredPort
<1>. QED BY <1>1, PortInvariant, PTL

\* ... and a bootstrap that came through leads an editor to a container that
\* answers, whatever stopped before it.
THEOREM BootstrapAnswers == ASSUME ~Overlap PROVE Spec => []EndpointAnswers
<1>1. TypeOK /\ PortInv => EndpointAnswers
  BY ConstantsAssumption
  DEF TypeOK, PortInv, PubPort, EndpointAnswers, HasPort, ServerUp, Reachable
<1>. QED BY <1>1, PortInvariant, PTL

(***************************************************************************)
(* The host key.                                                           *)
(***************************************************************************)
\* wait_for_container found p a container.
Bound(p) == my[p].target # None

\* p has not come through the Dev Container CLI ...
Before(p) ==
  \/ pc[p] \in {"idle", "list", "repair", "look", "cli"}
  \/ pc[p] \in {"port", "save"} /\ ~Bound(p)

\* ... or it has, and not yet through clear_known_host.
WillClear(p) ==
  \/ pc[p] \in {"unlock", "wait", "find", "clear"}
  \/ pc[p] \in {"port", "save"} /\ Bound(p)

\* If the container is p's, p knows that it is new.
KnowsNew(p) ==
  /\ Before(p) => cid # p /\ p \notin cleared /\ my[p].prev # p
  /\ pc[p] \in {"unlock", "wait"} => my[p].prev # p
  /\ pc[p] = "find" /\ cid = p => my[p].clear \/ ~running
  /\ pc[p] \in {"port", "save"} /\ Bound(p) /\ cid = p => my[p].clear
  /\ pc[p] = "clear" /\ cid = p => my[p].clear
  /\ pc[p] = "idle" => ~Bound(p)

\* A key of an earlier container stays only until the command that created this
\* one clears it; it may have been killed before.
KnownIsFresh ==
  cid # None => \/ known[pub] \in {None, cid}
                \/ cid \notin cleared /\ (WillClear(cid) \/ pc[cid] \in {"short", "left"})

KeyInv == KnownIsFresh /\ \A p \in Procs : KnowsNew(p)

LEMMA KeyInit == Init => KeyInv
BY ConstantsAssumption
DEF Init, KeyInv, KnownIsFresh, KnowsNew, Before, Bound, Fresh

LEMMA KeyAct ==
  ASSUME ~Overlap, TypeOK, TypeOK', PortInv, KeyInv, NEW p \in Procs, Act(p)
  PROVE  KeyInv'
<1>1. \A q \in Procs \ {p} : pc[q] \in Ended /\ pc'[q] = pc[q] /\ my'[q] = my[q]
  BY OthersRest DEF PortInv
<1>2. cid' \in {cid, p, None} /\ cleared' \subseteq cleared \cup {p}
  BY DEF Act, UpStep, SshStep, Launch, ListContainers, AllocSshPort, SaveSshPort,
         RepairStaleEntries, LookForLockfile, DevcontainerUp, DevcontainerUpFails,
         DeleteCreatedLockfile, WaitForContainer, FindContainer, ClearKnownHost, AuthorizeKey,
         StartDropbear, Connect, PruneRemove, PruneRemoveFails, PruneForget, Fails, Crash,
         CreateContainer, RemoveContainer, container, history
<1>3. \A q \in Procs \ {p} : KnowsNew(q)'
  <2>1. SUFFICES ASSUME NEW q \in Procs \ {p} PROVE KnowsNew(q)'
    OBVIOUS
  <2>2. pc'[q] = pc[q] /\ my'[q] = my[q] /\ pc[q] \in Ended BY <1>1
  <2>3. KnowsNew(q) BY DEF KeyInv
  <2>4. pc[q] = "idle" => cid' # q /\ q \notin cleared' /\ my'[q].prev # q /\ ~Bound(q)'
    BY <1>2, <2>2, <2>3, ConstantsAssumption DEF KnowsNew, Before, Bound
  <2>. QED BY <2>2, <2>4 DEF KnowsNew, Before, Ended
<1>4. my[p] \in Locals BY DEF TypeOK
<1>5. SUFFICES KnownIsFresh' /\ KnowsNew(p)'
  BY <1>3 DEF KeyInv
<1>6. KnownIsFresh /\ KnowsNew(p) BY DEF KeyInv
<1>7. pc[p] \in {"unlock", "wait", "find", "clear"} => my[p].env = port /\ port # None
  BY DEF PortInv, HasPort
<1>8. cid # None => pub = port /\ pub \in Ports /\ cid \in Procs
  BY DEF PortInv, PubPort, TypeOK, PortOrNone, ContainerOrNone
<1>. USE ConstantsAssumption
<1>. USE <1>6 DEF Goto
\* The container and known_hosts stay, and p does not come past clear_known_host.
<1>9. ASSUME UNCHANGED <<cid, pub, known, cleared>>,
             WillClear(p) => WillClear(p)' \/ pc'[p] \in {"short", "left"},
             pc[p] \notin {"short", "left"}
      PROVE  KnownIsFresh'
  <2>1. CASE cid = p BY <1>9, <2>1 DEF KnownIsFresh
  <2>2. CASE cid # p
    <3>1. cid # None => pc'[cid] = pc[cid] /\ my'[cid] = my[cid] BY <1>1, <1>8, <2>2
    <3>. QED BY <1>9, <3>1 DEF KnownIsFresh, WillClear, Bound
  <2>. QED BY <2>1, <2>2
<1>. USE DEF TypeOK, container, history
<1>10. ASSUME NEW c \in {"start", "rebuild", "prune"}, Launch(p, c)
       PROVE  KnownIsFresh' /\ KnowsNew(p)'
  <2>1. my'[p].prev = None /\ my'[p].target = None BY <1>10 DEF Launch, Fresh
  <2>2. pc'[p] \in {"list", "port", "remove"} BY <1>10 DEF Launch
  <2>3. KnowsNew(p)' BY <1>10, <2>1, <2>2 DEF Launch, KnowsNew, Before, Bound
  <2>. QED BY <1>9, <1>10, <2>3 DEF Launch, WillClear
<1>11. CASE ListContainers(p)
  <2>1. my'[p].prev = cid /\ my'[p].target = my[p].target
    BY <1>4, <1>11 DEF ListContainers, Locals
  <2>2. KnowsNew(p)' BY <1>11, <2>1 DEF ListContainers, KnowsNew, Before, Bound
  <2>. QED BY <1>9, <1>11, <2>2 DEF ListContainers, WillClear
<1>12. CASE AllocSshPort(p) \/ SaveSshPort(p)
  <2>1. /\ my'[p].prev = my[p].prev /\ my'[p].target = my[p].target
        /\ my'[p].clear = my[p].clear
    BY <1>4, <1>12 DEF AllocSshPort, SaveSshPort, Locals
  <2>2. /\ pc[p] \in {"port", "save"}
        /\ pc'[p] \in {"save", IF my[p].target = None THEN "repair" ELSE "clear"}
        /\ UNCHANGED <<cid, running, pub, known, cleared>>
    BY <1>12 DEF AllocSshPort, SaveSshPort, AfterPort
  <2>3. KnowsNew(p)' BY <2>1, <2>2 DEF KnowsNew, Before, Bound
  <2>4. WillClear(p) => WillClear(p)' BY <2>1, <2>2 DEF WillClear, Bound
  <2>. QED BY <1>9, <2>2, <2>3, <2>4
<1>13. CASE RepairStaleEntries(p) \/ LookForLockfile(p)
  <2>1. my'[p].prev = my[p].prev /\ pc[p] \in {"repair", "look"} /\ pc'[p] \in {"look", "cli"}
    BY <1>4, <1>13 DEF RepairStaleEntries, LookForLockfile, Locals
  <2>2. KnowsNew(p)'
    BY <1>13, <2>1 DEF RepairStaleEntries, LookForLockfile, KnowsNew, Before
  <2>3. ~WillClear(p) BY <2>1 DEF WillClear
  <2>. QED BY <1>9, <1>13, <2>1, <2>2, <2>3 DEF RepairStaleEntries, LookForLockfile
<1>14. CASE DevcontainerUp(p) \/ DevcontainerUpFails(p)
  <2>1. /\ my'[p].prev = my[p].prev /\ pc[p] = "cli" /\ pc'[p] = "unlock"
        /\ UNCHANGED <<known, cleared>>
    BY <1>4, <1>14 DEF DevcontainerUp, DevcontainerUpFails, Locals
  <2>2. KnowsNew(p)' BY <2>1 DEF KnowsNew, Before
  <2>3. ~WillClear(p) /\ WillClear(p)' BY <2>1 DEF WillClear
  <2>4. p \notin cleared' BY <2>1 DEF KnowsNew, Before
  <2>5. (UNCHANGED <<cid, pub>>) \/ cid' = None \/ cid' = p
    BY <1>14 DEF DevcontainerUp, DevcontainerUpFails, CreateContainer, RemoveContainer
  <2>6. KnownIsFresh'
    <3>1. CASE UNCHANGED <<cid, pub>> BY <1>9, <2>1, <2>3, <3>1
    <3>2. CASE cid' \in {None, p} BY <2>3, <2>4, <3>2 DEF KnownIsFresh
    <3>. QED BY <2>5, <3>1, <3>2
  <2>. QED BY <2>2, <2>6
<1>15. CASE DeleteCreatedLockfile(p)
  <2>1. KnowsNew(p)' BY <1>15 DEF DeleteCreatedLockfile, KnowsNew, Before
  <2>. QED BY <1>9, <1>15, <2>1 DEF DeleteCreatedLockfile, WillClear
<1>16. CASE WaitForContainer(p)
  <2>1. my'[p].clear = MustClear(p, Found) BY <1>4, <1>16 DEF WaitForContainer, Locals
  <2>2. running /\ cid = p => my'[p].clear
    BY <1>16, <2>1 DEF WaitForContainer, MustClear, Found, KnowsNew
  <2>3. KnowsNew(p)' BY <1>16, <2>2 DEF WaitForContainer, KnowsNew, Before
  <2>. QED BY <1>9, <1>16, <2>3 DEF WaitForContainer, WillClear
<1>17. CASE FindContainer(p)
  <2>1. my'[p].clear = my[p].clear /\ my'[p].target = Found
    BY <1>4, <1>17 DEF FindContainer, Locals
  <2>2. /\ pc[p] = "find" /\ pc'[p] \in {"short", "clear", "port"}
        /\ pc'[p] # "short" => running
        /\ UNCHANGED <<cid, running, pub, known, cleared>>
    BY <1>17 DEF FindContainer
  <2>3. running => Bound(p)' BY <1>8, <2>1 DEF Found, Bound
  <2>4. KnowsNew(p)' BY <2>1, <2>2, <2>3 DEF KnowsNew, Before
  <2>. QED BY <1>9, <2>2, <2>3, <2>4 DEF WillClear
<1>18. CASE ClearKnownHost(p)
  <2>1. KnowsNew(p)' BY <1>18 DEF ClearKnownHost, KnowsNew, Before
  <2>2. CASE my[p].clear BY <1>7, <1>8, <1>18, <2>1, <2>2 DEF ClearKnownHost, KnownIsFresh
  <2>3. CASE ~my[p].clear
    <3>1. cid # p BY <1>18, <2>3 DEF ClearKnownHost, KnowsNew
    <3>2. cid # None => pc'[cid] = pc[cid] /\ my'[cid] = my[cid] BY <1>1, <1>8, <3>1
    <3>. QED
      BY <1>18, <2>1, <2>3, <3>2 DEF ClearKnownHost, KnownIsFresh, WillClear, Bound
  <2>. QED BY <2>1, <2>2, <2>3
<1>19. CASE AuthorizeKey(p) \/ StartDropbear(p)
  <2>1. KnowsNew(p)' BY <1>19 DEF AuthorizeKey, StartDropbear, KnowsNew, Before
  <2>2. ~WillClear(p) BY <1>19 DEF AuthorizeKey, StartDropbear, WillClear
  <2>. QED BY <1>9, <1>19, <2>1, <2>2 DEF AuthorizeKey, StartDropbear
<1>20. CASE Connect(p)
  <2>1. KnowsNew(p)' BY <1>20 DEF Connect, KnowsNew, Before
  <2>2. /\ UNCHANGED <<cid, pub, cleared>>
        /\ known'[pub] \in {known[pub], cid} \/ UNCHANGED known
    BY <1>20 DEF Connect, Meet
  <2>3. cid # None /\ cid # p => pc'[cid] = pc[cid] /\ my'[cid] = my[cid] BY <1>1, <1>8
  <2>4. pc[p] \in {"connect", "open"} BY <1>20 DEF Connect
  <2>. QED BY <2>1, <2>2, <2>3, <2>4 DEF KnownIsFresh, WillClear, Bound
<1>21. CASE PruneRemove(p) \/ PruneRemoveFails(p)
  <2>1. KnowsNew(p)' BY <1>21 DEF PruneRemove, PruneRemoveFails, KnowsNew, Before
  <2>2. pc[p] = "remove" /\ ~WillClear(p) /\ UNCHANGED <<known, cleared>>
    BY <1>21 DEF PruneRemove, PruneRemoveFails, WillClear
  <2>3. cid' = None \/ UNCHANGED <<cid, pub>>
    BY <1>21 DEF PruneRemove, PruneRemoveFails, RemoveContainer
  <2>. QED BY <1>9, <2>1, <2>2, <2>3 DEF KnownIsFresh
<1>22. CASE PruneForget(p)
  <2>1. KnowsNew(p)' BY <1>22 DEF PruneForget, KnowsNew, Before
  <2>. QED BY <1>8, <1>22, <2>1 DEF PruneForget, KnownIsFresh
<1>23. CASE Fails(p) \/ Crash(p)
  <2>1. /\ pc[p] \notin Ended /\ pc'[p] \in {"short", "left"}
        /\ UNCHANGED <<cid, pub, known, cleared, my>>
    BY <1>23 DEF Fails, Crash, CutOff, Ended
  <2>2. KnowsNew(p)' BY <2>1 DEF KnowsNew, Before
  <2>. QED BY <1>9, <2>1, <2>2 DEF Ended
<1>. QED
  BY <1>10, <1>11, <1>12, <1>13, <1>14, <1>15, <1>16, <1>17, <1>18, <1>19, <1>20, <1>21, <1>22,
     <1>23 DEF Act, UpStep, SshStep

LEMMA KeyStep ==
  ASSUME ~Overlap
  PROVE  TypeOK /\ TypeOK' /\ PortInv /\ KeyInv /\ [Next]_vars => KeyInv'
<1>. SUFFICES ASSUME TypeOK, TypeOK', PortInv, KeyInv, [Next]_vars PROVE KeyInv'
  OBVIOUS
<1>. USE DEF KeyInv, KnownIsFresh, KnowsNew, Before, WillClear, Bound
<1>1. CASE UNCHANGED <<pc, my, container, known, cleared>> BY <1>1 DEF container
<1>2. CASE ContainerStops BY <1>2 DEF ContainerStops, history
<1>3. CASE EditorReconnects
  <2>1. pub \in Ports => known'[pub] \in {known[pub], cid}
    BY <1>3 DEF EditorReconnects, Meet, TypeOK
  <2>2. cid # None => pub \in Ports BY DEF PortInv, PubPort, TypeOK, PortOrNone
  <2>. QED BY <1>3, <2>1, <2>2 DEF EditorReconnects, container, history
<1>. QED
  BY <1>1, <1>2, <1>3, KeyAct
  DEF Next, Act, Environment, UserChangesLockfile, history, vars

\* Without overlapping commands, an editor about to connect finds no key of an
\* earlier container in known_hosts, unless the command that created the
\* container was itself cut short before it cleared it.
THEOREM HostKeyIsRight == ASSUME ~Overlap PROVE Spec => []KnownHostIsFresh
<1>1. TypeOK /\ TypeOK' /\ PortInv /\ [Next]_vars => PortInv' BY PortStep
<1>2. TypeOK /\ TypeOK' /\ PortInv /\ KeyInv /\ [Next]_vars => KeyInv' BY KeyStep
<1>3. TypeOK /\ PortInv /\ KeyInv => KnownHostIsFresh
  <2>. SUFFICES ASSUME TypeOK, PortInv, KeyInv,
                       NEW p \in Procs, pc[p] \in {"connect", "open"}, Reachable(p),
                       cid \notin CutShort
                PROVE  known[my[p].env] \in {None, cid}
    BY DEF KnownHostIsFresh
  <2>1. cid \in Procs /\ cid # None BY ConstantsAssumption DEF TypeOK, Reachable
  <2>2. my[p].env = pub BY <2>1 DEF PortInv, HasPort, PubPort
  <2>3. ~WillClear(cid)
    <3>1. CASE cid = p BY <3>1 DEF WillClear
    <3>2. CASE cid # p BY <2>1, <3>2 DEF PortInv, OneActs, Active, Ended, WillClear
    <3>. QED BY <3>1, <3>2
  <2>. QED BY <2>1, <2>2, <2>3 DEF KeyInv, KnownIsFresh, CutShort
<1>. QED BY <1>1, <1>2, <1>3, PortInit, KeyInit, TypeInvariant, PTL DEF Spec

(***************************************************************************)
(* A key the user knows.                                                   *)
(***************************************************************************)
\* known_hosts has no key of c.
Unmet(c) == \A q \in Ports : known[q] # c

\* The container is p's, or the one p found and did not mean to replace.
Came(p) == cid = p \/ (cid = my[p].prev /\ ~my[p].recreate)

\* p clears known_hosts only of a container that is its own, and that nobody has
\* met yet; a prune clears it when there is no container.
ClearsOwn(p) ==
  /\ Before(p) => Unmet(p)
  /\ WillClear(p) /\ cid = p => Unmet(p) /\ ~sshd
  /\ pc[p] \in {"repair", "look", "cli"} \/ (pc[p] \in {"port", "save"} /\ ~Bound(p)) =>
       my[p].recreate \/ cid = my[p].prev
  /\ (pc[p] = "unlock" /\ my[p].ok) \/ pc[p] = "wait" => Came(p)
  /\ pc[p] \in {"find", "clear"} \/ (pc[p] \in {"port", "save"} /\ Bound(p)) =>
       (my[p].clear => cid = p)
  /\ pc[p] = "list" => ~Bound(p)
  /\ pc[p] = "forget" => cid = None

KeepInv == \A p \in Procs : ClearsOwn(p)

LEMMA KeepInit == Init => KeepInv
BY ConstantsAssumption
DEF Init, KeepInv, ClearsOwn, Before, WillClear, Bound, Unmet, Came, Fresh

LEMMA KeepAct ==
  ASSUME ~Overlap, TypeOK, TypeOK', PortInv, KeyInv, KeepInv, NEW p \in Procs, Act(p)
  PROVE  KeepInv'
<1>1. \A q \in Procs \ {p} : pc[q] \in Ended /\ pc'[q] = pc[q] /\ my'[q] = my[q]
  BY OthersRest DEF PortInv
<1>2. my[p] \in Locals BY DEF TypeOK
<1>3. KnowsNew(p) /\ ClearsOwn(p) BY DEF KeyInv, KeepInv
<1>. USE ConstantsAssumption
\* Only a step that meets the container writes a key, and it is the container's.
<1>4. \A c \in Procs : Unmet(c) /\ ~Unmet(c)' => c = cid /\ pc[p] \in {"connect", "open"}
  BY DEF Act, UpStep, SshStep, Launch, ListContainers, AllocSshPort, SaveSshPort,
         RepairStaleEntries, LookForLockfile, DevcontainerUp, DevcontainerUpFails,
         DeleteCreatedLockfile, WaitForContainer, FindContainer, ClearKnownHost, AuthorizeKey,
         StartDropbear, Connect, PruneRemove, PruneRemoveFails, PruneForget, Fails, Crash,
         Unmet, Meet, TypeOK
<1>5. \A q \in Procs \ {p} : ClearsOwn(q)'
  <2>1. SUFFICES ASSUME NEW q \in Procs \ {p} PROVE ClearsOwn(q)'
    OBVIOUS
  <2>2. pc'[q] = pc[q] /\ my'[q] = my[q] /\ pc[q] \in Ended BY <1>1
  <2>3. KnowsNew(q) /\ ClearsOwn(q) BY DEF KeyInv, KeepInv
  <2>4. pc[q] = "idle" => Unmet(q)' BY <1>4, <2>3 DEF KnowsNew, ClearsOwn, Before
  <2>. QED BY <2>2, <2>4 DEF ClearsOwn, Before, WillClear, Bound, Ended
<1>6. SUFFICES ClearsOwn(p)'
  BY <1>5 DEF KeepInv
<1>. USE <1>3 DEF Goto, TypeOK, container, history
\* p's container stays as it is, and p stays on its side of the Dev Container CLI.
<1>7. ASSUME UNCHANGED <<known, cid, sshd>>, pc[p] \notin {"connect", "open"},
             Before(p)' => Before(p), WillClear(p)' => WillClear(p)
      PROVE  /\ Before(p)' => Unmet(p)'
             /\ WillClear(p)' /\ cid' = p => Unmet(p)' /\ ~sshd'
  BY <1>7 DEF ClearsOwn, Unmet
<1>8. CASE \E c \in {"start", "rebuild", "prune"} : Launch(p, c)
  <2>1. PICK c \in {"start", "rebuild", "prune"} : Launch(p, c) BY <1>8
  <2>2. my'[p].target = None BY <2>1 DEF Launch, Fresh
  <2>4. c = "rebuild" => my'[p].recreate = TRUE BY <2>1 DEF Launch, Fresh
  <2>3. pc[p] = "idle" /\ pc'[p] = (CASE c = "start" -> "list" [] c = "rebuild" -> "port"
                                      [] c = "prune" -> "remove")
    BY <2>1 DEF Launch
  <2>. QED
    BY <2>1, <2>2, <2>3, <2>4 DEF Launch, ClearsOwn, Before, WillClear, Bound, Unmet
<1>9. CASE ListContainers(p)
  <2>1. my'[p].prev = cid /\ my'[p].target = my[p].target
    BY <1>2, <1>9 DEF ListContainers, Locals
  <2>. QED BY <1>9, <2>1 DEF ListContainers, ClearsOwn, Before, WillClear, Bound, Unmet
<1>10. CASE AllocSshPort(p) \/ SaveSshPort(p)
  <2>1. /\ my'[p].prev = my[p].prev /\ my'[p].target = my[p].target
        /\ my'[p].clear = my[p].clear /\ my'[p].recreate = my[p].recreate
    BY <1>2, <1>10 DEF AllocSshPort, SaveSshPort, Locals
  <2>2. /\ pc[p] \in {"port", "save"}
        /\ pc'[p] \in {"save", IF my[p].target = None THEN "repair" ELSE "clear"}
        /\ UNCHANGED <<cid, sshd, known>>
    BY <1>10 DEF AllocSshPort, SaveSshPort, AfterPort
  <2>. QED BY <1>7, <2>1, <2>2 DEF ClearsOwn, Before, WillClear, Bound
<1>11. CASE RepairStaleEntries(p) \/ LookForLockfile(p)
  <2>1. /\ my'[p].prev = my[p].prev /\ my'[p].recreate = my[p].recreate
        /\ pc[p] \in {"repair", "look"} /\ pc'[p] \in {"look", "cli"}
        /\ UNCHANGED <<cid, sshd, known>>
    BY <1>2, <1>11 DEF RepairStaleEntries, LookForLockfile, Locals
  <2>. QED BY <1>7, <2>1 DEF ClearsOwn, Before, WillClear
<1>12. CASE DevcontainerUp(p)
  <2>1. pc[p] = "cli" /\ pc'[p] = "unlock" /\ UNCHANGED <<known, my>> BY <1>12 DEF DevcontainerUp
  <2>2. \/ cid' = p /\ ~sshd'
        \/ ~my[p].recreate /\ cid' = cid
    BY <1>12 DEF DevcontainerUp, CreateContainer
  <2>3. cid # p /\ Unmet(p)' BY <2>1 DEF KnowsNew, ClearsOwn, Before, Unmet
  <2>. QED BY <2>1, <2>2, <2>3 DEF ClearsOwn, Before, WillClear, Came
<1>13. CASE DevcontainerUpFails(p)
  <2>1. pc[p] = "cli" /\ pc'[p] = "unlock" /\ UNCHANGED known /\ ~my'[p].ok
    BY <1>2, <1>13 DEF DevcontainerUpFails, Locals
  <2>2. cid' = None \/ (cid' = p /\ ~sshd') \/ cid' = cid
    BY <1>13 DEF DevcontainerUpFails, CreateContainer, RemoveContainer
  <2>3. cid # p /\ Unmet(p)' BY <2>1 DEF KnowsNew, ClearsOwn, Before, Unmet
  <2>. QED BY <2>1, <2>2, <2>3 DEF ClearsOwn, Before, WillClear
<1>14. CASE DeleteCreatedLockfile(p)
  <2>1. pc[p] = "unlock" /\ pc'[p] \in {"wait", "short"} /\ (pc'[p] = "wait" => my[p].ok)
    BY <1>14 DEF DeleteCreatedLockfile
  <2>. QED
    BY <1>14, <2>1 DEF DeleteCreatedLockfile, ClearsOwn, Before, WillClear, Came, Unmet
<1>15. CASE WaitForContainer(p)
  <2>1. /\ my'[p].clear = MustClear(p, Found) /\ pc[p] = "wait" /\ pc'[p] = "find"
        /\ UNCHANGED <<cid, sshd, known>>
    BY <1>2, <1>15 DEF WaitForContainer, Locals
  <2>2. my'[p].clear => cid = p
    BY <2>1 DEF ClearsOwn, Came, MustClear, Found
  <2>. QED BY <1>7, <2>1, <2>2 DEF ClearsOwn, Before, WillClear
<1>16. CASE FindContainer(p)
  <2>1. my'[p].clear = my[p].clear /\ my'[p].target = Found
    BY <1>2, <1>16 DEF FindContainer, Locals
  <2>2. /\ pc[p] = "find" /\ pc'[p] \in {"short", "clear", "port"}
        /\ pc'[p] # "short" => running
        /\ UNCHANGED <<cid, sshd, known>>
    BY <1>16 DEF FindContainer
  <2>3. running => Bound(p)' BY <2>1 DEF Found, Bound, TypeOK
  <2>. QED BY <2>1, <2>2, <2>3 DEF ClearsOwn, Before, WillClear, Unmet
<1>17. CASE PruneRemove(p) \/ PruneRemoveFails(p)
  BY <1>17 DEF PruneRemove, PruneRemoveFails, RemoveContainer, ClearsOwn, Before, WillClear
\* p has no more to clear.
<1>18. ASSUME pc'[p] \in {"key", "sshd", "connect", "open", "done", "short", "left"}
       PROVE  ClearsOwn(p)'
  BY <1>18 DEF ClearsOwn, Before, WillClear
<1>19. ClearKnownHost(p) \/ AuthorizeKey(p) \/ StartDropbear(p) \/ Connect(p) \/ PruneForget(p)
         \/ Fails(p) \/ Crash(p) =>
         pc'[p] \in {"key", "sshd", "connect", "open", "done", "short", "left"}
  BY DEF ClearKnownHost, AuthorizeKey, StartDropbear, Connect, PruneForget, Fails, Crash, CutOff
<1>. QED
  BY <1>8, <1>9, <1>10, <1>11, <1>12, <1>13, <1>14, <1>15, <1>16, <1>17, <1>18, <1>19
  DEF Act, UpStep, SshStep

LEMMA KeepStep ==
  ASSUME ~Overlap
  PROVE  TypeOK /\ TypeOK' /\ PortInv /\ KeyInv /\ KeepInv /\ [Next]_vars => KeepInv'
<1>. SUFFICES ASSUME TypeOK, TypeOK', PortInv, KeyInv, KeepInv, [Next]_vars PROVE KeepInv'
  OBVIOUS
<1>. USE DEF KeepInv, ClearsOwn, Before, WillClear, Bound, Came, Unmet
<1>1. CASE UNCHANGED <<pc, my, container, known>> BY <1>1 DEF container
<1>2. CASE ContainerStops BY <1>2 DEF ContainerStops
<1>3. CASE EditorReconnects
  <2>1. sshd /\ UNCHANGED <<pc, my, container>> /\ \A q \in Ports : known'[q] \in {known[q], cid}
    BY <1>3 DEF EditorReconnects, Meet, TypeOK
  <2>. QED BY <2>1 DEF KeyInv, KnowsNew, container
<1>. QED
  BY <1>1, <1>2, <1>3, KeepAct
  DEF Next, Act, Environment, UserChangesLockfile, history, vars

\* Without overlapping commands, no command makes an SSH client forget a container
\* that is still there, whatever was restarted, failed or was killed before.
THEOREM KnownKeysAreKept == ASSUME ~Overlap PROVE Spec => KnownKeyStays
<1> DEFINE Keeps == \A q \in Ports : known[q] # None /\ known[q] = cid => known'[q] = cid
<1>1. TypeOK /\ TypeOK' /\ PortInv /\ [Next]_vars => PortInv' BY PortStep
<1>2. TypeOK /\ TypeOK' /\ PortInv /\ KeyInv /\ [Next]_vars => KeyInv' BY KeyStep
<1>3. TypeOK /\ TypeOK' /\ PortInv /\ KeyInv /\ KeepInv /\ [Next]_vars => KeepInv' BY KeepStep
<1>4. TypeOK /\ KeepInv /\ [Next]_vars => [Keeps]_vars
  <2>. SUFFICES ASSUME TypeOK, KeepInv, Next PROVE Keeps
    OBVIOUS
  <2>1. ASSUME NEW p \in Procs, ClearKnownHost(p) PROVE Keeps
    <3>1. my[p].clear => cid = p /\ Unmet(p)
      BY <2>1 DEF ClearKnownHost, KeepInv, ClearsOwn, WillClear
    <3>. QED BY <2>1, <3>1 DEF ClearKnownHost, Unmet, TypeOK
  <2>2. ASSUME NEW p \in Procs, PruneForget(p) PROVE Keeps
    BY <2>2 DEF PruneForget, KeepInv, ClearsOwn
  <2>3. CASE (\E p \in Procs : Connect(p)) \/ EditorReconnects
    BY <2>3 DEF Connect, EditorReconnects, Meet, TypeOK
  <2>4. CASE UNCHANGED known BY <2>4
  <2>. QED
    BY <2>1, <2>2, <2>3, <2>4
    DEF Next, UpStep, SshStep, Environment, Launch, ListContainers, AllocSshPort, SaveSshPort,
        RepairStaleEntries, LookForLockfile, DevcontainerUp, DevcontainerUpFails,
        DeleteCreatedLockfile, WaitForContainer, FindContainer, AuthorizeKey, StartDropbear,
        PruneRemove, PruneRemoveFails, Fails, Crash, ContainerStops, UserChangesLockfile
<1>. QED
  BY <1>1, <1>2, <1>3, <1>4, PortInit, KeyInit, KeepInit, TypeInvariant, PTL
  DEF Spec, KnownKeyStays
=============================================================================

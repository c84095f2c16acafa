------------------------- MODULE ManagedShellProofs -------------------------
(***************************************************************************)
(* Proofs about ManagedShell, for every set of invocations.                *)
(***************************************************************************)
EXTENDS ManagedShell, TLAPS

-----------------------------------------------------------------------------
(***************************************************************************)
(* Type correctness.                                                       *)
(***************************************************************************)
LEMMA InitType == Init => TypeOK
<1> SUFFICES ASSUME Init PROVE TypeOK OBVIOUS
<1> USE DEF Init
<1>1. cmd \in [Procs -> {"none"} \cup Commands] OBVIOUS
<1>2. pc \in [Procs -> Labels] BY DEF Labels, Ended
<1>3. snap \in [Procs -> ProcOrNone] /\ token \in ProcOrNone BY DEF ProcOrNone
<1>4. markers \in [Procs -> {"absent", "torn", "written"}] OBVIOUS
<1>5. cid \in ProcOrNone /\ running \in BOOLEAN /\ attached \subseteq Procs BY DEF ProcOrNone
<1>6. target \in [Procs -> ProcOrNone] /\ ttarget \in [Procs -> ProcOrNone] BY DEF ProcOrNone
<1>7. tpc \in [Procs -> TimerLabels] BY DEF TimerLabels
<1>8. /\ owed \in BOOLEAN /\ excused \in BOOLEAN
      /\ cancelled \subseteq Procs /\ forced \subseteq Procs
  OBVIOUS
<1>9. (running => cid \in Procs) /\ (attached # {} => running) OBVIOUS
<1> QED BY <1>1, <1>2, <1>3, <1>4, <1>5, <1>6, <1>7, <1>8, <1>9 DEF TypeOK

LEMMA SetupType ==
  ASSUME TypeOK, NEW p \in Procs, SetupStep(p)
  PROVE  TypeOK'
<1> USE ProcsAssumption DEF TypeOK, Goto, Labels, Ended, SessionPhases, ProcOrNone,
          TimerLabels, engineVars, timerVars, historyVars, turnVars, vars
<1>1. ASSUME NEW c \in Commands, Launch(p, c) PROVE TypeOK'
  BY <1>1 DEF Launch
<1>2. CASE Prepare(p) BY <1>2 DEF Prepare, Pruned
<1>3. CASE ClearTimerLoad(p) BY <1>3 DEF ClearTimerLoad, AfterClear
<1>4. CASE ClearTimerSave(p) BY <1>4 DEF ClearTimerSave, AfterClear
<1>5. CASE LoadState(p) BY <1>5 DEF LoadState
<1>6. CASE SaveState(p) BY <1>6 DEF SaveState
<1>7. CASE DevcontainerUp(p) BY <1>7 DEF DevcontainerUp
<1>8. CASE DevcontainerUpFails(p)
  <2>1. CASE RemoveOld BY <1>8, <2>1 DEF DevcontainerUpFails, RemoveOld
  <2>2. CASE UNCHANGED engineVars BY <1>8, <2>2 DEF DevcontainerUpFails
  <2> QED BY <1>8, <2>1, <2>2 DEF DevcontainerUpFails
<1>9. CASE SetupFails(p) BY <1>9 DEF SetupFails
<1>10. CASE Settled(p) BY <1>10 DEF Settled
<1> QED BY <1>1, <1>2, <1>3, <1>4, <1>5, <1>6, <1>7, <1>8, <1>9, <1>10 DEF SetupStep

LEMMA ShellType ==
  ASSUME TypeOK, NEW p \in Procs, ShellStep(p)
  PROVE  TypeOK'
<1> USE ProcsAssumption DEF TypeOK, Goto, Labels, Ended, SessionPhases, ProcOrNone,
          TimerLabels, engineVars, timerVars, historyVars, turnVars, vars
<1>1. CASE WaitForContainer(p) BY <1>1 DEF WaitForContainer
<1>2. CASE WaitTimesOut(p) BY <1>2 DEF WaitTimesOut
<1>3. CASE CreateMarker(p) BY <1>3 DEF CreateMarker
<1>4. CASE WriteMarker(p) BY <1>4 DEF WriteMarker
<1>5. CASE DetectShell(p) BY <1>5 DEF DetectShell
<1>6. CASE DetectShellFails(p) BY <1>6 DEF DetectShellFails
<1>7. CASE OpenShell(p) BY <1>7 DEF OpenShell, Reachable
<1>8. CASE ShellExits(p) BY <1>8 DEF ShellExits
<1> QED BY <1>1, <1>2, <1>3, <1>4, <1>5, <1>6, <1>7, <1>8 DEF ShellStep

LEMMA ExitType ==
  ASSUME TypeOK, NEW p \in Procs, ExitStep(p)
  PROVE  TypeOK'
<1> USE ProcsAssumption DEF TypeOK, Goto, Labels, Ended, SessionPhases, ProcOrNone,
          TimerLabels, engineVars, timerVars, historyVars, turnVars, vars
<1>1. CASE Unregister(p) BY <1>1 DEF Unregister
<1>2. CASE ExitPrune(p) BY <1>2 DEF ExitPrune, Pruned
<1>3. CASE CountPrune(p) BY <1>3 DEF CountPrune, Pruned
<1>4. CASE CountOnExit(p) BY <1>4 DEF CountOnExit
<1>5. CASE CountBeforeRebuild(p) BY <1>5 DEF CountBeforeRebuild
<1>6. CASE SpawnTimer(p) BY <1>6 DEF SpawnTimer
<1>7. CASE Arm(p) BY <1>7 DEF Arm
<1> QED BY <1>1, <1>2, <1>3, <1>4, <1>5, <1>6, <1>7 DEF ExitStep

LEMMA StopType ==
  ASSUME TypeOK, NEW p \in Procs, StopStep(p)
  PROVE  TypeOK'
<1> USE ProcsAssumption DEF TypeOK, Goto, Labels, Ended, SessionPhases, ProcOrNone,
          TimerLabels, engineVars, timerVars, historyVars, turnVars, vars
<1>1. CASE ClearAllSessions(p) BY <1>1 DEF ClearAllSessions
<1>2. CASE KillFind(p) BY <1>2 DEF KillFind
<1>3. CASE KillStop(p)
  <2>1. CASE UNCHANGED engineVars BY <1>3, <2>1 DEF KillStop
  <2>2. CASE running' = FALSE /\ attached' = {} /\ UNCHANGED cid BY <1>3, <2>2 DEF KillStop
  <2> QED BY <1>3, <2>1, <2>2 DEF KillStop, StopContainer
<1>4. CASE PruneList(p) BY <1>4 DEF PruneList
<1>5. CASE PruneRemove(p)
  <2>1. CASE UNCHANGED engineVars BY <1>5, <2>1 DEF PruneRemove
  <2>2. CASE RemoveOld /\ Goto(p, "clearLoad") BY <1>5, <2>2 DEF PruneRemove, RemoveOld
  <2> QED BY <1>5, <2>1, <2>2 DEF PruneRemove
<1> QED BY <1>1, <1>2, <1>3, <1>4, <1>5 DEF StopStep

LEMMA TimerType ==
  ASSUME TypeOK, NEW t \in Procs, TimerStep(t)
  PROVE  TypeOK'
<1> USE ProcsAssumption DEF TypeOK, TGoto, Labels, Ended, SessionPhases, ProcOrNone,
          TimerLabels, engineVars, timerVars, historyVars, turnVars, vars
<1>1. CASE TimerWakes(t) BY <1>1 DEF TimerWakes, Pruned
<1>2. CASE TimerCountPrune(t) BY <1>2 DEF TimerCountPrune, Pruned
<1>3. CASE TimerCount(t) BY <1>3 DEF TimerCount
<1>4. CASE TimerCheck(t) BY <1>4 DEF TimerCheck
<1>5. CASE TimerFind(t) BY <1>5 DEF TimerFind
<1>6. CASE TimerStop(t)
  <2>1. CASE UNCHANGED engineVars BY <1>6, <2>1 DEF TimerStop
  <2>2. CASE running' = FALSE /\ attached' = {} /\ UNCHANGED cid BY <1>6, <2>2 DEF TimerStop
  <2> QED BY <1>6, <2>1, <2>2 DEF TimerStop, StopContainer
<1>7. CASE TimerTailLoad(t) BY <1>7 DEF TimerTailLoad
<1>8. CASE TimerTailSave(t) BY <1>8 DEF TimerTailSave
<1> QED BY <1>1, <1>2, <1>3, <1>4, <1>5, <1>6, <1>7, <1>8 DEF TimerStep

LEMMA TypeStep ==
  ASSUME TypeOK, [Next]_vars
  PROVE  TypeOK'
<1>1. ASSUME NEW p \in Procs, Crash(p) PROVE TypeOK'
  BY <1>1 DEF Crash, TypeOK, Goto, Labels, Ended, timerVars, turnVars
<1>2. CASE UNCHANGED vars
  BY <1>2 DEF TypeOK, vars, engineVars, timerVars, historyVars, turnVars
<1> QED BY <1>1, <1>2, SetupType, ShellType, ExitType, StopType, TimerType DEF Next

\* TypeOK holds of every reachable state.
THEOREM TypeInvariant == Spec => []TypeOK
<1>1. TypeOK /\ [Next]_vars => TypeOK' BY TypeStep
<1> QED BY InitType, <1>1, PTL DEF Spec

-----------------------------------------------------------------------------
(***************************************************************************)
(* The last one out arms the idle stop.  An exiting invocation that finds  *)
(* a marker leaves the worker to the marker's owner; the invariant says    *)
(* why that owner will pass the same test: a marker on disk belongs to an  *)
(* invocation that has not unregistered it yet, or to one that died.       *)
(***************************************************************************)
\* Between register_session and unregister_session.
Holding == {"write", "detect", "exec", "shell", "unregister"}

MarkersHeld ==
  \A q \in Procs : markers[q] # "absent" => pc[q] \in Holding \/ (pc[q] = "dead" /\ excused)

\* The labels only `start` reaches.
StartPhases == Holding \cup {"wait", "create", "exitPrune", "spawn", "arm"}

PhaseCmd == \A q \in Procs : pc[q] \in StartPhases => cmd[q] = "start"

SessionFacts == MarkersHeld /\ PhaseCmd /\ LastOneOutArms

SessionInv == TypeOK /\ SessionFacts

LEMMA InitSession == Init => SessionInv
<1> SUFFICES ASSUME Init PROVE SessionInv OBVIOUS
<1>1. MarkersHeld BY DEF Init, MarkersHeld
<1>2. PhaseCmd BY DEF Init, PhaseCmd, StartPhases, Holding
<1>3. LastOneOutArms BY DEF Init, LastOneOutArms
<1> QED BY InitType, <1>1, <1>2, <1>3 DEF SessionInv, SessionFacts

LEMMA SetupSession ==
  ASSUME SessionInv, NEW p \in Procs, SetupStep(p)
  PROVE  SessionFacts'
<1> USE DEF SessionInv, SessionFacts, TypeOK, MarkersHeld, PhaseCmd, LastOneOutArms, Goto, Holding,
          StartPhases, SessionPhases, historyVars, timerVars
<1>1. ASSUME NEW c \in Commands, Launch(p, c) PROVE SessionFacts'
  BY ProcsAssumption, <1>1 DEF Launch
<1>2. CASE Prepare(p) BY <1>2 DEF Prepare, Pruned
<1>3. CASE ClearTimerLoad(p) BY <1>3 DEF ClearTimerLoad, AfterClear
<1>4. CASE ClearTimerSave(p) BY <1>4 DEF ClearTimerSave, AfterClear
<1>5. CASE LoadState(p) BY <1>5 DEF LoadState
<1>6. CASE SaveState(p) BY <1>6 DEF SaveState
<1>7. CASE DevcontainerUp(p) BY <1>7 DEF DevcontainerUp
<1>8. CASE DevcontainerUpFails(p) BY <1>8 DEF DevcontainerUpFails
<1>9. CASE SetupFails(p) BY <1>9 DEF SetupFails
<1>10. CASE Settled(p) BY <1>10 DEF Settled
<1> QED BY <1>1, <1>2, <1>3, <1>4, <1>5, <1>6, <1>7, <1>8, <1>9, <1>10 DEF SetupStep

LEMMA ShellSession ==
  ASSUME SessionInv, NEW p \in Procs, ShellStep(p)
  PROVE  SessionFacts'
<1> USE DEF SessionInv, SessionFacts, TypeOK, MarkersHeld, PhaseCmd, LastOneOutArms, Goto, Holding,
          StartPhases, SessionPhases, historyVars, timerVars
<1>1. CASE WaitForContainer(p) BY <1>1 DEF WaitForContainer
<1>2. CASE WaitTimesOut(p) BY <1>2 DEF WaitTimesOut
<1>3. CASE CreateMarker(p) BY <1>3 DEF CreateMarker
<1>4. CASE WriteMarker(p) BY <1>4 DEF WriteMarker
<1>5. CASE DetectShell(p) BY <1>5 DEF DetectShell
<1>6. CASE DetectShellFails(p) BY <1>6 DEF DetectShellFails
<1>7. CASE OpenShell(p) BY <1>7 DEF OpenShell
<1>8. CASE ShellExits(p) BY <1>8 DEF ShellExits
<1> QED BY <1>1, <1>2, <1>3, <1>4, <1>5, <1>6, <1>7, <1>8 DEF ShellStep

LEMMA ExitSession ==
  ASSUME SessionInv, NEW p \in Procs, ExitStep(p)
  PROVE  SessionFacts'
<1> USE DEF SessionInv, SessionFacts, TypeOK, MarkersHeld, PhaseCmd, LastOneOutArms, Goto, Holding,
          StartPhases, SessionPhases, historyVars, timerVars
<1>1. CASE Unregister(p) BY <1>1 DEF Unregister
<1>2. CASE ExitPrune(p) BY <1>2 DEF ExitPrune, Pruned
<1>3. CASE CountPrune(p) BY <1>3 DEF CountPrune, Pruned
<1>4. CASE CountOnExit(p) BY <1>4 DEF CountOnExit, NoMarkers
<1>5. CASE CountBeforeRebuild(p) BY <1>5 DEF CountBeforeRebuild
<1>6. CASE SpawnTimer(p) BY <1>6 DEF SpawnTimer
<1>7. CASE Arm(p) BY <1>7 DEF Arm
<1> QED BY <1>1, <1>2, <1>3, <1>4, <1>5, <1>6, <1>7 DEF ExitStep

LEMMA StopSession ==
  ASSUME SessionInv, NEW p \in Procs, StopStep(p)
  PROVE  SessionFacts'
<1> USE DEF SessionInv, SessionFacts, TypeOK, MarkersHeld, PhaseCmd, LastOneOutArms, Goto, Holding,
          StartPhases, SessionPhases, historyVars, timerVars
<1>1. CASE ClearAllSessions(p) BY <1>1 DEF ClearAllSessions
<1>2. CASE KillFind(p) BY <1>2 DEF KillFind
<1>3. CASE KillStop(p) BY <1>3 DEF KillStop
<1>4. CASE PruneList(p) BY <1>4 DEF PruneList
<1>5. CASE PruneRemove(p) BY <1>5 DEF PruneRemove
<1> QED BY <1>1, <1>2, <1>3, <1>4, <1>5 DEF StopStep

LEMMA TimerSession ==
  ASSUME SessionInv, NEW p \in Procs, TimerStep(p)
  PROVE  SessionFacts'
<1> USE DEF SessionInv, SessionFacts, TypeOK, MarkersHeld, PhaseCmd, LastOneOutArms, Goto, Holding,
          StartPhases, SessionPhases, historyVars, timerVars
<1>1. CASE TimerWakes(p) BY <1>1 DEF TimerWakes, Pruned
<1>2. CASE TimerCountPrune(p) BY <1>2 DEF TimerCountPrune, Pruned
<1>3. CASE TimerCount(p) BY <1>3 DEF TimerCount
<1>4. CASE TimerCheck(p) BY <1>4 DEF TimerCheck
<1>5. CASE TimerFind(p) BY <1>5 DEF TimerFind
<1>6. CASE TimerStop(p) BY <1>6 DEF TimerStop
<1>7. CASE TimerTailLoad(p) BY <1>7 DEF TimerTailLoad
<1>8. CASE TimerTailSave(p) BY <1>8 DEF TimerTailSave
<1> QED BY <1>1, <1>2, <1>3, <1>4, <1>5, <1>6, <1>7, <1>8 DEF TimerStep

LEMMA SessionStep ==
  ASSUME SessionInv, [Next]_vars
  PROVE  SessionInv'
<1>1. TypeOK' BY TypeStep DEF SessionInv
<1>2. ASSUME NEW p \in Procs, Crash(p) PROVE SessionFacts'
  BY <1>2 DEF Crash, SessionInv, SessionFacts, TypeOK, MarkersHeld, PhaseCmd, LastOneOutArms, Goto,
              Alive, Ended, Holding, StartPhases, SessionPhases
<1>3. ASSUME UNCHANGED vars PROVE SessionFacts'
  BY <1>3 DEF SessionInv, SessionFacts, TypeOK, MarkersHeld, PhaseCmd, LastOneOutArms, vars, historyVars
<1>4. SessionFacts'
  BY <1>2, <1>3, SetupSession, ShellSession, ExitSession, StopSession, TimerSession DEF Next
<1> QED BY <1>1, <1>4 DEF SessionInv

\* However the exits, kills and prunes of any number of invocations interleave,
\* the last shell to close leads to a worker.
THEOREM LastOneOut == Spec => []LastOneOutArms
<1>1. SessionInv /\ [Next]_vars => SessionInv' BY SessionStep
<1> QED BY InitSession, <1>1, PTL DEF Spec, SessionInv, SessionFacts

-----------------------------------------------------------------------------
(***************************************************************************)
(* Commands that take turns: "commands" \notin Overlap.  Workers still act *)
(* at any time, and so does the exit code of a shell that a command closed *)
(* (forced).  Whoever registers a session has cleared the token, nobody    *)
(* but a forced exit has set it since, and the worker counted before: so   *)
(* the count and the token check cannot both let another worker pass.      *)
(***************************************************************************)
Acting(p) == Busy(p) /\ p \notin forced

OneActing == \A p, q \in Procs : Acting(p) /\ Acting(q) => p = q

\* A forced exit is on its way out.
ForcedLeave ==
  \A p \in forced :
    /\ cmd[p] = "start"
    /\ pc[p] \in {"unregister", "exitPrune", "countPrune", "count", "spawn", "arm",
                  "done", "dead"}

\* From clear_timer to the end of the command, or to the closing of its shell.
Cleared(p) ==
  \/ pc[p] \in {"setup", "setupSave", "settle", "settleSave", "wait", "create", "write",
                "detect", "exec", "wipe", "find", "stop", "reset", "resetSave"}
  \/ cmd[p] = "rebuild" /\ pc[p] \in {"countPrune", "count"}

\* No token but a forced exit's is in state.json, or in the state a save will write.
TokenCleared == \A p \in Procs : Cleared(p) => token \in {NoProc} \cup forced

SnapClear == \A p \in Procs : snap[p] \in {NoProc} \cup forced

\* BothChecksHold, and the same while the token is still to be written.
ChecksJoint ==
  \A t \in Procs \ forced : tpc[t] = "check" /\ (token = t \/ pc[t] = "arm") =>
    \A p \in Procs : Alive(p) => markers[p] = "absent"

\* A token is written once, by an invocation that does nothing else after.
TokenArmed ==
  \A t \in Procs :
    token = t \/ t \in cancelled \/ (\E q \in Procs : snap[q] = t) => pc[t] = "done"

\* The state a save is about to write holds no cancelled token.
SnapLive ==
  \A p \in Procs : pc[p] \in {"setupSave", "settleSave", "resetSave"} => snap[p] \notin cancelled

TurnFacts == OneActing /\ ForcedLeave /\ TokenCleared /\ SnapClear /\ ChecksJoint

CancelFacts == TokenArmed /\ SnapLive /\ CancelledStays

TurnInv == SessionInv /\ TurnFacts /\ CancelFacts

LEMMA InitTurn == Init => TurnInv
<1> SUFFICES ASSUME Init PROVE TurnInv OBVIOUS
<1>1. OneActing /\ ForcedLeave BY DEF Init, OneActing, ForcedLeave, Acting, Busy, Alive, Ended
<1>2. TokenCleared /\ SnapClear BY DEF Init, TokenCleared, SnapClear
<1>3. ChecksJoint BY DEF Init, ChecksJoint
<1>4. CancelFacts
  BY ProcsAssumption DEF Init, CancelFacts, TokenArmed, SnapLive, CancelledStays
<1> QED BY InitSession, <1>1, <1>2, <1>3, <1>4 DEF TurnInv, TurnFacts

LEMMA SetupTurn ==
  ASSUME "commands" \notin Overlap, TurnInv, NEW p \in Procs, SetupStep(p)
  PROVE  TurnFacts'
<1> USE ProcsAssumption DEF TurnInv, TurnFacts, SessionInv, SessionFacts, TypeOK, MarkersHeld,
          PhaseCmd, OneActing, ForcedLeave, TokenCleared, SnapClear, ChecksJoint, Cleared,
          Acting, Busy, Alive, Ended, Holding, StartPhases, Goto, TGoto, timerVars,
          historyVars, turnVars
<1>1. ASSUME NEW c \in Commands, Launch(p, c) PROVE TurnFacts'
  BY ProcsAssumption, <1>1 DEF Launch, MayAct
<1>2. CASE Prepare(p) BY <1>2 DEF Prepare, Pruned
<1>3. CASE ClearTimerLoad(p) BY <1>3 DEF ClearTimerLoad, AfterClear
<1>4. CASE ClearTimerSave(p) BY <1>4 DEF ClearTimerSave, AfterClear
<1>5. CASE LoadState(p) BY <1>5 DEF LoadState
<1>6. CASE SaveState(p) BY <1>6 DEF SaveState
<1>7. CASE DevcontainerUp(p) BY <1>7 DEF DevcontainerUp
<1>8. CASE DevcontainerUpFails(p) BY <1>8 DEF DevcontainerUpFails
<1>9. CASE SetupFails(p) BY <1>9 DEF SetupFails
<1>10. CASE Settled(p) BY <1>10 DEF Settled
<1> QED BY <1>1, <1>2, <1>3, <1>4, <1>5, <1>6, <1>7, <1>8, <1>9, <1>10 DEF SetupStep

LEMMA ShellTurn ==
  ASSUME "commands" \notin Overlap, TurnInv, NEW p \in Procs, ShellStep(p)
  PROVE  TurnFacts'
<1> USE ProcsAssumption DEF TurnInv, TurnFacts, SessionInv, SessionFacts, TypeOK, MarkersHeld,
          PhaseCmd, OneActing, ForcedLeave, TokenCleared, SnapClear, ChecksJoint, Cleared,
          Acting, Busy, Alive, Ended, Holding, StartPhases, Goto, TGoto, timerVars,
          historyVars, turnVars
<1>1. CASE WaitForContainer(p) BY <1>1 DEF WaitForContainer
<1>2. CASE WaitTimesOut(p) BY <1>2 DEF WaitTimesOut
<1>3. CASE CreateMarker(p) BY <1>3 DEF CreateMarker
<1>4. CASE WriteMarker(p) BY <1>4 DEF WriteMarker
<1>5. CASE DetectShell(p) BY <1>5 DEF DetectShell
<1>6. CASE DetectShellFails(p) BY <1>6 DEF DetectShellFails
<1>7. CASE OpenShell(p) BY <1>7 DEF OpenShell
<1>8. CASE ShellExits(p) BY <1>8 DEF ShellExits, MayAct
<1> QED BY <1>1, <1>2, <1>3, <1>4, <1>5, <1>6, <1>7, <1>8 DEF ShellStep

LEMMA ExitTurn ==
  ASSUME "commands" \notin Overlap, TurnInv, NEW p \in Procs, ExitStep(p)
  PROVE  TurnFacts'
<1> USE ProcsAssumption DEF TurnInv, TurnFacts, SessionInv, SessionFacts, TypeOK, MarkersHeld,
          PhaseCmd, OneActing, ForcedLeave, TokenCleared, SnapClear, ChecksJoint, Cleared,
          Acting, Busy, Alive, Ended, Holding, StartPhases, Goto, TGoto, timerVars,
          historyVars, turnVars
<1>1. CASE Unregister(p) BY <1>1 DEF Unregister
<1>2. CASE ExitPrune(p) BY <1>2 DEF ExitPrune, Pruned
<1>3. CASE CountPrune(p) BY <1>3 DEF CountPrune, Pruned
<1>4. CASE CountOnExit(p) BY <1>4 DEF CountOnExit, NoMarkers
<1>5. CASE CountBeforeRebuild(p) BY <1>5 DEF CountBeforeRebuild
<1>6. CASE SpawnTimer(p) BY <1>6 DEF SpawnTimer
<1>7. CASE Arm(p) BY <1>7 DEF Arm
<1> QED BY <1>1, <1>2, <1>3, <1>4, <1>5, <1>6, <1>7 DEF ExitStep

LEMMA StopTurn ==
  ASSUME "commands" \notin Overlap, TurnInv, NEW p \in Procs, StopStep(p)
  PROVE  TurnFacts'
<1> USE ProcsAssumption DEF TurnInv, TurnFacts, SessionInv, SessionFacts, TypeOK, MarkersHeld,
          PhaseCmd, OneActing, ForcedLeave, TokenCleared, SnapClear, ChecksJoint, Cleared,
          Acting, Busy, Alive, Ended, Holding, StartPhases, Goto, TGoto, timerVars,
          historyVars, turnVars
<1>1. CASE ClearAllSessions(p) BY <1>1 DEF ClearAllSessions
<1>2. CASE KillFind(p) BY <1>2 DEF KillFind
<1>3. CASE KillStop(p) BY <1>3 DEF KillStop
<1>4. CASE PruneList(p) BY <1>4 DEF PruneList
<1>5. CASE PruneRemove(p) BY <1>5 DEF PruneRemove
<1> QED BY <1>1, <1>2, <1>3, <1>4, <1>5 DEF StopStep

LEMMA TimerTurn ==
  ASSUME "commands" \notin Overlap, TurnInv, NEW p \in Procs, TimerStep(p)
  PROVE  TurnFacts'
<1> USE ProcsAssumption DEF TurnInv, TurnFacts, SessionInv, SessionFacts, TypeOK, MarkersHeld,
          PhaseCmd, OneActing, ForcedLeave, TokenCleared, SnapClear, ChecksJoint, Cleared,
          Acting, Busy, Alive, Ended, Holding, StartPhases, Goto, TGoto, timerVars,
          historyVars, turnVars
<1>1. CASE TimerWakes(p) BY <1>1 DEF TimerWakes, Pruned
<1>2. CASE TimerCountPrune(p) BY <1>2 DEF TimerCountPrune, Pruned
<1>3. CASE TimerCount(p) BY <1>3 DEF TimerCount, NoMarkers
<1>4. CASE TimerCheck(p) BY <1>4 DEF TimerCheck
<1>5. CASE TimerFind(p) BY <1>5 DEF TimerFind
<1>6. CASE TimerStop(p) BY <1>6 DEF TimerStop
<1>7. CASE TimerTailLoad(p) BY <1>7 DEF TimerTailLoad
<1>8. CASE TimerTailSave(p) BY <1>8 DEF TimerTailSave
<1> QED BY <1>1, <1>2, <1>3, <1>4, <1>5, <1>6, <1>7, <1>8 DEF TimerStep

\* What every step but four does to the tokens.
SavePhases == {"setupSave", "settleSave", "resetSave"}

TokensKept ==
  /\ UNCHANGED <<snap, cancelled>>
  /\ token' \in {token, NoProc}
  /\ \A q \in Procs : /\ pc[q] = "done" => pc'[q] = "done"
                      /\ pc'[q] \in SavePhases => pc[q] \in SavePhases

LEMMA KeptSetup ==
  ASSUME TypeOK, NEW p \in Procs, SetupStep(p), ~ClearTimerSave(p), ~LoadState(p), ~SaveState(p)
  PROVE  TokensKept
<1> USE DEF TypeOK, TokensKept, SavePhases, Goto, historyVars, turnVars
<1>1. ASSUME NEW c \in Commands, Launch(p, c) PROVE TokensKept
  BY ProcsAssumption, <1>1 DEF Launch
<1>2. CASE Prepare(p) \/ ClearTimerLoad(p) BY <1>2 DEF Prepare, ClearTimerLoad, AfterClear
<1>3. CASE DevcontainerUp(p) \/ DevcontainerUpFails(p)
  BY <1>3 DEF DevcontainerUp, DevcontainerUpFails
<1>4. CASE SetupFails(p) \/ Settled(p) BY <1>4 DEF SetupFails, Settled
<1> QED BY <1>1, <1>2, <1>3, <1>4 DEF SetupStep

LEMMA KeptLater ==
  ASSUME TypeOK, NEW p \in Procs,
         ShellStep(p) \/ (ExitStep(p) /\ ~Arm(p)) \/ StopStep(p) \/ TimerStep(p) \/ Crash(p)
  PROVE  TokensKept
<1> USE DEF TypeOK, TokensKept, SavePhases, Goto, historyVars, turnVars
<1>1. CASE ShellStep(p)
  BY <1>1 DEF ShellStep, WaitForContainer, WaitTimesOut, CreateMarker, WriteMarker, DetectShell,
              DetectShellFails, OpenShell, ShellExits
<1>2. CASE ExitStep(p) /\ ~Arm(p)
  BY <1>2 DEF ExitStep, Unregister, ExitPrune, CountPrune, CountOnExit, CountBeforeRebuild,
              SpawnTimer
<1>3. CASE StopStep(p)
  BY <1>3 DEF StopStep, ClearAllSessions, KillFind, KillStop, PruneList, PruneRemove
<1>4. CASE TimerStep(p)
  BY <1>4 DEF TimerStep, TimerWakes, TimerCountPrune, TimerCount, TimerCheck, TimerFind,
              TimerStop, TimerTailLoad, TimerTailSave
<1>5. CASE Crash(p) BY <1>5 DEF Crash, Alive, Ended
<1> QED BY <1>1, <1>2, <1>3, <1>4, <1>5

LEMMA KeptCancelled ==
  ASSUME TypeOK, CancelFacts, TokensKept
  PROVE  CancelFacts'
<1> USE ProcsAssumption DEF TypeOK, CancelFacts, TokensKept, SavePhases
<1>1. TokenArmed' BY DEF TokenArmed
<1>2. SnapLive' BY DEF SnapLive
<1>3. CancelledStays' BY DEF CancelledStays
<1> QED BY <1>1, <1>2, <1>3

\* The four: a cancelled token is in no state about to be saved, and its
\* invocation has armed already.
LEMMA TokenStep ==
  ASSUME TurnInv, NEW p \in Procs,
         ClearTimerSave(p) \/ LoadState(p) \/ SaveState(p) \/ Arm(p)
  PROVE  CancelFacts'
<1> USE ProcsAssumption DEF TurnInv, TurnFacts, SessionInv, CancelFacts, TypeOK, ProcOrNone,
          TokenArmed, SnapLive, CancelledStays, Goto, historyVars, turnVars
<1>1. CASE ClearTimerSave(p)
  <2>1. Acting(p) BY <1>1 DEF ClearTimerSave, ForcedLeave, Acting, Busy, Alive, Ended
  <2>2. \A q \in Procs : pc[q] \in SavePhases => Acting(q)
    BY DEF SavePhases, ForcedLeave, Acting, Busy, Alive, Ended
  <2>3. \A q \in Procs : pc[q] \notin SavePhases
    BY <1>1, <2>1, <2>2 DEF OneActing, ClearTimerSave, SavePhases
  <2>4. \A q \in Procs : pc'[q] \notin SavePhases
    BY <1>1, <2>3 DEF ClearTimerSave, AfterClear, SavePhases
  <2> QED BY <1>1, <2>4 DEF ClearTimerSave, AfterClear, SavePhases
<1>2. CASE LoadState(p) BY <1>2 DEF LoadState
<1>3. CASE SaveState(p) BY <1>3 DEF SaveState
<1>4. CASE Arm(p) BY <1>4 DEF Arm
<1> QED BY <1>1, <1>2, <1>3, <1>4

LEMMA TurnStep ==
  ASSUME "commands" \notin Overlap, TurnInv, [Next]_vars
  PROVE  TurnInv'
<1>1. SessionInv' BY SessionStep DEF TurnInv
<1>2. ASSUME NEW p \in Procs, Crash(p) PROVE TurnFacts'
  BY <1>2 DEF Crash, TurnInv, TurnFacts, SessionInv, TypeOK, OneActing, ForcedLeave, TokenCleared,
              SnapClear, ChecksJoint, Cleared, Acting, Busy, Alive, Ended, Goto, timerVars, turnVars
<1>3. ASSUME UNCHANGED vars PROVE TurnFacts' /\ CancelFacts'
  BY <1>3 DEF TurnInv, TurnFacts, OneActing, ForcedLeave, TokenCleared, SnapClear, ChecksJoint,
              Cleared, Acting, Busy, Alive, CancelFacts, TokenArmed, SnapLive, CancelledStays,
              vars, timerVars, historyVars, turnVars
<1>4. TurnFacts'
  BY <1>2, <1>3, SetupTurn, ShellTurn, ExitTurn, StopTurn, TimerTurn DEF Next
<1>5. ASSUME NEW p \in Procs,
             SetupStep(p) \/ ShellStep(p) \/ ExitStep(p) \/ StopStep(p) \/ TimerStep(p) \/ Crash(p)
      PROVE  CancelFacts'
  BY <1>5, TokenStep, KeptSetup, KeptLater, KeptCancelled DEF TurnInv, SessionInv
<1> QED BY <1>1, <1>3, <1>4, <1>5 DEF TurnInv, Next

\* When commands take turns, what a worker saw at its count and at its token check
\* still holds when it goes on, unless its invocation's exit was forced (TurnInv).
THEOREM TurnInvariant ==
  ASSUME "commands" \notin Overlap PROVE Spec => []TurnInv
<1>1. TurnInv /\ [Next]_vars => TurnInv' BY TurnStep
<1> QED BY InitTurn, <1>1, PTL DEF Spec

\* When commands take turns, a worker that passed its count and its token check
\* did so while no live invocation held a session (unless its invocation's shell
\* was closed under it while another command was acting).
THEOREM ChecksAreJoint ==
  ASSUME "commands" \notin Overlap PROVE Spec => []BothChecksHold
<1>1. TurnInv => BothChecksHold BY DEF TurnInv, TurnFacts, ChecksJoint, BothChecksHold
<1> QED BY TurnInvariant, <1>1, PTL

\* When commands take turns, no read-modify-write of state.json brings a
\* cancelled token back, whatever is armed out of turn meanwhile.
THEOREM NoTokenRevived ==
  ASSUME "commands" \notin Overlap PROVE Spec => []CancelledStays
<1>1. TurnInv => CancelledStays BY DEF TurnInv, CancelFacts
<1> QED BY TurnInvariant, <1>1, PTL

-----------------------------------------------------------------------------
(***************************************************************************)
(* No overlap at all: a command finishes its set-up or exit code, and an   *)
(* awake worker its work, before anything else starts, a forced exit       *)
(* excepted.  Shells stay open meanwhile.                                  *)
(***************************************************************************)
QuietWorkers == \A t \in Procs : Awake(t) => \A p \in Procs : ~Acting(p)

\* What the worker counted is still true when it stops the container.
NoneHeld == \A t \in Procs : tpc[t] \in {"check", "find", "stop"} => HeldSessions = {}

SerialFacts == QuietWorkers /\ NoneHeld

SerialInv == TurnInv /\ SerialFacts

LEMMA InitSerial == Init => SerialInv
<1> SUFFICES ASSUME Init PROVE SerialInv OBVIOUS
<1>1. QuietWorkers BY DEF Init, QuietWorkers, Awake
<1>2. NoneHeld BY DEF Init, NoneHeld
<1> QED BY InitTurn, <1>1, <1>2 DEF SerialInv, SerialFacts

LEMMA SetupSerial ==
  ASSUME Overlap = {}, SerialInv, NEW p \in Procs, SetupStep(p)
  PROVE  SerialFacts'
<1>0. TypeOK /\ ForcedLeave BY DEF SerialInv, TurnInv, TurnFacts, SessionInv
<1> USE <1>0 DEF SerialInv, SerialFacts, TypeOK, ForcedLeave, QuietWorkers, NoneHeld, HeldSessions,
          Awake, Acting, Busy, Alive, Ended, Goto, TGoto, engineVars, timerVars, historyVars,
          turnVars
<1>1. ASSUME NEW c \in Commands, Launch(p, c) PROVE SerialFacts'
  BY ProcsAssumption, <1>1 DEF Launch, MayAct
<1>2. CASE Prepare(p) BY <1>2 DEF Prepare, Pruned
<1>3. CASE ClearTimerLoad(p) BY <1>3 DEF ClearTimerLoad, AfterClear
<1>4. CASE ClearTimerSave(p) BY <1>4 DEF ClearTimerSave, AfterClear
<1>5. CASE LoadState(p) BY <1>5 DEF LoadState
<1>6. CASE SaveState(p) BY <1>6 DEF SaveState
<1>7. CASE DevcontainerUp(p) BY <1>7 DEF DevcontainerUp
<1>8. CASE DevcontainerUpFails(p) BY <1>8 DEF DevcontainerUpFails, RemoveOld
<1>9. CASE SetupFails(p) BY <1>9 DEF SetupFails
<1>10. CASE Settled(p) BY <1>10 DEF Settled
<1> QED BY <1>1, <1>2, <1>3, <1>4, <1>5, <1>6, <1>7, <1>8, <1>9, <1>10 DEF SetupStep

LEMMA ShellSerial ==
  ASSUME Overlap = {}, SerialInv, NEW p \in Procs, ShellStep(p)
  PROVE  SerialFacts'
<1>0. TypeOK /\ ForcedLeave BY DEF SerialInv, TurnInv, TurnFacts, SessionInv
<1> USE <1>0 DEF SerialInv, SerialFacts, TypeOK, ForcedLeave, QuietWorkers, NoneHeld, HeldSessions,
          Awake, Acting, Busy, Alive, Ended, Goto, TGoto, engineVars, timerVars, historyVars,
          turnVars
<1>1. CASE WaitForContainer(p) BY <1>1 DEF WaitForContainer
<1>2. CASE WaitTimesOut(p) BY <1>2 DEF WaitTimesOut
<1>3. CASE CreateMarker(p) BY <1>3 DEF CreateMarker
<1>4. CASE WriteMarker(p) BY <1>4 DEF WriteMarker
<1>5. CASE DetectShell(p) BY <1>5 DEF DetectShell
<1>6. CASE DetectShellFails(p) BY <1>6 DEF DetectShellFails
<1>7. CASE OpenShell(p) BY <1>7 DEF OpenShell
<1>8. CASE ShellExits(p) BY <1>8 DEF ShellExits, MayAct
<1> QED BY <1>1, <1>2, <1>3, <1>4, <1>5, <1>6, <1>7, <1>8 DEF ShellStep

LEMMA ExitSerial ==
  ASSUME Overlap = {}, SerialInv, NEW p \in Procs, ExitStep(p)
  PROVE  SerialFacts'
<1>0. TypeOK /\ ForcedLeave BY DEF SerialInv, TurnInv, TurnFacts, SessionInv
<1> USE <1>0 DEF SerialInv, SerialFacts, TypeOK, ForcedLeave, QuietWorkers, NoneHeld, HeldSessions,
          Awake, Acting, Busy, Alive, Ended, Goto, TGoto, engineVars, timerVars, historyVars,
          turnVars
<1>1. CASE Unregister(p) BY <1>1 DEF Unregister
<1>2. CASE ExitPrune(p) BY <1>2 DEF ExitPrune, Pruned
<1>3. CASE CountPrune(p) BY <1>3 DEF CountPrune, Pruned
<1>4. CASE CountOnExit(p) BY <1>4 DEF CountOnExit, NoMarkers
<1>5. CASE CountBeforeRebuild(p) BY <1>5 DEF CountBeforeRebuild
<1>6. CASE SpawnTimer(p) BY <1>6 DEF SpawnTimer
<1>7. CASE Arm(p) BY <1>7 DEF Arm
<1> QED BY <1>1, <1>2, <1>3, <1>4, <1>5, <1>6, <1>7 DEF ExitStep

LEMMA StopSerial ==
  ASSUME Overlap = {}, SerialInv, NEW p \in Procs, StopStep(p)
  PROVE  SerialFacts'
<1>0. TypeOK /\ ForcedLeave BY DEF SerialInv, TurnInv, TurnFacts, SessionInv
<1> USE <1>0 DEF SerialInv, SerialFacts, TypeOK, ForcedLeave, QuietWorkers, NoneHeld, HeldSessions,
          Awake, Acting, Busy, Alive, Ended, Goto, TGoto, engineVars, timerVars, historyVars,
          turnVars
<1>1. CASE ClearAllSessions(p) BY <1>1 DEF ClearAllSessions
<1>2. CASE KillFind(p) BY <1>2 DEF KillFind
<1>3. CASE KillStop(p) BY <1>3 DEF KillStop, StopContainer
<1>4. CASE PruneList(p) BY <1>4 DEF PruneList
<1>5. CASE PruneRemove(p) BY <1>5 DEF PruneRemove, RemoveOld
<1> QED BY <1>1, <1>2, <1>3, <1>4, <1>5 DEF StopStep

LEMMA TimerSerial ==
  ASSUME Overlap = {}, SerialInv, NEW p \in Procs, TimerStep(p)
  PROVE  SerialFacts'
<1>0. TypeOK /\ ForcedLeave BY DEF SerialInv, TurnInv, TurnFacts, SessionInv
<1> USE <1>0 DEF SerialInv, SerialFacts, TypeOK, ForcedLeave, QuietWorkers, NoneHeld, HeldSessions,
          Awake, Acting, Busy, Alive, Ended, Goto, TGoto, engineVars, timerVars, historyVars,
          turnVars
<1>1. CASE TimerWakes(p) BY <1>1 DEF TimerWakes, Pruned, MayWake
<1>2. CASE TimerCountPrune(p) BY <1>2 DEF TimerCountPrune, Pruned
<1>3. CASE TimerCount(p) BY <1>3 DEF TimerCount, NoMarkers
<1>4. CASE TimerCheck(p) BY <1>4 DEF TimerCheck
<1>5. CASE TimerFind(p) BY <1>5 DEF TimerFind
<1>6. CASE TimerStop(p) BY <1>6 DEF TimerStop, StopContainer
<1>7. CASE TimerTailLoad(p) BY <1>7 DEF TimerTailLoad
<1>8. CASE TimerTailSave(p) BY <1>8 DEF TimerTailSave
<1> QED BY <1>1, <1>2, <1>3, <1>4, <1>5, <1>6, <1>7, <1>8 DEF TimerStep

LEMMA SerialStep ==
  ASSUME Overlap = {}, SerialInv, [Next]_vars
  PROVE  SerialInv'
<1>1. TurnInv' BY TurnStep DEF SerialInv
<1>2. ASSUME NEW p \in Procs, Crash(p) PROVE SerialFacts'
  BY <1>2 DEF Crash, SerialInv, SerialFacts, TurnInv, SessionInv, TypeOK, QuietWorkers, NoneHeld,
              HeldSessions, Awake, Acting, Busy, Alive, Ended, Goto, timerVars, turnVars
<1>3. ASSUME UNCHANGED vars PROVE SerialFacts'
  BY <1>3 DEF SerialInv, SerialFacts, QuietWorkers, NoneHeld, HeldSessions, Awake, Acting, Busy,
              Alive, vars, engineVars, timerVars, historyVars, turnVars
<1>4. SerialFacts'
  BY <1>2, <1>3, SetupSerial, ShellSerial, ExitSerial, StopSerial, TimerSerial DEF Next
<1> QED BY <1>1, <1>4 DEF SerialInv

\* With no overlap, the worker never stops a container under a shell that still
\* has its session.
THEOREM WorkerIsSafe ==
  ASSUME Overlap = {} PROVE Spec => WorkerSparesSessions
<1>1. SerialInv /\ [Next]_vars => SerialInv' BY SerialStep
<1>2. SerialInv /\ [Next]_vars =>
        [\A t \in Procs : TimerStop(t) /\ running' # running => HeldSessions = {}]_vars
  BY DEF SerialInv, SerialFacts, NoneHeld, TimerStop
<1> QED BY InitSerial, <1>1, <1>2, PTL DEF Spec, WorkerSparesSessions

-----------------------------------------------------------------------------
(***************************************************************************)
(* With no overlap the workspace keeps the promise of IdlePolicy.          *)
(***************************************************************************)
ShellsAreOpen == \A p \in attached : pc[p] = "shell"

\* What the last one out counted is still true when it arms.
LastIsAlone == \A p \in Procs \ forced : pc[p] \in {"spawn", "arm"} => HeldSessions = {}

\* A worker past its check has its token, unless a forced exit armed over it.
OnDuty ==
  \A t \in Procs : tpc[t] \in {"find", "stop", "tailLoad", "tailSave"} =>
    token = t \/ (forced # {} /\ token \in {NoProc} \cup forced)

PolicyFacts == ShellsAreOpen /\ LastIsAlone /\ OnDuty

PolicyInv == SerialInv /\ PolicyFacts

LEMMA InitPolicy == Init => PolicyInv
<1> SUFFICES ASSUME Init PROVE PolicyInv OBVIOUS
<1>1. ShellsAreOpen BY DEF Init, ShellsAreOpen
<1>2. LastIsAlone /\ OnDuty BY DEF Init, LastIsAlone, OnDuty
<1> QED BY InitSerial, <1>1, <1>2 DEF PolicyInv, PolicyFacts

LEMMA SetupPolicy ==
  ASSUME Overlap = {}, PolicyInv, NEW p \in Procs, SetupStep(p)
  PROVE  PolicyFacts'
<1>0. TypeOK /\ OneActing /\ ForcedLeave /\ SnapClear
  BY DEF PolicyInv, SerialInv, TurnInv, TurnFacts, SessionInv
<1> USE ProcsAssumption, <1>0 DEF PolicyInv, PolicyFacts, SerialInv, SerialFacts, TypeOK,
          OneActing, ForcedLeave, ShellsAreOpen, LastIsAlone, OnDuty, HeldSessions, QuietWorkers,
          Awake, Acting, Busy, Alive, Ended, Goto, TGoto, engineVars, timerVars, historyVars,
          turnVars
<1>1. ASSUME NEW c \in Commands, Launch(p, c) PROVE PolicyFacts'
  BY <1>1 DEF Launch, MayAct
<1>2. CASE Prepare(p) BY <1>2 DEF Prepare, Pruned, Stale
<1>3. CASE ClearTimerLoad(p) BY <1>3 DEF ClearTimerLoad, AfterClear
<1>4. CASE ClearTimerSave(p) BY <1>4 DEF ClearTimerSave, AfterClear
<1>5. CASE LoadState(p) BY <1>5 DEF LoadState
<1>6. CASE SaveState(p) BY <1>6 DEF SaveState, SnapClear
<1>7. CASE DevcontainerUp(p) BY <1>7 DEF DevcontainerUp
<1>8. CASE DevcontainerUpFails(p) BY <1>8 DEF DevcontainerUpFails, RemoveOld
<1>9. CASE SetupFails(p) BY <1>9 DEF SetupFails
<1>10. CASE Settled(p) BY <1>10 DEF Settled
<1> QED BY <1>1, <1>2, <1>3, <1>4, <1>5, <1>6, <1>7, <1>8, <1>9, <1>10 DEF SetupStep

LEMMA ShellPolicy ==
  ASSUME Overlap = {}, PolicyInv, NEW p \in Procs, ShellStep(p)
  PROVE  PolicyFacts'
<1>0. TypeOK /\ OneActing /\ ForcedLeave /\ SnapClear
  BY DEF PolicyInv, SerialInv, TurnInv, TurnFacts, SessionInv
<1> USE ProcsAssumption, <1>0 DEF PolicyInv, PolicyFacts, SerialInv, SerialFacts, TypeOK,
          OneActing, ForcedLeave, ShellsAreOpen, LastIsAlone, OnDuty, HeldSessions, QuietWorkers,
          Awake, Acting, Busy, Alive, Ended, Goto, TGoto, engineVars, timerVars, historyVars,
          turnVars
<1>1. CASE WaitForContainer(p) BY <1>1 DEF WaitForContainer
<1>2. CASE WaitTimesOut(p) BY <1>2 DEF WaitTimesOut
<1>3. CASE CreateMarker(p) BY <1>3 DEF CreateMarker
<1>4. CASE WriteMarker(p) BY <1>4 DEF WriteMarker
<1>5. CASE DetectShell(p) BY <1>5 DEF DetectShell
<1>6. CASE DetectShellFails(p) BY <1>6 DEF DetectShellFails
<1>7. CASE OpenShell(p) BY <1>7 DEF OpenShell
<1>8. CASE ShellExits(p) BY <1>8 DEF ShellExits, MayAct
<1> QED BY <1>1, <1>2, <1>3, <1>4, <1>5, <1>6, <1>7, <1>8 DEF ShellStep

LEMMA ExitPolicy ==
  ASSUME Overlap = {}, PolicyInv, NEW p \in Procs, ExitStep(p)
  PROVE  PolicyFacts'
<1>0. TypeOK /\ OneActing /\ ForcedLeave /\ SnapClear
  BY DEF PolicyInv, SerialInv, TurnInv, TurnFacts, SessionInv
<1> USE ProcsAssumption, <1>0 DEF PolicyInv, PolicyFacts, SerialInv, SerialFacts, TypeOK,
          OneActing, ForcedLeave, ShellsAreOpen, LastIsAlone, OnDuty, HeldSessions, QuietWorkers,
          Awake, Acting, Busy, Alive, Ended, Goto, TGoto, engineVars, timerVars, historyVars,
          turnVars
<1>1. CASE Unregister(p) BY <1>1 DEF Unregister
<1>2. CASE ExitPrune(p) BY <1>2 DEF ExitPrune, Pruned, Stale
<1>3. CASE CountPrune(p) BY <1>3 DEF CountPrune, Pruned, Stale
<1>4. CASE CountOnExit(p) BY <1>4 DEF CountOnExit, NoMarkers
<1>5. CASE CountBeforeRebuild(p) BY <1>5 DEF CountBeforeRebuild
<1>6. CASE SpawnTimer(p) BY <1>6 DEF SpawnTimer
<1>7. CASE Arm(p) BY <1>7 DEF Arm
<1> QED BY <1>1, <1>2, <1>3, <1>4, <1>5, <1>6, <1>7 DEF ExitStep

LEMMA StopPolicy ==
  ASSUME Overlap = {}, PolicyInv, NEW p \in Procs, StopStep(p)
  PROVE  PolicyFacts'
<1>0. TypeOK /\ OneActing /\ ForcedLeave /\ SnapClear
  BY DEF PolicyInv, SerialInv, TurnInv, TurnFacts, SessionInv
<1> USE ProcsAssumption, <1>0 DEF PolicyInv, PolicyFacts, SerialInv, SerialFacts, TypeOK,
          OneActing, ForcedLeave, ShellsAreOpen, LastIsAlone, OnDuty, HeldSessions, QuietWorkers,
          Awake, Acting, Busy, Alive, Ended, Goto, TGoto, engineVars, timerVars, historyVars,
          turnVars
<1>1. CASE ClearAllSessions(p) BY <1>1 DEF ClearAllSessions
<1>2. CASE KillFind(p) BY <1>2 DEF KillFind
<1>3. CASE KillStop(p) BY <1>3 DEF KillStop, StopContainer
<1>4. CASE PruneList(p) BY <1>4 DEF PruneList
<1>5. CASE PruneRemove(p) BY <1>5 DEF PruneRemove, RemoveOld
<1> QED BY <1>1, <1>2, <1>3, <1>4, <1>5 DEF StopStep

LEMMA TimerPolicy ==
  ASSUME Overlap = {}, PolicyInv, NEW p \in Procs, TimerStep(p)
  PROVE  PolicyFacts'
<1>0. TypeOK /\ OneActing /\ ForcedLeave /\ SnapClear
  BY DEF PolicyInv, SerialInv, TurnInv, TurnFacts, SessionInv
<1> USE ProcsAssumption, <1>0 DEF PolicyInv, PolicyFacts, SerialInv, SerialFacts, TypeOK,
          OneActing, ForcedLeave, ShellsAreOpen, LastIsAlone, OnDuty, HeldSessions, QuietWorkers,
          Awake, Acting, Busy, Alive, Ended, Goto, TGoto, engineVars, timerVars, historyVars,
          turnVars
<1>1. CASE TimerWakes(p) BY <1>1 DEF TimerWakes, Pruned, Stale, MayWake
<1>2. CASE TimerCountPrune(p) BY <1>2 DEF TimerCountPrune, Pruned, Stale
<1>3. CASE TimerCount(p) BY <1>3 DEF TimerCount, NoMarkers
<1>4. CASE TimerCheck(p) BY <1>4 DEF TimerCheck
<1>5. CASE TimerFind(p) BY <1>5 DEF TimerFind
<1>6. CASE TimerStop(p) BY <1>6 DEF TimerStop, StopContainer
<1>7. CASE TimerTailLoad(p) BY <1>7 DEF TimerTailLoad
<1>8. CASE TimerTailSave(p) BY <1>8 DEF TimerTailSave
<1> QED BY <1>1, <1>2, <1>3, <1>4, <1>5, <1>6, <1>7, <1>8 DEF TimerStep

\* With no overlap, whoever arms has left no session behind, and a worker past its
\* check still has its token, forced exits excepted.
THEOREM PolicyInvariant ==
  ASSUME Overlap = {} PROVE Spec => []PolicyInv
<1>1. PolicyInv /\ [Next]_vars => PolicyInv'
  <2> SUFFICES ASSUME PolicyInv, [Next]_vars PROVE PolicyInv' OBVIOUS
  <2>1. SerialInv' BY SerialStep DEF PolicyInv
  <2>2. ASSUME NEW p \in Procs, Crash(p) PROVE PolicyFacts'
    BY <2>2 DEF Crash, PolicyInv, PolicyFacts, SerialInv, TurnInv, SessionInv, TypeOK,
                ShellsAreOpen, LastIsAlone, OnDuty, HeldSessions, Alive, Ended, Goto, timerVars,
                turnVars
  <2>3. ASSUME UNCHANGED vars PROVE PolicyFacts'
    BY <2>3 DEF PolicyInv, PolicyFacts, ShellsAreOpen, LastIsAlone, OnDuty, HeldSessions, vars,
                engineVars, timerVars, historyVars, turnVars
  <2>4. PolicyFacts'
    BY <2>2, <2>3, SetupPolicy, ShellPolicy, ExitPolicy, StopPolicy, TimerPolicy DEF Next
  <2> QED BY <2>1, <2>4 DEF PolicyInv
<1> QED BY InitPolicy, <1>1, PTL DEF Spec

-----------------------------------------------------------------------------
(***************************************************************************)
(* Each step is one of IdlePolicy's or a stutter.                          *)
(***************************************************************************)
Up == IF running THEN cid ELSE NoProc

ActingNow == {p \in Procs \ forced : Busy(p)}

Ejected == {p \in Procs : pc[p] = "shell" /\ p \notin attached} \cup forced

PolicyStep == Policy!Next \/ UNCHANGED Policy!vars

Moves(p) == \A q \in Procs \ {p} : pc'[q] = pc[q]

\* A step of p's set-up or exit code leaves p acting or ends it.
LEMMA ActingOf ==
  ASSUME PolicyInv, NEW p \in Procs, Acting(p), Moves(p), forced' = forced
  PROVE  /\ ActingNow = {p}
         /\ Acting(p)' => ActingNow' = {p}
         /\ ~Acting(p)' => ActingNow' = {}
<1>1. ActingNow = {p}
  BY DEF PolicyInv, SerialInv, TurnInv, TurnFacts, OneActing, ActingNow, Acting
<1>2. \A q \in Procs \ {p} : Acting(q)' <=> Acting(q) BY DEF Moves, Acting, Busy, Alive
<1> QED BY <1>1, <1>2 DEF ActingNow, Acting

LEMMA EjectedOf ==
  ASSUME NEW p \in Procs, Moves(p), pc[p] # "shell", pc'[p] # "shell", UNCHANGED <<attached, forced>>
  PROVE  Ejected' = Ejected
BY DEF Moves, Ejected

\* The engine stops or removes the container.
LEMMA EjectHolds ==
  ASSUME PolicyInv, \A q \in Procs : pc[q] = "shell" => pc'[q] = "shell",
         attached' = {}, forced' = forced
  PROVE  Policy!Eject
<1>1. TypeOK /\ ShellsAreOpen
  BY DEF PolicyInv, PolicyFacts, SerialInv, TurnInv, SessionInv
<1>2. HeldSessions' = {} BY DEF HeldSessions
<1>3. Ejected' \in SUBSET Procs BY <1>1 DEF Ejected, TypeOK
<1>4. Ejected \cup HeldSessions \subseteq Ejected'
  BY <1>1 DEF Ejected, HeldSessions, ShellsAreOpen, TypeOK
<1> QED BY <1>2, <1>3, <1>4 DEF Policy!Eject, Ejected

LEMMA StutterStep ==
  ASSUME token' = token, Up' = Up, HeldSessions' = HeldSessions, ActingNow' = ActingNow,
         Ejected' = Ejected
  PROVE  PolicyStep
BY DEF PolicyStep, Policy!vars, Up, ActingNow, Ejected

\* A step of p that the policy does not see, or sees as the end of p.
LEMMA QuietStep ==
  ASSUME PolicyInv, NEW p \in Procs, Busy(p), Moves(p), pc'[p] # "shell",
         UNCHANGED <<attached, forced>>,
         token' = token, Up' = Up, HeldSessions' = HeldSessions
  PROVE  PolicyStep
<1>1. Ejected' = Ejected BY EjectedOf DEF Busy
<1>2. CASE p \in forced
  <2>1. ActingNow' = ActingNow BY <1>2 DEF Moves, ActingNow, Busy, Alive
  <2> QED BY <1>1, <2>1, StutterStep
<1>3. CASE p \notin forced
  <2>1. Acting(p) BY <1>3 DEF Acting
  <2>2. CASE Acting(p)' BY <1>1, <2>1, <2>2, ActingOf, StutterStep
  <2>3. CASE ~Acting(p)'
    <3>1. ActingNow = {p} /\ ActingNow' = {} BY <2>1, <2>3, ActingOf
    <3>2. Policy!Finish(p) BY <1>1, <3>1 DEF Policy!Finish, Up, ActingNow, Ejected
    <3> QED BY <3>2 DEF PolicyStep, Policy!Next
  <2> QED BY <2>2, <2>3
<1> QED BY <1>2, <1>3

\* A worker's step that the policy does not see.
LEMMA WorkerQuiet ==
  ASSUME UNCHANGED <<pc, attached, forced, token>>, Up' = Up, HeldSessions' = HeldSessions
  PROVE  PolicyStep
<1>1. ActingNow' = ActingNow /\ Ejected' = Ejected BY DEF ActingNow, Ejected, Busy, Alive
<1> QED BY <1>1, StutterStep

LEMMA PruneKeepsHeld ==
  ASSUME PolicyInv, markers' = Pruned, attached' = attached
  PROVE  HeldSessions' = HeldSessions
BY DEF PolicyInv, PolicyFacts, SerialInv, TurnInv, SessionInv, TypeOK, ShellsAreOpen, HeldSessions,
       Pruned, Stale, Alive, Ended

\* The only armed tokens that set-up code meets are of forced exits.
LEMMA ClearedIsDisarmed ==
  ASSUME PolicyInv, NEW p \in Procs, Cleared(p)
  PROVE  Policy!Disarmed
BY DEF PolicyInv, SerialInv, TurnInv, TurnFacts, TokenCleared, Policy!Disarmed

LEMMA SetupImplements ==
  ASSUME Overlap = {}, PolicyInv, NEW p \in Procs, SetupStep(p)
  PROVE  PolicyStep
<1>0. TypeOK /\ ForcedLeave /\ SnapClear
  BY DEF PolicyInv, SerialInv, TurnInv, TurnFacts, SessionInv
<1> USE DEF HeldSessions, Up, engineVars, historyVars, turnVars, Goto
<1>1. ASSUME NEW c \in Commands, Launch(p, c) PROVE PolicyStep
  <2>1. ActingNow = {} /\ ActingNow' = {p}
    BY <1>0, <1>1, ProcsAssumption
    DEF Launch, MayAct, ActingNow, ForcedLeave, Busy, Alive, Ended, TypeOK
  <2>2. Ejected' = Ejected
    BY <1>0, <1>1, ProcsAssumption DEF Launch, Ejected, TypeOK
  <2>3. Policy!Begin(p) BY <1>1, <2>1, <2>2 DEF Launch, Policy!Begin, ActingNow, Ejected
  <2> QED BY <2>3 DEF PolicyStep, Policy!Next
<1>2. CASE Prepare(p)
  <2>1. Busy(p) /\ Moves(p) /\ pc'[p] # "shell"
    BY <1>0, <1>2 DEF Prepare, Busy, Alive, Ended, Moves, TypeOK
  <2>2. HeldSessions' = HeldSessions BY <1>2, PruneKeepsHeld DEF Prepare
  <2> QED BY <1>2, <2>1, <2>2, QuietStep DEF Prepare
<1>3. CASE ClearTimerLoad(p)
  <2>1. Busy(p) /\ Moves(p) /\ pc'[p] # "shell"
    BY <1>0, <1>3 DEF ClearTimerLoad, AfterClear, Busy, Alive, Ended, Moves, TypeOK
  <2> QED BY <1>3, <2>1, QuietStep DEF ClearTimerLoad
<1>4. CASE ClearTimerSave(p)
  <2>1. Acting(p) /\ Acting(p)' /\ Moves(p) /\ pc[p] # "shell" /\ pc'[p] # "shell"
    BY <1>0, <1>4
    DEF ClearTimerSave, AfterClear, ForcedLeave, Acting, Busy, Alive, Ended, Moves, TypeOK
  <2>2. ActingNow = {p} /\ ActingNow' = {p} BY <1>4, <2>1, ActingOf DEF ClearTimerSave
  <2>3. Ejected' = Ejected BY <1>4, <2>1, EjectedOf DEF ClearTimerSave
  <2>4. Policy!Cancel(p)
    BY <1>4, <2>2, <2>3 DEF ClearTimerSave, Policy!Cancel, ActingNow, Ejected
  <2> QED BY <2>4 DEF PolicyStep, Policy!Next
<1>5. CASE LoadState(p)
  <2>1. Busy(p) /\ Moves(p) /\ pc'[p] # "shell"
    BY <1>0, <1>5 DEF LoadState, Busy, Alive, Ended, Moves, TypeOK
  <2> QED BY <1>5, <2>1, QuietStep DEF LoadState
<1>6. CASE SaveState(p)
  <2>1. Acting(p) /\ Moves(p) /\ pc[p] # "shell" /\ pc'[p] # "shell"
    BY <1>0, <1>6 DEF SaveState, ForcedLeave, Acting, Busy, Alive, Ended, Moves, TypeOK
  <2>2. ActingNow = {p} /\ ActingNow' \in {{}, {p}} BY <1>6, <2>1, ActingOf DEF SaveState
  <2>3. Ejected' = Ejected BY <1>6, <2>1, EjectedOf DEF SaveState
  <2>4. Policy!Disarmed BY <1>6, ClearedIsDisarmed DEF SaveState, Cleared
  <2>5. Policy!Disarmed' BY <1>0, <1>6 DEF SaveState, SnapClear, Policy!Disarmed
  <2>6. Policy!Rewrite(p)
    BY <1>6, <2>2, <2>3, <2>4, <2>5 DEF SaveState, Policy!Rewrite, ActingNow, Ejected
  <2> QED BY <2>6 DEF PolicyStep, Policy!Next
<1>7. CASE DevcontainerUp(p)
  <2>1. /\ Acting(p) /\ Acting(p)' /\ Moves(p) /\ pc[p] # "shell" /\ pc'[p] # "shell"
        /\ forced' = forced
    BY <1>0, <1>7 DEF DevcontainerUp, ForcedLeave, Acting, Busy, Alive, Ended, Moves, TypeOK
  <2>2. ActingNow = {p} /\ ActingNow' = {p} BY <2>1, ActingOf
  <2>3. Policy!Disarmed BY <1>7, ClearedIsDisarmed DEF DevcontainerUp, Cleared
  <2>4. PICK recreate \in BOOLEAN :
          IF recreate \/ cid = NoProc
            THEN cid' = p /\ attached' = {}
            ELSE UNCHANGED <<cid, attached>>
    BY <1>7 DEF DevcontainerUp
  <2>5. running' = TRUE /\ UNCHANGED <<token, markers>> BY <1>7 DEF DevcontainerUp
  <2>6. \A q \in Procs : pc[q] = "shell" => pc'[q] = "shell" BY <2>1 DEF Moves
  <2>7. CASE attached' = {}
    <3>1. Up' \in Procs BY <1>0, <2>4, <2>5 DEF TypeOK, ProcOrNone
    <3>2. Policy!Eject BY <2>1, <2>6, <2>7, EjectHolds
    <3>3. Policy!BringUp(p) BY <2>2, <2>3, <2>5, <3>1, <3>2 DEF Policy!BringUp, ActingNow
    <3> QED BY <3>3 DEF PolicyStep, Policy!Next
  <2>8. CASE attached' # {}
    <3>1. UNCHANGED <<cid, attached>> BY <2>4, <2>8
    <3>2. running BY <1>0, <2>8, <3>1 DEF TypeOK
    <3>3. Up' = Up /\ Up' \in Procs /\ HeldSessions' = HeldSessions
      BY <1>0, <2>5, <3>1, <3>2 DEF TypeOK
    <3>4. Ejected' = Ejected BY <2>1, <3>1, EjectedOf
    <3>5. Policy!BringUp(p)
      BY <2>2, <2>3, <2>5, <3>3, <3>4 DEF Policy!BringUp, ActingNow, Ejected
    <3> QED BY <3>5 DEF PolicyStep, Policy!Next
  <2> QED BY <2>7, <2>8
<1>8. CASE DevcontainerUpFails(p)
  <2>1. /\ Acting(p) /\ ~Acting(p)' /\ Moves(p) /\ pc'[p] # "shell" /\ forced' = forced
        /\ \A q \in Procs : pc[q] = "shell" => pc'[q] = "shell"
    BY <1>0, <1>8 DEF DevcontainerUpFails, ForcedLeave, Acting, Busy, Alive, Ended, Moves, TypeOK
  <2>2. CASE RemoveOld
    <3>1. ActingNow = {p} /\ ActingNow' = {} BY <2>1, ActingOf
    <3>2. Policy!Eject BY <2>1, <2>2, EjectHolds DEF RemoveOld
    <3>3. Policy!Remove(p)
      BY <1>8, <2>2, <3>1, <3>2 DEF DevcontainerUpFails, RemoveOld, Policy!Remove, ActingNow
    <3> QED BY <3>3 DEF PolicyStep, Policy!Next
  <2>3. CASE UNCHANGED engineVars BY <1>8, <2>1, <2>3, QuietStep DEF DevcontainerUpFails, Acting
  <2> QED BY <1>8, <2>2, <2>3 DEF DevcontainerUpFails
<1>9. CASE SetupFails(p)
  <2>1. Busy(p) /\ Moves(p) /\ pc'[p] # "shell"
    BY <1>0, <1>9 DEF SetupFails, Busy, Alive, Ended, Moves, TypeOK
  <2> QED BY <1>9, <2>1, QuietStep DEF SetupFails
<1>10. CASE Settled(p)
  <2>1. Busy(p) /\ Moves(p) /\ pc'[p] # "shell"
    BY <1>0, <1>10 DEF Settled, Busy, Alive, Ended, Moves, TypeOK
  <2> QED BY <1>10, <2>1, QuietStep DEF Settled
<1> QED BY <1>1, <1>2, <1>3, <1>4, <1>5, <1>6, <1>7, <1>8, <1>9, <1>10 DEF SetupStep

LEMMA ShellImplements ==
  ASSUME Overlap = {}, PolicyInv, NEW p \in Procs, ShellStep(p)
  PROVE  PolicyStep
<1>0. TypeOK /\ ForcedLeave /\ ShellsAreOpen /\ TokenArmed
  BY DEF PolicyInv, PolicyFacts, SerialInv, TurnInv, TurnFacts, CancelFacts, SessionInv
<1> USE DEF HeldSessions, Up, engineVars, historyVars, turnVars, Goto
<1>1. CASE WaitForContainer(p)
  <2>1. Busy(p) /\ Moves(p) /\ pc'[p] # "shell"
    BY <1>0, <1>1 DEF WaitForContainer, Busy, Alive, Ended, Moves, TypeOK
  <2> QED BY <1>1, <2>1, QuietStep DEF WaitForContainer
<1>2. CASE WaitTimesOut(p)
  <2>1. Busy(p) /\ Moves(p) /\ pc'[p] # "shell"
    BY <1>0, <1>2 DEF WaitTimesOut, Busy, Alive, Ended, Moves, TypeOK
  <2> QED BY <1>2, <2>1, QuietStep DEF WaitTimesOut
<1>3. CASE CreateMarker(p)
  <2>1. Busy(p) /\ Moves(p) /\ pc'[p] # "shell"
    BY <1>0, <1>3 DEF CreateMarker, Busy, Alive, Ended, Moves, TypeOK
  <2>2. HeldSessions' = HeldSessions BY <1>0, <1>3 DEF CreateMarker, ShellsAreOpen, TypeOK
  <2> QED BY <1>3, <2>1, <2>2, QuietStep DEF CreateMarker
<1>4. CASE WriteMarker(p)
  <2>1. Busy(p) /\ Moves(p) /\ pc'[p] # "shell"
    BY <1>0, <1>4 DEF WriteMarker, Busy, Alive, Ended, Moves, TypeOK
  <2>2. HeldSessions' = HeldSessions BY <1>0, <1>4 DEF WriteMarker, ShellsAreOpen, TypeOK
  <2> QED BY <1>4, <2>1, <2>2, QuietStep DEF WriteMarker
<1>5. CASE DetectShell(p)
  <2>1. Busy(p) /\ Moves(p) /\ pc'[p] # "shell"
    BY <1>0, <1>5 DEF DetectShell, Busy, Alive, Ended, Moves, TypeOK
  <2> QED BY <1>5, <2>1, QuietStep DEF DetectShell
<1>6. CASE DetectShellFails(p)
  <2>1. Busy(p) /\ Moves(p) /\ pc'[p] # "shell"
    BY <1>0, <1>6 DEF DetectShellFails, Busy, Alive, Ended, Moves, TypeOK
  <2> QED BY <1>6, <2>1, QuietStep DEF DetectShellFails
<1>7. CASE OpenShell(p)
  <2>1. CASE Reachable(target[p])
    <3>1. /\ Acting(p) /\ ~Acting(p)' /\ Moves(p) /\ forced' = forced
          /\ p \in attached' /\ attached' = attached \cup {p}
          /\ UNCHANGED <<token, markers, cid, running>>
      BY <1>0, <1>7, <2>1
      DEF OpenShell, ForcedLeave, Acting, Busy, Alive, Ended, Moves, TypeOK
    <3>2. ActingNow = {p} /\ ActingNow' = {} BY <3>1, ActingOf
    <3>3. Ejected' = Ejected BY <3>1 DEF Ejected, Moves, Acting, Busy
    <3>4. CASE markers[p] = "written"
      <4>1. HeldSessions' = HeldSessions \cup {p} BY <3>1, <3>4
      <4>2. Up # NoProc BY <1>0, <2>1, ProcsAssumption DEF Reachable, TypeOK
      <4>3. Policy!Disarmed BY <1>7, ClearedIsDisarmed DEF OpenShell, Cleared
      <4>4. Policy!OpenShell(p)
        BY <3>1, <3>2, <3>3, <4>1, <4>2, <4>3 DEF Policy!OpenShell, ActingNow, Ejected
      <4> QED BY <4>4 DEF PolicyStep, Policy!Next
    <3>5. CASE markers[p] # "written"
      <4>1. HeldSessions' = HeldSessions BY <3>1, <3>5
      <4>2. Policy!Finish(p) BY <3>1, <3>2, <3>3, <4>1 DEF Policy!Finish, ActingNow, Ejected
      <4> QED BY <4>2 DEF PolicyStep, Policy!Next
    <3> QED BY <3>4, <3>5
  <2>2. CASE ~Reachable(target[p])
    <3>1. Busy(p) /\ Moves(p) /\ pc'[p] # "shell"
      BY <1>0, <1>7, <2>2 DEF OpenShell, Busy, Alive, Ended, Moves, TypeOK
    <3> QED BY <1>7, <2>2, <3>1, QuietStep DEF OpenShell
  <2> QED BY <2>1, <2>2
<1>8. CASE ShellExits(p)
  <2>1. /\ Moves(p) /\ pc[p] = "shell" /\ pc'[p] = "unregister" /\ p \notin forced
        /\ UNCHANGED <<token, markers, cid, running>>
        /\ attached' = attached \ {p} /\ HeldSessions' = HeldSessions \ {p}
    BY <1>0, <1>8 DEF ShellExits, ForcedLeave, Moves, TypeOK
  <2>2. CASE MayAct(p)
    <3>1. forced' = forced BY <1>8, <2>2 DEF ShellExits
    <3>2. ActingNow = {}
      BY <2>1, <2>2 DEF MayAct, ActingNow, Busy
    <3>3. ActingNow' = {p}
      BY <2>1, <3>1, <3>2 DEF ActingNow, Moves, Busy, Alive, Ended
    <3>4. Ejected' = Ejected \ {p} BY <2>1, <3>1 DEF Ejected, Moves
    <3>5. token # p BY <1>0, <2>1 DEF TokenArmed
    <3>6. Policy!CloseShell(p)
      BY <2>1, <3>2, <3>3, <3>4, <3>5 DEF Policy!CloseShell, ActingNow, Ejected
    <3> QED BY <3>6 DEF PolicyStep, Policy!Next
  <2>3. CASE ~MayAct(p)
    <3>1. forced' = forced \cup {p} /\ p \notin attached BY <1>8, <2>3 DEF ShellExits
    <3>2. HeldSessions' = HeldSessions BY <2>1, <3>1
    <3>3. ActingNow' = ActingNow BY <2>1, <3>1 DEF ActingNow, Moves, Busy, Alive
    <3>4. Ejected' = Ejected BY <2>1, <3>1 DEF Ejected, Moves
    <3> QED BY <2>1, <3>2, <3>3, <3>4, StutterStep
  <2> QED BY <2>2, <2>3
<1> QED BY <1>1, <1>2, <1>3, <1>4, <1>5, <1>6, <1>7, <1>8 DEF ShellStep

LEMMA ExitImplements ==
  ASSUME Overlap = {}, PolicyInv, NEW p \in Procs, ExitStep(p)
  PROVE  PolicyStep
<1>0. TypeOK /\ ShellsAreOpen /\ LastIsAlone
  BY DEF PolicyInv, PolicyFacts, SerialInv, TurnInv, SessionInv
<1> USE DEF HeldSessions, Up, engineVars, historyVars, turnVars, Goto
<1>1. CASE Unregister(p)
  <2>1. Busy(p) /\ Moves(p) /\ pc'[p] # "shell"
    BY <1>0, <1>1 DEF Unregister, Busy, Alive, Ended, Moves, TypeOK
  <2>2. HeldSessions' = HeldSessions BY <1>0, <1>1 DEF Unregister, ShellsAreOpen, TypeOK
  <2> QED BY <1>1, <2>1, <2>2, QuietStep DEF Unregister
<1>2. CASE ExitPrune(p)
  <2>1. Busy(p) /\ Moves(p) /\ pc'[p] # "shell"
    BY <1>0, <1>2 DEF ExitPrune, Busy, Alive, Ended, Moves, TypeOK
  <2>2. HeldSessions' = HeldSessions BY <1>2, PruneKeepsHeld DEF ExitPrune
  <2> QED BY <1>2, <2>1, <2>2, QuietStep DEF ExitPrune
<1>3. CASE CountPrune(p)
  <2>1. Busy(p) /\ Moves(p) /\ pc'[p] # "shell"
    BY <1>0, <1>3 DEF CountPrune, Busy, Alive, Ended, Moves, TypeOK
  <2>2. HeldSessions' = HeldSessions BY <1>3, PruneKeepsHeld DEF CountPrune
  <2> QED BY <1>3, <2>1, <2>2, QuietStep DEF CountPrune
<1>4. CASE CountOnExit(p)
  <2>1. Busy(p) /\ Moves(p) /\ pc'[p] # "shell"
    BY <1>0, <1>4 DEF CountOnExit, Busy, Alive, Ended, Moves, TypeOK
  <2> QED BY <1>4, <2>1, QuietStep DEF CountOnExit
<1>5. CASE CountBeforeRebuild(p)
  <2>1. Busy(p) /\ Moves(p) /\ pc'[p] # "shell"
    BY <1>0, <1>5 DEF CountBeforeRebuild, Busy, Alive, Ended, Moves, TypeOK
  <2> QED BY <1>5, <2>1, QuietStep DEF CountBeforeRebuild
<1>6. CASE SpawnTimer(p)
  <2>1. Busy(p) /\ Moves(p) /\ pc'[p] # "shell"
    BY <1>0, <1>6 DEF SpawnTimer, Busy, Alive, Ended, Moves, TypeOK
  <2> QED BY <1>6, <2>1, QuietStep DEF SpawnTimer
<1>7. CASE Arm(p)
  <2>1. /\ Busy(p) /\ ~Busy(p)' /\ Moves(p) /\ pc[p] # "shell" /\ pc'[p] # "shell"
        /\ token' = p /\ UNCHANGED <<cid, running, attached, markers, forced>>
    BY <1>0, <1>7 DEF Arm, Busy, Alive, Ended, Moves, TypeOK
  <2>2. Ejected' = Ejected BY <2>1, EjectedOf
  <2>3. CASE p \in forced
    <3>1. ActingNow' = ActingNow BY <2>1, <2>3 DEF ActingNow, Moves, Busy, Alive
    <3>2. Policy!ArmEjected(p)
      BY <2>1, <2>2, <2>3, <3>1 DEF Policy!ArmEjected, ActingNow, Ejected
    <3> QED BY <3>2 DEF PolicyStep, Policy!Next
  <2>4. CASE p \notin forced
    <3>1. ActingNow = {p} /\ ActingNow' = {} BY <2>1, <2>4, ActingOf DEF Acting
    <3>2. HeldSessions = {} BY <1>0, <1>7, <2>4 DEF Arm, LastIsAlone
    <3>3. Policy!Arm(p) BY <2>1, <2>2, <3>1, <3>2 DEF Policy!Arm, ActingNow, Ejected
    <3> QED BY <3>3 DEF PolicyStep, Policy!Next
  <2> QED BY <2>3, <2>4
<1> QED BY <1>1, <1>2, <1>3, <1>4, <1>5, <1>6, <1>7 DEF ExitStep

LEMMA StopImplements ==
  ASSUME Overlap = {}, PolicyInv, NEW p \in Procs, StopStep(p)
  PROVE  PolicyStep
<1>0. TypeOK /\ ForcedLeave BY DEF PolicyInv, SerialInv, TurnInv, TurnFacts, SessionInv
<1> USE DEF HeldSessions, Up, engineVars, historyVars, turnVars, Goto
<1>1. CASE ClearAllSessions(p)
  <2>1. /\ Acting(p) /\ Acting(p)' /\ Moves(p) /\ pc[p] # "shell" /\ pc'[p] # "shell"
        /\ UNCHANGED <<token, cid, running, attached, forced>>
    BY <1>0, <1>1
    DEF ClearAllSessions, ForcedLeave, Acting, Busy, Alive, Ended, Moves, TypeOK
  <2>2. ActingNow = {p} /\ ActingNow' = {p} BY <2>1, ActingOf
  <2>3. Ejected' = Ejected BY <2>1, EjectedOf
  <2>4. Policy!Disarmed BY <1>1, ClearedIsDisarmed DEF ClearAllSessions, Cleared
  <2>5. HeldSessions' = {} BY <1>0, <1>1 DEF ClearAllSessions, TypeOK
  <2>6. Policy!ForgetSessions(p)
    BY <2>1, <2>2, <2>3, <2>4, <2>5 DEF Policy!ForgetSessions, ActingNow, Ejected
  <2> QED BY <2>6 DEF PolicyStep, Policy!Next
<1>2. CASE KillFind(p)
  <2>1. Busy(p) /\ Moves(p) /\ pc'[p] # "shell"
    BY <1>0, <1>2 DEF KillFind, Busy, Alive, Ended, Moves, TypeOK
  <2> QED BY <1>2, <2>1, QuietStep DEF KillFind
<1>3. CASE KillStop(p)
  <2>1. /\ Acting(p) /\ Moves(p) /\ pc[p] # "shell" /\ pc'[p] # "shell"
        /\ UNCHANGED <<token, markers, forced>>
        /\ \A q \in Procs : pc[q] = "shell" => pc'[q] = "shell"
    BY <1>0, <1>3 DEF KillStop, ForcedLeave, Acting, Busy, Alive, Ended, Moves, TypeOK
  <2>2. CASE UNCHANGED engineVars BY <2>1, <2>2, QuietStep DEF Acting
  <2>3. CASE running' = FALSE /\ attached' = {}
    <3>1. ActingNow = {p} /\ ActingNow' \in {{}, {p}} BY <2>1, ActingOf
    <3>2. Policy!Eject BY <2>1, <2>3, EjectHolds
    <3>3. Policy!Remove(p) BY <2>1, <2>3, <3>1, <3>2 DEF Policy!Remove, ActingNow
    <3> QED BY <3>3 DEF PolicyStep, Policy!Next
  <2> QED BY <1>3, <2>2, <2>3 DEF KillStop, StopContainer
<1>4. CASE PruneList(p)
  <2>1. Busy(p) /\ Moves(p) /\ pc'[p] # "shell"
    BY <1>0, <1>4 DEF PruneList, Busy, Alive, Ended, Moves, TypeOK
  <2> QED BY <1>4, <2>1, QuietStep DEF PruneList
<1>5. CASE PruneRemove(p)
  <2>1. /\ Acting(p) /\ Moves(p) /\ pc[p] # "shell" /\ pc'[p] # "shell"
        /\ UNCHANGED <<token, markers, forced>>
        /\ \A q \in Procs : pc[q] = "shell" => pc'[q] = "shell"
    BY <1>0, <1>5 DEF PruneRemove, ForcedLeave, Acting, Busy, Alive, Ended, Moves, TypeOK
  <2>2. CASE UNCHANGED engineVars BY <2>1, <2>2, QuietStep DEF Acting
  <2>3. CASE RemoveOld
    <3>1. ActingNow = {p} /\ ActingNow' \in {{}, {p}} BY <2>1, ActingOf
    <3>2. Policy!Eject BY <2>1, <2>3, EjectHolds DEF RemoveOld
    <3>3. Policy!Remove(p) BY <2>1, <2>3, <3>1, <3>2 DEF RemoveOld, Policy!Remove, ActingNow
    <3> QED BY <3>3 DEF PolicyStep, Policy!Next
  <2> QED BY <1>5, <2>2, <2>3 DEF PruneRemove
<1> QED BY <1>1, <1>2, <1>3, <1>4, <1>5 DEF StopStep

LEMMA TimerImplements ==
  ASSUME Overlap = {}, PolicyInv, NEW p \in Procs, TimerStep(p)
  PROVE  PolicyStep
<1>0. TypeOK /\ QuietWorkers /\ NoneHeld /\ OnDuty
  BY DEF PolicyInv, PolicyFacts, SerialInv, SerialFacts, TurnInv, SessionInv
<1> USE DEF HeldSessions, Up, engineVars, historyVars, turnVars, TGoto
<1>1. CASE TimerWakes(p)
  <2>1. HeldSessions' = HeldSessions BY <1>1, PruneKeepsHeld DEF TimerWakes
  <2> QED BY <1>1, <2>1, WorkerQuiet DEF TimerWakes
<1>2. CASE TimerCountPrune(p)
  <2>1. HeldSessions' = HeldSessions BY <1>2, PruneKeepsHeld DEF TimerCountPrune
  <2> QED BY <1>2, <2>1, WorkerQuiet DEF TimerCountPrune
<1>3. CASE TimerCount(p) BY <1>3, WorkerQuiet DEF TimerCount
<1>4. CASE TimerCheck(p) BY <1>4, WorkerQuiet DEF TimerCheck
<1>5. CASE TimerFind(p) BY <1>5, WorkerQuiet DEF TimerFind
<1>6. CASE TimerStop(p)
  <2>1. UNCHANGED <<pc, token, markers, forced>> BY <1>6 DEF TimerStop
  <2>2. CASE UNCHANGED engineVars BY <2>1, <2>2, WorkerQuiet
  <2>3. CASE running' = FALSE /\ attached' = {}
    <3>1. ActingNow = {}
      BY <1>0, <1>6 DEF TimerStop, QuietWorkers, Awake, ActingNow, Acting
    <3>2. ActingNow' = ActingNow BY <2>1 DEF ActingNow, Busy, Alive
    <3>3. HeldSessions = {} BY <1>0, <1>6 DEF TimerStop, NoneHeld
    <3>4. token = p \/ (Ejected # {} /\ Policy!Disarmed)
      BY <1>0, <1>6 DEF TimerStop, OnDuty, Ejected, Policy!Disarmed
    <3>5. Policy!Eject BY <2>1, <2>3, EjectHolds
    <3>6. Policy!IdleStop(p)
      BY <2>1, <2>3, <3>1, <3>2, <3>3, <3>4, <3>5 DEF Policy!IdleStop, ActingNow, Ejected
    <3> QED BY <3>6 DEF PolicyStep, Policy!Next
  <2> QED BY <1>6, <2>2, <2>3 DEF TimerStop, StopContainer
<1>7. CASE TimerTailLoad(p) BY <1>7, WorkerQuiet DEF TimerTailLoad
<1>8. CASE TimerTailSave(p)
  <2>1. UNCHANGED <<pc, markers, cid, running, attached, forced>> /\ token' = NoProc
    BY <1>8 DEF TimerTailSave
  <2>2. ActingNow = {}
    BY <1>0, <1>8 DEF TimerTailSave, QuietWorkers, Awake, ActingNow, Acting
  <2>3. ActingNow' = ActingNow /\ Ejected' = Ejected
    BY <2>1 DEF ActingNow, Ejected, Busy, Alive
  <2>4. token = p \/ Policy!Disarmed
    BY <1>0, <1>8 DEF TimerTailSave, OnDuty, Policy!Disarmed
  <2>5. Policy!WorkerEnds(p)
    BY <2>1, <2>2, <2>3, <2>4 DEF Policy!WorkerEnds, ActingNow, Ejected
  <2> QED BY <2>5 DEF PolicyStep, Policy!Next
<1> QED BY <1>1, <1>2, <1>3, <1>4, <1>5, <1>6, <1>7, <1>8 DEF TimerStep

LEMMA CrashImplements ==
  ASSUME PolicyInv, NEW p \in Procs, Crash(p)
  PROVE  PolicyStep
<1>1. TypeOK /\ ShellsAreOpen /\ TokenArmed
  BY DEF PolicyInv, PolicyFacts, SerialInv, TurnInv, CancelFacts, SessionInv
<1>2. /\ Moves(p) /\ pc'[p] = "dead" /\ attached' = attached \ {p}
      /\ UNCHANGED <<token, markers, cid, running, forced>>
  BY <1>1 DEF Crash, Goto, Moves, TypeOK, turnVars
<1>3. ActingNow' = ActingNow \ {p}
  BY <1>2 DEF Moves, ActingNow, Busy, Alive, Ended
<1>4. HeldSessions' = HeldSessions \ {p} BY <1>2 DEF HeldSessions
<1>5. CASE p \in Ejected /\ p \notin forced
  <2>1. Ejected' = Ejected \ {p} BY <1>2, <1>5 DEF Ejected, Moves
  <2>2. token # p BY <1>1, <1>5 DEF Ejected, TokenArmed
  <2>3. Policy!Die(p)
    BY <1>2, <1>3, <1>4, <2>1, <2>2 DEF Policy!Die, ActingNow, Ejected
  <2> QED BY <2>3 DEF PolicyStep, Policy!Next
<1>6. CASE p \notin Ejected \/ p \in forced
  <2>1. Ejected' = Ejected BY <1>2, <1>6 DEF Ejected, Moves
  <2>2. Policy!Die(p) BY <1>2, <1>3, <1>4, <2>1 DEF Policy!Die, ActingNow, Ejected
  <2> QED BY <2>2 DEF PolicyStep, Policy!Next
<1> QED BY <1>5, <1>6

\* With no overlap, every execution of a workspace is one IdlePolicy allows: its
\* idle stop is armed, cancelled and carried out only as cli.py:146, 391 and 729
\* say, and the exits a command forces weaken only what they arm themselves.
THEOREM IdlePolicyHolds ==
  ASSUME Overlap = {} PROVE Spec => RefinesIdlePolicy
<1>1. Init => Policy!Init
  BY DEF Init, Policy!Init, HeldSessions, Busy, Alive, Ended
<1>2. PolicyInv /\ [Next]_vars => [Policy!Next]_Policy!vars
  <2> SUFFICES ASSUME PolicyInv, [Next]_vars PROVE PolicyStep BY DEF PolicyStep
  <2>1. ASSUME UNCHANGED vars PROVE PolicyStep
    BY <2>1, WorkerQuiet DEF vars, engineVars, historyVars, turnVars, Up, HeldSessions
  <2>2. CASE Next
    BY <2>2, SetupImplements, ShellImplements, ExitImplements, StopImplements, TimerImplements,
       CrashImplements DEF Next
  <2> QED BY <2>1, <2>2
<1> QED BY PolicyInvariant, <1>1, <1>2, PTL DEF Spec, RefinesIdlePolicy, Policy!Spec

\* With no overlap, no idle stop is armed while a session is held (cli.py:146, 391),
\* except by an invocation whose shell was closed under it.
THEOREM NothingArmedWhileHeld ==
  ASSUME Overlap = {} PROVE Spec => []Policy!ArmedWhenIdle
<1>1. Policy!Init => Policy!ArmedWhenIdle
  BY DEF Policy!Init, Policy!ArmedWhenIdle, Policy!Disarmed
<1>2. Policy!ArmedWhenIdle /\ [Policy!Next]_Policy!vars => Policy!ArmedWhenIdle'
  BY DEF Policy!ArmedWhenIdle, Policy!Disarmed, Policy!Eject, Policy!Next, Policy!vars,
         Policy!Begin, Policy!Finish, Policy!Cancel, Policy!Rewrite, Policy!BringUp,
         Policy!OpenShell, Policy!CloseShell, Policy!Arm, Policy!ArmEjected,
         Policy!ForgetSessions, Policy!Remove, Policy!IdleStop, Policy!WorkerEnds, Policy!Die
<1> QED BY IdlePolicyHolds, <1>1, <1>2, PTL DEF RefinesIdlePolicy, Policy!Spec
=============================================================================

---------------------------- MODULE ManagedShell ----------------------------
(***************************************************************************)
(* The life of one workspace: dcman invocations (`start`, `rebuild`,       *)
(* `kill`, `prune`), the session markers they keep under sessions/, the    *)
(* timer token they keep in state.json, the detached `_idle-stop` workers  *)
(* they spawn, and the one container they share.  There is no lock         *)
(* anywhere: every step below is one file-system call, one engine call or  *)
(* a stretch of code that touches neither.                                 *)
(*                                                                         *)
(* An invocation runs one command and exits, so a process of Procs is one  *)
(* invocation.  It spawns at most one worker, so the invocation's name is  *)
(* also the worker's and its token (secrets.token_hex: never repeated),    *)
(* and the session's (its marker) and the identity of the container it     *)
(* creates.                                                                *)
(***************************************************************************)
EXTENDS Naturals

CONSTANTS
  Procs,      \* dcman invocations
  NoProc,     \* "no token", "no container"
  Commands,   \* the commands the invocations may run
  Faults,     \* which failures the environment may inject
  Overlap,    \* what an invocation's set-up or exit code may overlap with:
              \* that of another ("commands"), an awake worker ("worker")
  LongDelay   \* does --idle-seconds outlast the parent's write of the token?

ASSUME ProcsAssumption ==
  /\ NoProc \notin Procs
  /\ Commands \subseteq {"start", "rebuild", "kill", "prune"}
  /\ Faults \subseteq {"setup", "detect", "engine", "crash"}
  /\ Overlap \subseteq {"commands", "worker"}
  /\ LongDelay \in BOOLEAN

VARIABLES
  cmd,       \* cmd[p]: the command invocation p runs
  pc,        \* pc[p]: what p does next
  snap,      \* snap[p]: timer_token in the dict p got from load_state
  token,     \* timer_token in state.json
  markers,   \* markers[p]: sessions/<p>.json
  cid,       \* the workspace's container
  running,   \* is it running?
  attached,  \* invocations whose shell is open in it
  target,    \* target[p]: the container id p resolved
  tpc,       \* tpc[t]: what the worker spawned by t does next
  ttarget,   \* ttarget[t]: the container id worker t resolved
  \* History, read by the properties only.
  owed,      \* a shell has closed and no worker was spawned since
  excused,   \* a process died holding a session
  cancelled, \* the tokens that clear_timer has erased
  forced     \* invocations whose exit code began out of turn: their container
             \* had gone while another command, or a worker, was acting

engineVars  == <<cid, running, attached>>
timerVars   == <<tpc, ttarget>>
turnVars    == <<cancelled, forced>>
historyVars == <<owed, excused, turnVars>>
vars == <<cmd, pc, snap, token, markers, engineVars, target, timerVars, historyVars>>

-----------------------------------------------------------------------------
ProcOrNone == Procs \cup {NoProc}

Ended == {"idle", "done", "dead"}

\* From register_session to the spawn of the worker: the invocation holds a
\* session, or has just closed its shell and is about to decide on the worker.
SessionPhases == {"write", "detect", "exec", "shell", "unregister",
                  "exitPrune", "countPrune", "count", "spawn"}

Labels == Ended \cup SessionPhases \cup
  {"prepare", "clearLoad", "clearSave", "setup", "setupSave", "settle",
   "settleSave", "wait", "create", "arm",
   "wipe", "find", "stop", "list", "remove", "reset", "resetSave"}

TimerLabels == {"off", "sleep", "countPrune", "count", "check", "find",
                "stop", "tailLoad", "tailSave", "done"}

\* pid_alive and pid_started_at together identify the manager process.
Alive(p) == pc[p] \notin Ended

Busy(p) == Alive(p) /\ pc[p] # "shell"

Awake(t) == tpc[t] \notin {"off", "sleep", "done"}

\* Unless the overlap is allowed, the user touches no terminal while another
\* command is in its set-up or exit code, or while a worker is awake: he starts
\* no command then and leaves no shell, ...
MayAct(p) ==
  /\ "commands" \in Overlap \/ \A q \in Procs \ {p} : ~Busy(q)
  /\ "worker" \in Overlap \/ \A t \in Procs : ~Awake(t)

\* ... and no worker's sleep ends while a command is in such code.
MayWake == "worker" \in Overlap \/ \A p \in Procs : ~Busy(p)

\* Mutant: a marker outlives its process.
StaleIgnoringDeath(q) == markers[q] = "torn"

\* marker_matches_live_manager; a half-written marker does not parse.
Stale(q) == markers[q] = "torn" \/ (markers[q] = "written" /\ ~Alive(q))

\* prune_stale_sessions.  Nothing can make a stale marker fresh between its
\* read and its unlink except its writer's write, which then goes to an
\* unlinked file (WriteMarker): reading and unlinking are one step.
Pruned == [q \in Procs |-> IF Stale(q) THEN "absent" ELSE markers[q]]

\* Mutant: the count still allows for the caller's own session.
AtMostOneMarker == \E r \in Procs : \A q \in Procs \ {r} : markers[q] = "absent"

\* active_session_files after its prune: the glob.
NoMarkers == \A q \in Procs : markers[q] = "absent"

Goto(p, l) == pc' = [pc EXCEPT ![p] = l]

-----------------------------------------------------------------------------
Init ==
  /\ cmd = [p \in Procs |-> "none"]
  /\ pc = [p \in Procs |-> "idle"]
  /\ snap = [p \in Procs |-> NoProc]
  /\ token = NoProc
  /\ markers = [p \in Procs |-> "absent"]
  /\ cid = NoProc
  /\ running = FALSE
  /\ attached = {}
  /\ target = [p \in Procs |-> NoProc]
  /\ tpc = [p \in Procs |-> "off"]
  /\ ttarget = [p \in Procs |-> NoProc]
  /\ owed = FALSE
  /\ excused = FALSE
  /\ cancelled = {}
  /\ forced = {}

(***************************************************************************)
(* Preparing the workspace and cancelling the pending worker.              *)
(***************************************************************************)
\* The user runs a command.  kill skips _prepare_workspace's prune, and prune
\* looks for containers first.
Launch(p, c) ==
  /\ pc[p] = "idle"
  /\ MayAct(p)
  /\ cmd' = [cmd EXCEPT ![p] = c]
  /\ Goto(p, CASE c \in {"start", "rebuild"} -> "prepare"
               [] c = "kill" -> "clearLoad"
               [] c = "prune" -> "list")
  /\ UNCHANGED <<snap, token, markers, engineVars, target, timerVars, historyVars>>

\* _prepare_workspace: prune_stale_sessions.
Prepare(p) ==
  /\ pc[p] = "prepare"
  /\ markers' = Pruned
  /\ Goto(p, "clearLoad")
  /\ UNCHANGED <<cmd, snap, token, engineVars, target, timerVars, historyVars>>

AfterClear(p) ==
  CASE cmd[p] = "start" -> "setup"
    [] cmd[p] = "rebuild" -> "countPrune"
    [] OTHER -> "wipe"

\* Mutant: the pending worker is not cancelled.
ClearTimerLoadKeeping(p) ==
  /\ pc[p] = "clearLoad"
  /\ Goto(p, AfterClear(p))
  /\ UNCHANGED <<cmd, snap, token, markers, engineVars, target, timerVars, historyVars>>

\* clear_timer: load_state, and the test that skips the save.
ClearTimerLoad(p) ==
  /\ pc[p] = "clearLoad"
  /\ Goto(p, IF token = NoProc THEN AfterClear(p) ELSE "clearSave")
  /\ UNCHANGED <<cmd, snap, token, markers, engineVars, target, timerVars, historyVars>>

\* clear_timer: save_state with the timer fields emptied.
ClearTimerSave(p) ==
  /\ pc[p] = "clearSave"
  /\ token' = NoProc
  /\ cancelled' = cancelled \cup ({token} \ {NoProc})
  /\ Goto(p, AfterClear(p))
  /\ UNCHANGED <<cmd, snap, markers, engineVars, target, timerVars, owed, excused, forced>>

(***************************************************************************)
(* Bringing the container up.                                              *)
(***************************************************************************)
\* Any other read-modify-write of state.json: it changes keys this module does
\* not follow and writes back the timer_token it loaded.  Before the container
\* is up: save_devcontainer_hash, alloc_ssh_port; after: mark_seeded_file_current,
\* save_devcontainer_hash; at the end of clear_workspace_tracking: its reset.
LoadState(p) ==
  /\ pc[p] \in {"setup", "settle", "reset"}
  /\ snap' = [snap EXCEPT ![p] = token]
  /\ Goto(p, CASE pc[p] = "setup" -> "setupSave"
               [] pc[p] = "settle" -> "settleSave"
               [] pc[p] = "reset" -> "resetSave")
  /\ UNCHANGED <<cmd, token, markers, engineVars, target, timerVars, historyVars>>

SaveState(p) ==
  /\ pc[p] \in {"setupSave", "settleSave", "resetSave"}
  /\ token' = snap[p]
  /\ snap' = [snap EXCEPT ![p] = NoProc]
  /\ Goto(p, CASE pc[p] = "setupSave" -> "setup"
               [] pc[p] = "settleSave" -> "settle"
               [] pc[p] = "resetSave" -> "done")
  /\ UNCHANGED <<cmd, markers, engineVars, target, timerVars, historyVars>>

\* The engine removes the container and with it every shell in it.
RemoveOld ==
  /\ cid' = NoProc
  /\ running' = FALSE
  /\ attached' = {}

\* Mutant: only --remove-existing-container creates one.
DevcontainerUpReusing(p) ==
  /\ pc[p] = "setup"
  /\ \E recreate \in BOOLEAN :
       IF recreate THEN cid' = p /\ attached' = {} ELSE UNCHANGED <<cid, attached>>
  /\ running' = TRUE
  /\ Goto(p, "settle")
  /\ UNCHANGED <<cmd, snap, token, markers, target, timerVars, historyVars>>

\* `devcontainer up`: with --remove-existing-container, or when there is none,
\* a new container; otherwise the existing one is reused, restarted if need be.
\* `rebuild` always recreates; `start` does when the config review says so.
DevcontainerUp(p) ==
  /\ pc[p] = "setup"
  /\ \E recreate \in (IF cmd[p] = "rebuild" THEN {TRUE} ELSE BOOLEAN) :
       IF recreate \/ cid = NoProc
         THEN cid' = p /\ attached' = {}
         ELSE UNCHANGED <<cid, attached>>
  /\ running' = TRUE
  /\ Goto(p, "settle")
  /\ UNCHANGED <<cmd, snap, token, markers, target, timerVars, historyVars>>

\* The Dev Container CLI fails, before or after it removed the old container.
DevcontainerUpFails(p) ==
  /\ "engine" \in Faults
  /\ pc[p] = "setup"
  /\ RemoveOld \/ UNCHANGED engineVars
  /\ Goto(p, "dead")
  /\ UNCHANGED <<cmd, snap, token, markers, target, timerVars, historyVars>>

\* click.Abort at the prompt, a CmdError of a check, of a look-up or of the SSH
\* bootstrap, no host port: the invocation ends with the worker cancelled.
SetupFails(p) ==
  /\ "setup" \in Faults
  /\ pc[p] \in {"setup", "settle", "wait", "create"}
  /\ Goto(p, "dead")
  /\ UNCHANGED <<cmd, snap, token, markers, engineVars, target, timerVars, historyVars>>

\* _container_up returns; a rebuild opens no shell.
Settled(p) ==
  /\ pc[p] = "settle"
  /\ Goto(p, IF cmd[p] = "start" THEN "wait" ELSE "done")
  /\ UNCHANGED <<cmd, snap, token, markers, engineVars, target, timerVars, historyVars>>

(***************************************************************************)
(* The managed shell.                                                      *)
(***************************************************************************)
\* wait_for_container: a poll that sees running containers only.
WaitForContainer(p) ==
  /\ pc[p] = "wait"
  /\ running
  /\ target' = [target EXCEPT ![p] = cid]
  /\ Goto(p, "create")
  /\ UNCHANGED <<cmd, snap, token, markers, engineVars, timerVars, historyVars>>

\* Ten seconds without one: "no matching devcontainer found".
WaitTimesOut(p) ==
  /\ pc[p] = "wait"
  /\ ~running
  /\ Goto(p, "dead")
  /\ UNCHANGED <<cmd, snap, token, markers, engineVars, target, timerVars, historyVars>>

\* register_session, write_text: the file exists before it has its content.
CreateMarker(p) ==
  /\ pc[p] = "create"
  /\ markers' = [markers EXCEPT ![p] = "torn"]
  /\ Goto(p, "write")
  /\ UNCHANGED <<cmd, snap, token, engineVars, target, timerVars, historyVars>>

\* ... and the content goes to the file that was opened, linked or not.
WriteMarker(p) ==
  /\ pc[p] = "write"
  /\ markers' = [markers EXCEPT ![p] = IF markers[p] = "torn" THEN "written" ELSE "absent"]
  /\ Goto(p, "detect")
  /\ UNCHANGED <<cmd, snap, token, engineVars, target, timerVars, historyVars>>

Reachable(c) == running /\ cid = c

\* detect_shell: an exec in the container.  Outside the try block.
DetectShell(p) ==
  /\ pc[p] = "detect"
  /\ Goto(p, "exec")
  /\ UNCHANGED <<cmd, snap, token, markers, engineVars, target, timerVars, historyVars>>

\* container_exec_ok raises on any exit code but 0 and 1: the container is not
\* there any more, or its image cannot run the probe.
DetectShellFails(p) ==
  /\ pc[p] = "detect"
  /\ Reachable(target[p]) => "detect" \in Faults
  /\ Goto(p, "dead")
  /\ excused' = TRUE
  /\ UNCHANGED <<cmd, snap, token, markers, engineVars, target, timerVars, owed, turnVars>>

\* container_exec_interactive: fails at once when the container is gone.
OpenShell(p) ==
  /\ pc[p] = "exec"
  /\ IF Reachable(target[p])
       THEN attached' = attached \cup {p} /\ Goto(p, "shell")
       ELSE UNCHANGED attached /\ Goto(p, "unregister")
  /\ UNCHANGED <<cmd, snap, token, markers, cid, running, target, timerVars, historyVars>>

\* The user leaves the shell; or its container went away under it, and the exec
\* returns at once, whoever else is acting.
ShellExits(p) ==
  /\ pc[p] = "shell"
  /\ p \in attached => MayAct(p)
  /\ forced' = forced \cup (IF MayAct(p) THEN {} ELSE {p})
  /\ attached' = attached \ {p}
  /\ Goto(p, "unregister")
  /\ UNCHANGED <<cmd, snap, token, markers, cid, running, target, timerVars, owed, excused, cancelled>>

(***************************************************************************)
(* The finally block: unregister, prune, count, arm.                       *)
(***************************************************************************)
\* Mutant: the session's own marker stays.
UnregisterKeeping(p) ==
  /\ pc[p] = "unregister"
  /\ owed' = TRUE
  /\ Goto(p, "exitPrune")
  /\ UNCHANGED <<cmd, snap, token, markers, engineVars, target, timerVars, excused, turnVars>>

Unregister(p) ==
  /\ pc[p] = "unregister"
  /\ markers' = [markers EXCEPT ![p] = "absent"]
  /\ owed' = TRUE
  /\ Goto(p, "exitPrune")
  /\ UNCHANGED <<cmd, snap, token, engineVars, target, timerVars, excused, turnVars>>

ExitPrune(p) ==
  /\ pc[p] = "exitPrune"
  /\ markers' = Pruned
  /\ Goto(p, "countPrune")
  /\ UNCHANGED <<cmd, snap, token, engineVars, target, timerVars, historyVars>>

\* active_session_count: a second prune, then the glob.
CountPrune(p) ==
  /\ pc[p] = "countPrune"
  /\ markers' = Pruned
  /\ Goto(p, "count")
  /\ UNCHANGED <<cmd, snap, token, engineVars, target, timerVars, historyVars>>

\* The last shell out spawns the worker.
CountOnExit(p) ==
  /\ pc[p] = "count"
  /\ cmd[p] = "start"
  /\ Goto(p, IF NoMarkers THEN "spawn" ELSE "done")
  /\ UNCHANGED <<cmd, snap, token, markers, engineVars, target, timerVars, historyVars>>

\* `rebuild` refuses while a session is active, unless --force.
CountBeforeRebuild(p) ==
  /\ pc[p] = "count"
  /\ cmd[p] = "rebuild"
  /\ \E force \in BOOLEAN : Goto(p, IF NoMarkers \/ force THEN "setup" ELSE "done")
  /\ UNCHANGED <<cmd, snap, token, markers, engineVars, target, timerVars, historyVars>>

\* schedule_idle_stop: Popen first ...
SpawnTimer(p) ==
  /\ pc[p] = "spawn"
  /\ tpc' = [tpc EXCEPT ![p] = "sleep"]
  /\ owed' = FALSE
  /\ Goto(p, "arm")
  /\ UNCHANGED <<cmd, snap, token, markers, engineVars, target, ttarget, excused, turnVars>>

\* ... then the token, over whatever is there.
Arm(p) ==
  /\ pc[p] = "arm"
  /\ token' = p
  /\ Goto(p, "done")
  /\ UNCHANGED <<cmd, snap, markers, engineVars, target, timerVars, historyVars>>

(***************************************************************************)
(* kill and prune.                                                         *)
(***************************************************************************)
\* clear_all_sessions, of live shells too.
ClearAllSessions(p) ==
  /\ pc[p] = "wipe"
  /\ markers' = [q \in Procs |-> "absent"]
  /\ Goto(p, IF cmd[p] = "kill" THEN "find" ELSE "reset")
  /\ UNCHANGED <<cmd, snap, token, engineVars, target, timerVars, historyVars>>

\* find_container, which raises when the engine does not answer.
KillFind(p) ==
  /\ pc[p] = "find"
  /\ target' = [target EXCEPT ![p] = cid]
  /\ \/ Goto(p, IF running THEN "stop" ELSE "done")
     \/ "engine" \in Faults /\ Goto(p, "dead")
  /\ UNCHANGED <<cmd, snap, token, markers, engineVars, timerVars, historyVars>>

\* stop_container on the id that was found: nothing happens when the container
\* was replaced meanwhile, and the engine may fail.
StopContainer(c) ==
  \/ /\ Reachable(c)
     /\ running' = FALSE
     /\ attached' = {}
     /\ UNCHANGED cid
  \/ /\ Reachable(c) => "engine" \in Faults
     /\ UNCHANGED engineVars

KillStop(p) ==
  /\ pc[p] = "stop"
  /\ StopContainer(target[p])
  /\ Goto(p, "done")
  /\ UNCHANGED <<cmd, snap, token, markers, target, timerVars, historyVars>>

\* prune: find_initialized_devcontainers, and the confirmation.
PruneList(p) ==
  /\ pc[p] = "list"
  /\ target' = [target EXCEPT ![p] = cid]
  /\ \/ cid = NoProc /\ Goto(p, "clearLoad")
     \/ cid # NoProc /\ \E confirmed \in BOOLEAN :
                          Goto(p, IF confirmed THEN "remove" ELSE "done")
  /\ UNCHANGED <<cmd, snap, token, markers, engineVars, timerVars, historyVars>>

\* remove_container --force; a CmdError ends the command before it clears the
\* workspace's tracking.
PruneRemove(p) ==
  /\ pc[p] = "remove"
  /\ \/ cid = target[p] /\ RemoveOld /\ Goto(p, "clearLoad")
     \/ cid # target[p] /\ UNCHANGED engineVars /\ Goto(p, "clearLoad")
     \/ /\ cid = target[p] => "engine" \in Faults
        /\ UNCHANGED engineVars
        /\ Goto(p, "dead")
  /\ UNCHANGED <<cmd, snap, token, markers, target, timerVars, historyVars>>

(***************************************************************************)
(* The `_idle-stop` worker.                                                *)
(***************************************************************************)
TGoto(t, l) == tpc' = [tpc EXCEPT ![t] = l]

\* The sleep ends; prune_stale_sessions.
TimerWakes(t) ==
  /\ tpc[t] = "sleep"
  /\ MayWake
  /\ LongDelay => pc[t] # "arm"
  /\ markers' = Pruned
  /\ TGoto(t, "countPrune")
  /\ UNCHANGED <<cmd, pc, snap, token, engineVars, target, ttarget, historyVars>>

TimerCountPrune(t) ==
  /\ tpc[t] = "countPrune"
  /\ markers' = Pruned
  /\ TGoto(t, "count")
  /\ UNCHANGED <<cmd, pc, snap, token, engineVars, target, ttarget, historyVars>>

TimerCount(t) ==
  /\ tpc[t] = "count"
  /\ TGoto(t, IF NoMarkers THEN "check" ELSE "done")
  /\ UNCHANGED <<cmd, pc, snap, token, markers, engineVars, target, ttarget, historyVars>>

\* The token check.
TimerCheck(t) ==
  /\ tpc[t] = "check"
  /\ TGoto(t, IF token = t THEN "find" ELSE "done")
  /\ UNCHANGED <<cmd, pc, snap, token, markers, engineVars, target, ttarget, historyVars>>

\* A raising find_container ends the worker with its token in place.
TimerFind(t) ==
  /\ tpc[t] = "find"
  /\ ttarget' = [ttarget EXCEPT ![t] = cid]
  /\ \/ TGoto(t, IF running THEN "stop" ELSE "tailLoad")
     \/ "engine" \in Faults /\ TGoto(t, "done")
  /\ UNCHANGED <<cmd, pc, snap, token, markers, engineVars, target, historyVars>>

\* The result of stop_container is not looked at.
TimerStop(t) ==
  /\ tpc[t] = "stop"
  /\ StopContainer(ttarget[t])
  /\ TGoto(t, "tailLoad")
  /\ UNCHANGED <<cmd, pc, snap, token, markers, target, ttarget, historyVars>>

\* The worker's own read-modify-write: it clears its token if still there.
TimerTailLoad(t) ==
  /\ tpc[t] = "tailLoad"
  /\ TGoto(t, IF token = t THEN "tailSave" ELSE "done")
  /\ UNCHANGED <<cmd, pc, snap, token, markers, engineVars, target, ttarget, historyVars>>

\* Mutant: the loaded state is saved as it was.
TimerTailSaveUncleared(t) ==
  /\ tpc[t] = "tailSave"
  /\ token' = t
  /\ TGoto(t, "done")
  /\ UNCHANGED <<cmd, pc, snap, markers, engineVars, target, ttarget, historyVars>>

TimerTailSave(t) ==
  /\ tpc[t] = "tailSave"
  /\ token' = NoProc
  /\ TGoto(t, "done")
  /\ UNCHANGED <<cmd, pc, snap, markers, engineVars, target, ttarget, historyVars>>

(***************************************************************************)
(* The invocation is killed (SIGKILL, SIGHUP of a closed terminal): no     *)
(* finally block runs, and its shell goes with its terminal.               *)
(***************************************************************************)
Crash(p) ==
  /\ "crash" \in Faults
  /\ Alive(p)
  /\ Goto(p, "dead")
  /\ attached' = attached \ {p}
  /\ excused' = (excused \/ pc[p] \in SessionPhases)
  /\ UNCHANGED <<cmd, snap, token, markers, cid, running, target, timerVars, owed, turnVars>>

-----------------------------------------------------------------------------
SetupStep(p) ==
  \/ \E c \in Commands : Launch(p, c)
  \/ Prepare(p) \/ ClearTimerLoad(p) \/ ClearTimerSave(p)
  \/ LoadState(p) \/ SaveState(p)
  \/ DevcontainerUp(p) \/ DevcontainerUpFails(p) \/ SetupFails(p) \/ Settled(p)

ShellStep(p) ==
  \/ WaitForContainer(p) \/ WaitTimesOut(p)
  \/ CreateMarker(p) \/ WriteMarker(p)
  \/ DetectShell(p) \/ DetectShellFails(p) \/ OpenShell(p) \/ ShellExits(p)

ExitStep(p) ==
  \/ Unregister(p) \/ ExitPrune(p) \/ CountPrune(p)
  \/ CountOnExit(p) \/ CountBeforeRebuild(p)
  \/ SpawnTimer(p) \/ Arm(p)

StopStep(p) ==
  \/ ClearAllSessions(p) \/ KillFind(p) \/ KillStop(p)
  \/ PruneList(p) \/ PruneRemove(p)

TimerStep(t) ==
  \/ TimerWakes(t) \/ TimerCountPrune(t) \/ TimerCount(t) \/ TimerCheck(t)
  \/ TimerFind(t) \/ TimerStop(t) \/ TimerTailLoad(t) \/ TimerTailSave(t)

Next ==
  \E p \in Procs :
    SetupStep(p) \/ ShellStep(p) \/ ExitStep(p) \/ StopStep(p) \/ TimerStep(p) \/ Crash(p)

Spec == Init /\ [][Next]_vars

\* A spawned worker runs to its end; nothing is assumed of the user.
WorkerSpec == Spec /\ \A t \in Procs : WF_vars(TimerStep(t))

\* In addition an invocation the user has started runs to its end, and a user
\* in a shell eventually leaves it.
InvocationStep(p) ==
  \/ Prepare(p) \/ ClearTimerLoad(p) \/ ClearTimerSave(p) \/ LoadState(p) \/ SaveState(p)
  \/ DevcontainerUp(p) \/ Settled(p)
  \/ ShellStep(p) \/ ExitStep(p) \/ StopStep(p)

\* Strong fairness leaves the loops of LoadState: an invocation saves state.json
\* finitely often.
LeavesLoop(p) == DevcontainerUp(p) \/ Settled(p)

FairSpec ==
  /\ WorkerSpec
  /\ \A p \in Procs : WF_vars(InvocationStep(p)) /\ SF_vars(LeavesLoop(p))

-----------------------------------------------------------------------------
(***************************************************************************)
(* Properties.                                                             *)
(***************************************************************************)
\* Every variable keeps to the values the code can give it; in particular the
\* token is always some invocation's or none (state.py:265-271, 225-232), and only
\* a running container holds shells.
TypeOK ==
  /\ cmd \in [Procs -> {"none"} \cup Commands]
  /\ pc \in [Procs -> Labels]
  /\ snap \in [Procs -> ProcOrNone]
  /\ token \in ProcOrNone
  /\ markers \in [Procs -> {"absent", "torn", "written"}]
  /\ cid \in ProcOrNone
  /\ running \in BOOLEAN
  /\ attached \subseteq Procs
  /\ target \in [Procs -> ProcOrNone]
  /\ tpc \in [Procs -> TimerLabels]
  /\ ttarget \in [Procs -> ProcOrNone]
  /\ owed \in BOOLEAN
  /\ excused \in BOOLEAN
  /\ cancelled \subseteq Procs
  /\ forced \subseteq Procs
  /\ running => cid \in Procs
  /\ attached # {} => running

\* The last one out arms the idle stop (cli.py:386-392): once a shell has closed,
\* some invocation is still on its way to spawning a worker, until one does.
\* However the exits, prunes and kills interleave, two invocations never each
\* leave it to the other.  A process that died with a session is the exception.
LastOneOutArms ==
  owed /\ ~excused => \E p \in Procs : cmd[p] = "start" /\ pc[p] \in SessionPhases

\* The worker reads the sessions and the token at different times
\* (cli.py:735-743).  When both reads let it pass, no live invocation held a
\* session at the time of the second: a shell that appeared after the count has
\* cancelled the token first.  The exception is the worker of an invocation whose
\* shell was closed under it while another command was acting: it may be armed
\* after that command has cancelled.
BothChecksHold ==
  \A t \in Procs \ forced : tpc[t] = "check" /\ token = t =>
    \A p \in Procs : Alive(p) => markers[p] = "absent"

\* An open shell whose session nothing has removed.
HeldSessions == {p \in attached : markers[p] = "written"}

\* "clearing the token is enough to invalidate already-spawned timers"
\* (state.py:228): no whole-dict save of another command, or of a worker, brings
\* a cancelled token back.
CancelledStays == token \notin cancelled

\* The worker stops the container "unless a new shell session has started or
\* sessions are still active" (cli.py:729-730).
WorkerSparesSessions ==
  [][\A t \in Procs : TimerStop(t) /\ running' # running => HeldSessions = {}]_vars

\* An armed worker whose engine works does its duty (cli.py:745-746): the
\* container it found armed stops or is replaced, unless a session is held
\* or the worker was cancelled before its checks were over.
ArmedWorkerStops ==
  \A t, c \in Procs :
    (tpc[t] = "sleep" /\ token = t /\ Reachable(c)) ~>
      \/ ~Reachable(c)
      \/ \E p \in Procs : Alive(p) /\ markers[p] # "absent"
      \/ token # t /\ tpc[t] \in {"sleep", "countPrune", "count", "check"}

\* After the last command and the last shell the container does not run for
\* ever (README.md:8, "auto-arms idle shutdown when you exit").
ContainerEventuallyStops == <>[]~running

\* Session markers are the source of truth for "is this workspace still in
\* use?" (cli.py:373): an open shell has a marker that reads as live.
OpenShellHasMarker == \A p \in attached : markers[p] = "written"

\* "cannot rebuild while another managed shell session is still active"
\* (cli.py:457): no command replaces the container under a held session.
NoRebuildUnderSession ==
  [][\A p \in Procs : DevcontainerUp(p) /\ cid' # cid => HeldSessions = {}]_vars

\* One workspace keeps the promise of IdlePolicy.
Policy == INSTANCE IdlePolicy WITH
  armed <- token,
  up <- IF running THEN cid ELSE NoProc,
  held <- HeldSessions,
  acting <- {p \in Procs \ forced : Busy(p)},
  ejected <- {p \in Procs : pc[p] = "shell" /\ p \notin attached} \cup forced

RefinesIdlePolicy == Policy!Spec
=============================================================================

------------------------------- MODULE PruneAll -------------------------------
(***************************************************************************)
(* `dcman prune` of one workspace, of one selected from a table, or of     *)
(* all: the containers are listed, the user confirms, each is removed, and *)
(* the tracking of their workspaces is cleared.  Starts and the engine go  *)
(* on meanwhile.                                                           *)
(*                                                                         *)
(* Here the steps of a start are one (ConfigReview and ManagedShell have   *)
(* them), and a workspace's tracking is there or not; known_hosts, which   *)
(* a prune clears with it, is BringUp's.                                   *)
(***************************************************************************)
EXTENDS FiniteSets

CONSTANTS
  Procs,       \* terminals, each running one prune after another
  Workspaces,
  Ids,         \* containers; the engine gives no id twice
  Owner,       \* Owner[c]: _workspace_from_container
  Worlds       \* which disturbances come together

\* Commands run at once, `prune all` is used, removals fail and commands are killed.
Disturbances == {"overlap", "all", "faults"}

ASSUME PruneAssumption ==
  /\ Owner \in [Ids -> Workspaces]
  /\ Worlds \subseteq SUBSET Disturbances

VARIABLES
  world,     \* the disturbances of this behaviour
  status,    \* status[c]: what the engine knows of container c
  tracked,   \* tracked[w]: does the state of w hold a timer, a session or a snapshot?
  pc,        \* pc[p]: what p does next
  mode,      \* mode[p]: TARGET is a workspace, "select" or "all"
  target,    \* target[p]: the workspace p is about to clear
  left,      \* left[p]: the listed containers p has still to remove
  done,      \* done[p]: cleared_workspaces
  \* History, read by the properties only.
  listed,    \* listed[p]: the containers p listed last
  touched    \* touched[p]: the workspaces started since p began to list

engineVars == <<status, tracked>>
historyVars == <<listed, touched>>
vars == <<world, engineVars, pc, mode, target, left, done, historyVars>>

-----------------------------------------------------------------------------
\* "removing": still in `ps -a`, but an inspect reports it as gone.
Statuses == {"free", "there", "removing", "gone"}

Ended == {"idle", "failed", "pruned"}

Steps == Ended \cup {"list", "inspect", "prompt", "remove", "clear"}

Goto(p, l) == pc' = [pc EXCEPT ![p] = l]

There(w) == {c \in Ids : Owner[c] = w /\ status[c] = "there"}

MayAct == "overlap" \in world \/ \A p \in Procs : pc[p] \in Ended

\* Any containers, of dcman or of other tools that label them alike; those of one
\* workspace may be several.
Init ==
  /\ world \in Worlds
  /\ status \in [Ids -> {"free", "there"}]
  /\ tracked \in [Workspaces -> BOOLEAN]
  /\ \A w \in Workspaces : There(w) # {} => tracked[w]
  /\ pc = [p \in Procs |-> "idle"]
  /\ mode = [p \in Procs |-> "target"]
  /\ target \in [Procs -> Workspaces]
  /\ left = [p \in Procs |-> {}]
  /\ done = [p \in Procs |-> {}]
  /\ listed = [p \in Procs |-> {}]
  /\ touched = [p \in Procs |-> {}]

(***************************************************************************)
(* Starts and the engine.                                                  *)
(***************************************************************************)
\* A start of w, in the container it finds or in a new one.
Start(w) ==
  /\ MayAct
  /\ IF There(w) # {}
       THEN UNCHANGED status
       ELSE \E c \in Ids : /\ Owner[c] = w /\ status[c] = "free"
                           /\ status' = [status EXCEPT ![c] = "there"]
  /\ tracked' = [tracked EXCEPT ![w] = TRUE]
  /\ touched' = [p \in Procs |-> touched[p] \cup {w}]
  /\ UNCHANGED <<world, pc, mode, target, left, done, listed>>

\* A removal under way ends.
RemovalEnds(c) ==
  /\ status[c] = "removing"
  /\ status' = [status EXCEPT ![c] = "gone"]
  /\ UNCHANGED <<world, tracked, pc, mode, target, left, done, historyVars>>

(***************************************************************************)
(* prune_cmd.                                                              *)
(***************************************************************************)
Prune(p) ==
  /\ pc[p] \in Ended
  /\ MayAct
  /\ \/ \E w \in Workspaces : /\ mode' = [mode EXCEPT ![p] = "target"]
                              /\ target' = [target EXCEPT ![p] = w]
     \/ \E m \in {"select"} \cup ({"all"} \cap world) :
          /\ mode' = [mode EXCEPT ![p] = m]
          /\ UNCHANGED target
  /\ left' = [left EXCEPT ![p] = {}]
  /\ done' = [done EXCEPT ![p] = {}]
  /\ touched' = [touched EXCEPT ![p] = {}]
  /\ Goto(p, "list")
  /\ UNCHANGED <<world, engineVars, listed>>

\* _list_containers: the ids ...
ListContainers(p) ==
  /\ pc[p] = "list"
  /\ left' = [left EXCEPT ![p] = {c \in Ids : status[c] \in {"there", "removing"}}]
  /\ Goto(p, "inspect")
  /\ UNCHANGED <<world, engineVars, mode, target, done, historyVars>>

\* ... and the inspection of each, which skips those that are gone by then.
Inspected(p) == {c \in left[p] : status[c] = "there"}

OfTarget(p) == {c \in Inspected(p) : Owner[c] = target[p]}

\* Mutant: a half-removed container of the workspace ends the search for others.
InspectTargetFirst(p) ==
  /\ pc[p] = "inspect"
  /\ mode[p] = "target"
  /\ LET found == IF left[p] = Inspected(p) THEN OfTarget(p) ELSE {}
     IN  /\ left' = [left EXCEPT ![p] = found]
         /\ listed' = [listed EXCEPT ![p] = found]
         /\ Goto(p, IF found = {} THEN "clear" ELSE "prompt")
  /\ UNCHANGED <<world, engineVars, mode, target, done, touched>>

\* find_initialized_devcontainers of the target: with no match there is nothing
\* to confirm, and the tracking is cleared.
InspectTarget(p) ==
  /\ pc[p] = "inspect"
  /\ mode[p] = "target"
  /\ left' = [left EXCEPT ![p] = OfTarget(p)]
  /\ listed' = [listed EXCEPT ![p] = OfTarget(p)]
  /\ Goto(p, IF OfTarget(p) = {} THEN "clear" ELSE "prompt")
  /\ UNCHANGED <<world, engineVars, mode, target, done, touched>>

\* The user picks a row; the containers of its workspace are listed anew.
InspectSelect(p) ==
  /\ pc[p] = "inspect"
  /\ mode[p] = "select"
  /\ \/ /\ Inspected(p) = {}
        /\ Goto(p, "idle")
        /\ UNCHANGED <<mode, target>>
     \/ \E c \in Inspected(p) :
          /\ mode' = [mode EXCEPT ![p] = "target"]
          /\ target' = [target EXCEPT ![p] = Owner[c]]
          /\ Goto(p, "list")
  /\ UNCHANGED <<world, engineVars, left, done, historyVars>>

\* Mutant: an entry whose inspection fails stays in the list of `all`.
InspectAllUnchecked(p) ==
  /\ pc[p] = "inspect"
  /\ mode[p] = "all"
  /\ listed' = [listed EXCEPT ![p] = Inspected(p)]
  /\ Goto(p, "prompt")
  /\ UNCHANGED <<world, engineVars, mode, target, left, done, touched>>

\* `all`: every row of the table.
InspectAll(p) ==
  /\ pc[p] = "inspect"
  /\ mode[p] = "all"
  /\ left' = [left EXCEPT ![p] = Inspected(p)]
  /\ listed' = [listed EXCEPT ![p] = Inspected(p)]
  /\ Goto(p, "prompt")
  /\ UNCHANGED <<world, engineVars, mode, target, done, touched>>

\* The confirmation, or "Nothing changed."
Answer(p) ==
  /\ pc[p] = "prompt"
  /\ Goto(p, "remove") \/ Goto(p, "idle")
  /\ UNCHANGED <<world, engineVars, mode, target, left, done, historyVars>>

\* The list is sorted by workspace.
IsNext(p, c) ==
  /\ c \in left[p]
  /\ \A d \in left[p] : Owner[d] \in done[p] => Owner[c] \in done[p]

\* Mutant: a workspace is cleared with its first container in every mode.
ClearsEarlyAlways(p, w) == w \notin done[p]

\* `prune all` clears a workspace after its first container.
ClearsEarly(p, w) == mode[p] = "all" /\ w \notin done[p]

\* remove_container, by force; an engine may pass over one that is gone.
Remove(p) ==
  /\ pc[p] = "remove"
  /\ \E c \in Ids :
       /\ IsNext(p, c)
       /\ status' = [status EXCEPT ![c] = "gone"]
       /\ left' = [left EXCEPT ![p] = @ \ {c}]
       /\ IF ClearsEarly(p, Owner[c])
            THEN target' = [target EXCEPT ![p] = Owner[c]] /\ Goto(p, "clear")
            ELSE UNCHANGED <<target, pc>>
  /\ UNCHANGED <<world, tracked, mode, done, historyVars>>

\* It raises a CmdError; the removal may go on in the engine.
RemoveFails(p) ==
  /\ pc[p] = "remove"
  /\ \E c \in Ids :
       /\ IsNext(p, c)
       /\ "faults" \in world \/ status[c] # "there"
       /\ \/ UNCHANGED status
          \/ status[c] = "there" /\ status' = [status EXCEPT ![c] = "removing"]
  /\ Goto(p, "failed")
  /\ UNCHANGED <<world, tracked, mode, target, left, done, historyVars>>

AllRemoved(p) ==
  /\ pc[p] = "remove"
  /\ left[p] = {}
  /\ Goto(p, IF mode[p] = "all" THEN "pruned" ELSE "clear")
  /\ UNCHANGED <<world, engineVars, mode, target, left, done, historyVars>>

\* _clear_known_host_for_workspace and clear_workspace_tracking.
ClearTracking(p) ==
  /\ pc[p] = "clear"
  /\ tracked' = [tracked EXCEPT ![target[p]] = FALSE]
  /\ done' = [done EXCEPT ![p] = @ \cup {target[p]}]
  /\ Goto(p, IF mode[p] = "all" THEN "remove" ELSE "pruned")
  /\ UNCHANGED <<world, status, mode, target, left, historyVars>>

Killed(p) ==
  /\ "faults" \in world
  /\ pc[p] \notin Ended
  /\ Goto(p, "failed")
  /\ UNCHANGED <<world, engineVars, mode, target, left, done, historyVars>>

-----------------------------------------------------------------------------
PruneStep(p) ==
  \/ Prune(p) \/ ListContainers(p)
  \/ InspectTarget(p) \/ InspectSelect(p) \/ InspectAll(p)
  \/ Answer(p) \/ Remove(p) \/ RemoveFails(p) \/ AllRemoved(p) \/ ClearTracking(p)
  \/ Killed(p)

Next ==
  \/ \E w \in Workspaces : Start(w)
  \/ \E c \in Ids : RemovalEnds(c)
  \/ \E p \in Procs : PruneStep(p)

Spec == Init /\ [][Next]_vars

-----------------------------------------------------------------------------
\* Each variable has its type; what is still to be removed has been listed.
TypeOK ==
  /\ world \in Worlds
  /\ status \in [Ids -> Statuses] /\ tracked \in [Workspaces -> BOOLEAN]
  /\ pc \in [Procs -> Steps]
  /\ mode \in [Procs -> {"target", "select", "all"}]
  /\ target \in [Procs -> Workspaces]
  /\ left \in [Procs -> SUBSET Ids] /\ listed \in [Procs -> SUBSET Ids]
  /\ done \in [Procs -> SUBSET Workspaces] /\ touched \in [Procs -> SUBSET Workspaces]
  /\ \A p \in Procs : pc[p] \in {"prompt", "remove", "clear"} => left[p] \subseteq listed[p]

\* The workspaces a prune answers for: its target, or with `all` those it listed.
Answered(p) ==
  IF mode[p] = "all" THEN {Owner[c] : c \in listed[p]} ELSE {target[p]}

\* "Removed n container(s)": of a workspace nobody has started since, no container
\* is there and no tracking is left, whatever other prunes, of this workspace or of
\* all, fail, or are killed meanwhile (cli.py:551-560, 592-600).
PrunedIsClean ==
  \A p \in Procs : pc[p] = "pruned" =>
    \A w \in Answered(p) \ touched[p] : There(w) = {} /\ ~tracked[w]

TrackedWhileThere ==
  \A w \in Workspaces :
    tracked[w] \/ There(w) = {} \/ \E p \in Procs : pc[p] \notin Ended /\ There(w) \subseteq left[p]

\* A container that is there keeps its workspace's tracking, the accepted
\* configuration above all (cli.py:590-595), unless a prune is about to remove it:
\* however prunes of workspaces fail or are killed, and after a `prune all` that
\* neither does.
ContainersAreTracked ==
  "overlap" \notin world /\ ~({"all", "faults"} \subseteq world) => TrackedWhileThere
=============================================================================

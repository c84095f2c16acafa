-------------------------------- MODULE BringUp --------------------------------
(***************************************************************************)
(* Bringing one workspace's container up and making it reachable over SSH: *)
(* the port in state.json, the stale entries of the engine, the lockfile   *)
(* the Dev Container CLI may write, the container and the port it          *)
(* publishes, and the host key that known_hosts keeps for that port.       *)
(*                                                                         *)
(* A process is one invocation of `start` (or `shell`, `zed`), `rebuild`   *)
(* or `prune`.  A container has the name of the invocation that created it *)
(* and, with its first SSH server, a host key of its own.  Sessions and    *)
(* the idle stop are ManagedShell's, the config review is ConfigReview's:  *)
(* here a start recreates the container or not, and any running container  *)
(* may stop.                                                               *)
(***************************************************************************)
EXTENDS Naturals

CONSTANTS
  Procs,      \* invocations
  Ports,      \* host ports the kernel may offer
  None,       \* no port, no container, no known host
  Overlap,    \* may commands overlap?
  OldCli,     \* does the Dev Container CLI lack --no-lockfile?
  Faults      \* which failures the environment may inject

ASSUME ConstantsAssumption ==
  /\ None \notin Procs \cup Ports
  /\ Ports # {}
  /\ Overlap \in BOOLEAN /\ OldCli \in BOOLEAN
  /\ Faults \subseteq {"setup", "cli", "engine", "crash"}

VARIABLES
  pc,       \* pc[p]: what invocation p does next
  my,       \* my[p]: its command, its flags and its local variables
  port,     \* ssh_port in state.json
  stale,    \* does the engine list an entry it cannot inspect?
  lock,     \* is there a lockfile beside the config?
  cid,      \* the workspace's container ...
  running,  \* ... is it running?
  pub,      \* ... the host port it publishes its SSH port on
  keyed,    \* ... does authorized_keys hold the user's key?
  sshd,     \* ... does dropbear run?
  known,    \* known[q]: whose host key known_hosts has for 127.0.0.1:q
  \* History, read by the properties only.
  wanted,   \* the lockfile is the user's, or a --lockfile run wrote it
  cleared   \* invocations that have cleared known_hosts

container == <<cid, running, pub, keyed, sshd>>
history == <<wanted, cleared>>
vars == <<pc, my, port, stale, lock, container, known, history>>

-----------------------------------------------------------------------------
ContainerOrNone == Procs \cup {None}
PortOrNone == Ports \cup {None}

\* "short": killed, failed, or out of patience with wait_for_container; "left":
\* the same just before it could delete the lockfile.
Ended == {"idle", "done", "short", "left"}

Labels == Ended \cup
  {"list", "port", "save", "repair", "look", "cli", "unlock", "wait", "find",
   "clear", "key", "sshd", "connect", "open", "remove", "forget"}

Locals ==
  [cmd : {"start", "rebuild", "prune"}, recreate : BOOLEAN, lockfile : BOOLEAN,
   env : PortOrNone,          \* DCMAN_SSH_PORT
   prev : ContainerOrNone,    \* previous_container_ids
   existed : BOOLEAN,         \* lockfile_existed_before
   ok : BOOLEAN,              \* result.returncode == 0
   target : ContainerOrNone,  \* container_id
   clear : BOOLEAN]           \* do_clear_known_host

Fresh == [cmd |-> "start", recreate |-> FALSE, lockfile |-> FALSE, env |-> None,
          prev |-> None, existed |-> FALSE, ok |-> TRUE, target |-> None, clear |-> FALSE]

Goto(p, l) == pc' = [pc EXCEPT ![p] = l]

CutOff(p) == Goto(p, IF pc[p] = "unlock" THEN "left" ELSE "short")

MayAct(p) == Overlap \/ \A q \in Procs \ {p} : pc[q] \in Ended

Init ==
  /\ pc = [p \in Procs |-> "idle"]
  /\ my = [p \in Procs |-> Fresh]
  /\ port = None
  /\ stale = FALSE
  /\ lock = FALSE
  /\ cid = None /\ running = FALSE /\ pub = None /\ keyed = FALSE /\ sshd = FALSE
  /\ known = [q \in Ports |-> None]
  /\ wanted = FALSE
  /\ cleared = {}

(***************************************************************************)
(* The invocation up to the Dev Container CLI.                             *)
(***************************************************************************)
\* A rebuild lists no previous containers.
Launch(p, c) ==
  /\ pc[p] = "idle"
  /\ MayAct(p)
  /\ \E recreate \in (IF c = "rebuild" THEN {TRUE} ELSE BOOLEAN), lockfile \in BOOLEAN :
       my' = [my EXCEPT ![p] = [Fresh EXCEPT !.cmd = c, !.recreate = recreate,
                                             !.lockfile = lockfile]]
  /\ Goto(p, CASE c = "start" -> "list" [] c = "rebuild" -> "port" [] c = "prune" -> "remove")
  /\ UNCHANGED <<port, stale, lock, container, known, history>>

\* Mutant: only running containers are listed.
ListRunningContainers(p) ==
  /\ pc[p] = "list"
  /\ my' = [my EXCEPT ![p].prev = IF running THEN cid ELSE None]
  /\ Goto(p, "port")
  /\ UNCHANGED <<port, stale, lock, container, known, history>>

\* _initialized_container_ids: stopped ones too.
ListContainers(p) ==
  /\ pc[p] = "list"
  /\ my' = [my EXCEPT ![p].prev = cid]
  /\ Goto(p, "port")
  /\ UNCHANGED <<port, stale, lock, container, known, history>>

\* A rebuild asks for the port a second time, for the bootstrap.
AfterPort(p) == IF my[p].target = None THEN "repair" ELSE "clear"

\* Mutant: the port of an earlier run is not reused.
AllocSshPortAnew(p) ==
  /\ pc[p] = "port"
  /\ \E q \in Ports : my' = [my EXCEPT ![p].env = q]
  /\ Goto(p, "save")
  /\ UNCHANGED <<port, stale, lock, container, known, history>>

\* alloc_ssh_port: load_state, then the stored port or a free one.
AllocSshPort(p) ==
  /\ pc[p] = "port"
  /\ \/ /\ port # None
        /\ my' = [my EXCEPT ![p].env = port]
        /\ Goto(p, AfterPort(p))
     \/ /\ port = None
        /\ \E q \in Ports : my' = [my EXCEPT ![p].env = q]
        /\ Goto(p, "save")
  /\ UNCHANGED <<port, stale, lock, container, known, history>>

\* ... and its save_state.
SaveSshPort(p) ==
  /\ pc[p] = "save"
  /\ port' = my[p].env
  /\ Goto(p, AfterPort(p))
  /\ UNCHANGED <<my, stale, lock, container, known, history>>

\* _repair_stale_devcontainer_entries, after the checks of the container's name.
RepairStaleEntries(p) ==
  /\ pc[p] = "repair"
  /\ stale' = FALSE
  /\ Goto(p, "look")
  /\ UNCHANGED <<my, port, lock, container, known, history>>

LookForLockfile(p) ==
  /\ pc[p] = "look"
  /\ my' = [my EXCEPT ![p].existed = lock]
  /\ Goto(p, "cli")
  /\ UNCHANGED <<port, stale, lock, container, known, history>>

(***************************************************************************)
(* `devcontainer up` and what follows it.                                  *)
(***************************************************************************)
RemoveContainer ==
  /\ cid' = None /\ running' = FALSE /\ pub' = None /\ keyed' = FALSE /\ sshd' = FALSE

CreateContainer(p) ==
  /\ cid' = p /\ running' = TRUE /\ pub' = my[p].env /\ keyed' = FALSE /\ sshd' = FALSE

\* The CLI may write a lockfile unless --no-lockfile suppresses it.
MayWriteLockfile(p) ==
  \/ UNCHANGED <<lock, wanted>>
  \/ /\ my[p].lockfile \/ OldCli
     /\ lock' = TRUE
     /\ wanted' = (wanted \/ my[p].lockfile)

\* With --remove-existing-container, or when there is none, a new container;
\* otherwise the existing one, restarted if need be.
DevcontainerUp(p) ==
  /\ pc[p] = "cli"
  /\ MayWriteLockfile(p)
  /\ IF my[p].recreate \/ cid = None
       THEN CreateContainer(p)
       ELSE running' = TRUE /\ UNCHANGED <<cid, pub, keyed, sshd>>
  /\ Goto(p, "unlock")
  /\ UNCHANGED <<my, port, stale, known, cleared>>

\* The CLI fails: before it did anything, after removing the old container, or
\* (a post-create command) with the new one up.
DevcontainerUpFails(p) ==
  /\ "cli" \in Faults
  /\ pc[p] = "cli"
  /\ MayWriteLockfile(p)
  /\ UNCHANGED container \/ RemoveContainer \/ CreateContainer(p)
  /\ my' = [my EXCEPT ![p].ok = FALSE]
  /\ Goto(p, "unlock")
  /\ UNCHANGED <<port, stale, known, cleared>>

\* Mutant: a failed run leaves at once.
DeleteLockfileOnSuccess(p) ==
  /\ pc[p] = "unlock"
  /\ lock' = (lock /\ (my[p].lockfile \/ my[p].existed \/ ~my[p].ok))
  /\ Goto(p, IF my[p].ok THEN "wait" ELSE "short")
  /\ UNCHANGED <<my, port, stale, container, known, history>>

\* Mutant: what was there before does not count.
DeleteAnyLockfile(p) ==
  /\ pc[p] = "unlock"
  /\ lock' = (lock /\ my[p].lockfile)
  /\ Goto(p, IF my[p].ok THEN "wait" ELSE "short")
  /\ UNCHANGED <<my, port, stale, container, known, history>>

\* _delete_created_lockfile, then the test of the return code.
DeleteCreatedLockfile(p) ==
  /\ pc[p] = "unlock"
  /\ lock' = (lock /\ (my[p].lockfile \/ my[p].existed))
  /\ Goto(p, IF my[p].ok THEN "wait" ELSE "short")
  /\ UNCHANGED <<my, port, stale, container, known, history>>

\* Mutant: only a requested rebuild counts as a new container.
ClearRebuiltOnly(p, c) == my[p].recreate

\* Is known_hosts to be cleared?  A rebuild always does; a start when it asked
\* for a new container or got one.
MustClear(p, c) == my[p].recreate \/ (c # None /\ c # my[p].prev)

Found == IF running THEN cid ELSE None

\* wait_for_container in _container_up; ten seconds without one are not an error.
WaitForContainer(p) ==
  /\ pc[p] = "wait"
  /\ my' = [my EXCEPT ![p].target = Found, ![p].clear = MustClear(p, Found)]
  /\ Goto(p, "find")
  /\ UNCHANGED <<port, stale, lock, container, known, history>>

\* wait_for_container in the command: without one the start fails, the rebuild
\* skips the bootstrap.
FindContainer(p) ==
  /\ pc[p] = "find"
  /\ my' = [my EXCEPT ![p].target = Found]
  /\ Goto(p, CASE ~running -> "short"
               [] running /\ my[p].cmd = "start" -> "clear"
               [] OTHER -> "port")
  /\ UNCHANGED <<port, stale, lock, container, known, history>>

(***************************************************************************)
(* bootstrap_ssh.                                                          *)
(***************************************************************************)
Reachable(p) == running /\ cid = my[p].target

\* clear_known_host; without a public key of the user the bootstrap ends here, with
\* a warning, and a start goes on.
ClearKnownHost(p) ==
  /\ pc[p] = "clear"
  /\ IF my[p].clear
       THEN known' = [known EXCEPT ![my[p].env] = None] /\ cleared' = cleared \cup {p}
       ELSE UNCHANGED <<known, cleared>>
  /\ \E pubkey \in BOOLEAN :
       Goto(p, CASE pubkey -> "key"
                 [] ~pubkey /\ my[p].cmd = "start" -> "open"
                 [] OTHER -> "done")
  /\ UNCHANGED <<my, port, stale, lock, container, wanted>>

\* _ensure_zed_user_dirs, and the key appended unless authorized_keys has it.
AuthorizeKey(p) ==
  /\ pc[p] = "key"
  /\ Reachable(p)
  /\ keyed' = TRUE
  /\ Goto(p, "sshd")
  /\ UNCHANGED <<my, port, stale, lock, cid, running, pub, sshd, known, history>>

\* Mutant: the server is taken to survive a restart with the key file.
StartDropbearOnce(p) ==
  /\ pc[p] = "sshd"
  /\ Reachable(p)
  /\ sshd' = (sshd \/ my[p].clear)
  /\ Goto(p, IF my[p].cmd = "start" THEN "connect" ELSE "done")
  /\ UNCHANGED <<my, port, stale, lock, cid, running, pub, keyed, known, history>>

\* dropbear, unless pgrep finds it.
StartDropbear(p) ==
  /\ pc[p] = "sshd"
  /\ Reachable(p)
  /\ sshd' = TRUE
  /\ Goto(p, IF my[p].cmd = "start" THEN "connect" ELSE "done")
  /\ UNCHANGED <<my, port, stale, lock, cid, running, pub, keyed, known, history>>

\* An SSH client accepts and keeps the key of a host it does not know.
Meet(q) == known' = [known EXCEPT ![q] = IF @ = None THEN cid ELSE @]

\* open_editor, or the user's own ssh, which may meet the server of an earlier start.
Connect(p) ==
  /\ pc[p] \in {"connect", "open"}
  /\ IF Reachable(p) /\ sshd /\ pub = my[p].env THEN Meet(pub) ELSE UNCHANGED known
  /\ Goto(p, "done")
  /\ UNCHANGED <<my, port, stale, lock, container, history>>

(***************************************************************************)
(* prune of this workspace; ssh_port stays in state.json.                  *)
(***************************************************************************)
PruneRemove(p) ==
  /\ pc[p] = "remove"
  /\ RemoveContainer
  /\ Goto(p, "forget")
  /\ UNCHANGED <<my, port, stale, lock, known, history>>

\* remove_container raises; the engine may have half-removed the container.
PruneRemoveFails(p) ==
  /\ "engine" \in Faults
  /\ pc[p] = "remove"
  /\ cid # None
  /\ UNCHANGED <<stale, container>> \/ (RemoveContainer /\ stale' = TRUE)
  /\ Goto(p, "short")
  /\ UNCHANGED <<my, port, lock, known, history>>

\* Mutant: the stored port is used unseen.
PruneForgetUnseen(p) ==
  /\ pc[p] = "forget"
  /\ known' = [q \in Ports \cup {port} |-> IF q = port THEN None ELSE known[q]]
  /\ Goto(p, "done")
  /\ UNCHANGED <<my, port, stale, lock, container, history>>

\* _clear_known_host_for_workspace.
PruneForget(p) ==
  /\ pc[p] = "forget"
  /\ known' = [q \in Ports |-> IF q = port THEN None ELSE known[q]]
  /\ Goto(p, "done")
  /\ UNCHANGED <<my, port, stale, lock, container, history>>

(***************************************************************************)
(* Failures and the environment.                                           *)
(***************************************************************************)
\* A CmdError: a refused name, an engine that does not answer, a container that
\* went away, a lockfile that cannot be deleted.
Fails(p) ==
  /\ \/ "setup" \in Faults /\ pc[p] \in {"list", "port", "repair", "unlock", "wait", "find"}
     \/ pc[p] \in {"key", "sshd"} /\ (Reachable(p) => "setup" \in Faults)
  /\ CutOff(p)
  /\ UNCHANGED <<my, port, stale, lock, container, known, history>>

Crash(p) ==
  /\ "crash" \in Faults
  /\ pc[p] \notin Ended
  /\ CutOff(p)
  /\ UNCHANGED <<my, port, stale, lock, container, known, history>>

\* The idle stop, or `kill` in another terminal: dropbear goes with it.
ContainerStops ==
  /\ running
  /\ running' = FALSE
  /\ sshd' = FALSE
  /\ UNCHANGED <<pc, my, port, stale, lock, cid, pub, keyed, known, history>>

\* An editor that is still open reconnects.
EditorReconnects ==
  /\ running /\ sshd
  /\ Meet(pub)
  /\ UNCHANGED <<pc, my, port, stale, lock, container, history>>

\* The user adds or removes the lockfile by hand.
UserChangesLockfile ==
  /\ Overlap \/ \A p \in Procs : pc[p] \in Ended
  /\ lock' = ~lock
  /\ wanted' = ~lock
  /\ UNCHANGED <<pc, my, port, stale, container, known, cleared>>

-----------------------------------------------------------------------------
UpStep(p) ==
  \/ \E c \in {"start", "rebuild", "prune"} : Launch(p, c)
  \/ ListContainers(p) \/ AllocSshPort(p) \/ SaveSshPort(p)
  \/ RepairStaleEntries(p) \/ LookForLockfile(p)
  \/ DevcontainerUp(p) \/ DevcontainerUpFails(p) \/ DeleteCreatedLockfile(p)
  \/ WaitForContainer(p) \/ FindContainer(p)

SshStep(p) ==
  \/ ClearKnownHost(p) \/ AuthorizeKey(p) \/ StartDropbear(p) \/ Connect(p)
  \/ PruneRemove(p) \/ PruneRemoveFails(p) \/ PruneForget(p)

Environment ==
  ContainerStops \/ EditorReconnects \/ UserChangesLockfile

Next ==
  \/ \E p \in Procs : UpStep(p) \/ SshStep(p) \/ Fails(p) \/ Crash(p)
  \/ Environment

Spec == Init /\ [][Next]_vars

-----------------------------------------------------------------------------
(***************************************************************************)
(* Properties.                                                             *)
(***************************************************************************)
\* Every variable keeps to the values the code can give it; only a running
\* container runs dropbear, and known_hosts has keys of containers only.
TypeOK ==
  /\ pc \in [Procs -> Labels]
  /\ my \in [Procs -> Locals]
  /\ port \in PortOrNone
  /\ stale \in BOOLEAN /\ lock \in BOOLEAN
  /\ cid \in ContainerOrNone /\ running \in BOOLEAN
  /\ pub \in PortOrNone /\ keyed \in BOOLEAN /\ sshd \in BOOLEAN
  /\ known \in [Ports -> ContainerOrNone]
  /\ wanted \in BOOLEAN
  /\ cleared \subseteq Procs
  /\ running => cid \in Procs
  /\ sshd => running

\* Containers whose creator ended before it reached clear_known_host.
CutShort == {q \in Procs : pc[q] \in {"short", "left"} /\ q \notin cleared}

\* When an editor is about to connect, known_hosts holds no key of an earlier
\* container for the port (cli.py:356-359, zed.py:56-59), whatever stopped,
\* failed or was recreated before; only a container whose creating command was
\* itself cut short is the exception.
KnownHostIsFresh ==
  \A p \in Procs : pc[p] \in {"connect", "open"} /\ Reachable(p) /\ cid \notin CutShort =>
    known[my[p].env] \in {None, cid}

\* "Reuse one host port per workspace to keep SSH endpoints stable"
\* (ssh.py:16): a container publishes the port state.json has, for its whole life.
PublishesStoredPort == cid # None => pub = port

\* When the bootstrap is through, the port leads to a container that accepts the
\* user's key, after a restart too (cli.py:359, zed.py:75-90).
EndpointAnswers ==
  \A p \in Procs : pc[p] = "connect" /\ Reachable(p) => pub = my[p].env /\ keyed /\ sshd

\* dcman deletes only a lockfile its own run created (container.py:653-668):
\* never one of the user's or of a --lockfile run.
WantedLockfileStays == wanted => lock

\* "suppress Dev Container feature lockfile creation by default" (README.md:92):
\* unless a run was killed right there, no lockfile is left that nobody asked
\* for, not even by a CLI that failed.
NoStrayLockfile ==
  lock /\ ~wanted => \E p \in Procs : pc[p] \in {"unlock", "left"}

\* "Clear known_hosts only when this invocation may have put a new container-side
\* SSH host key behind dcman's stable forwarded port" (cli.py:357-358): as long as a
\* container is there, no command forgets that the user knows it, neither a start
\* that restarts it nor a prune or rebuild that does not get through.
KnownKeyStays == [][\A q \in Ports : known[q] # None /\ known[q] = cid => known'[q] = cid]_vars
=============================================================================

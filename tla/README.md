# dcman: models, checks and proofs

dcman starts, shares, rebuilds and stops one devcontainer per workspace. Every
invocation is a process of its own; detached `_idle-stop` workers live on after
the invocation that spawned them. They meet in a directory under `~/.cache`
(`state.json` and one marker file per session), in the container engine, and in
the user's config files. dcman has no lock and no daemon: what makes it right or
wrong is the order in which these processes read, write, count and stop. These
modules follow that order.

Source paths below are relative to `src/src/dcman/` in this tree; `README.md`
with a line number is dcman's own, `src/README.md`.

## 1. Inventory

| Component | State it keeps | Operations | Meets others through |
|---|---|---|---|
| managed shell (`cli.py` `start`, `shell`, `zed`) | session marker, timer token | prepare, bring the container up, open a shell, and in `finally`: unregister, prune, count, arm | markers, `state.json`, container |
| idle stop (`cli.py` `_idle-stop`, `state.py` `schedule_idle_stop`) | `timer_token` | sleep, prune, count, check token, stop, clear token | markers, `state.json`, container |
| rebuild, kill, prune (`cli.py`) | the same | count and recreate; clear and stop; remove and clear | the same |
| state store (`state.py`) | `state.json`, `state.tmp` | `load_state`, `save_state` (a temporary file and a rename) | every command reads and writes the whole dict |
| config review (`cli.py` `_container_up`, `container.py`) | `devcontainer_hash`, `devcontainer_snapshot` | hash, compare, diff, ask, accept, build | the config files, edited by the user; `state.json` |
| seeding (`agent_instructions.py`, `integrations/codex.py`) | `container_seed_cache` | read, check the cache, copy, record | host files, container, `state.json` |
| SSH endpoint (`ssh.py`, `integrations/zed.py`) | `ssh_port`, known_hosts, authorized keys, dropbear | allocate, clear, append, start, connect | `state.json`, container, the user's SSH client |
| lockfile (`container.py`) | `devcontainer-lock.json` | look, `devcontainer up`, delete | the config directory |
| prune all / select (`cli.py`) | all workspaces | list, remove, clear | engine, every workspace's state |
| host links (`agent_instructions.py`) | symlinks in the home directory | link, unlink | host tools |
| container-name lint (`lint.py`) | none | resolve, validate, conflict check | config, engine |
| feature versions, tokens, presets, rendering, CLI wrapper | none | parsing, formatting, subprocesses | - |

What is hard in this system:

- **interleaving without locks**: count then act, check then act, and
  load-modify-save of a shared dict, by any number of processes;
- **crashes**: a closed terminal kills dcman without its `finally` block;
- **ordering**: a worker is spawned before its token is written; a session is
  registered before its shell is certain;
- **staleness**: the config is read five times in one `start`, `state.json` is
  written back whole, a cache vouches for files in a container;
- **partial failure**: a build fails after its config was accepted, one of
  several copies fails;
- **liveness**: an idle container must eventually be stopped, by one worker of
  several that may each believe another one will.

What makes each component correct:

- *managed shell and idle stop*: no worker stops a container in use; the last
  shell to close always leads to a worker; a cancelled worker stays cancelled; an
  idle container is eventually stopped;
- *state store*: every load sees a dict saved whole; a save changes what its
  process meant to change;
- *config review*: nothing is built in place of a container, or stored as
  accepted, without the user's yes; a container taken for current is current;
- *seeding*: a skipped copy was not needed;
- *SSH endpoint*: the container publishes the port that is stored; a client that is
  about to connect finds a server that knows the user's key, and does not know
  another host key for its port; it is not made to forget a host key without need;
- *lockfile*: dcman deletes the lockfiles its own runs created, and only those;
- *prune*: what is reported as pruned is gone, with its tracking; a container that is
  left keeps its tracking;
- *host links*: no file of the user's is replaced or removed; all or nothing is
  linked, and a half-done command can be repeated;
- *lint*: of a configuration in strict JSON, the engine accepts the names it is given,
  and none belongs to another workspace's container; a refusal names the cause and a
  way out.

## 2. Modules

| Module | What it is |
|---|---|
| `ManagedShell` | one workspace: invocations of start, rebuild, kill and prune, their workers, the markers, the token and the container |
| `MCManagedShell` | its instances for TLC |
| `IdlePolicy` | what the idle stop promises: when it is armed, cancelled and carried out |
| `ManagedShellProofs` | theorems of `ManagedShell`, and that it implements `IdlePolicy` |
| `StateStore` | `load_state` / `save_state`, one system call per step |
| `StateRegister` | what the store promises: a register of whole dicts |
| `MCStateStore`, `StateStoreProofs` | instances and theorems, the refinement included |
| `ConfigReview` | when a container is built, from which config, accepted by whom |
| `MCConfigReview`, `ConfigReviewProofs` | instances and theorems |
| `SeedCache` | copying host files into the container and skipping the copy |
| `MCSeedCache`, `SeedCacheProofs` | instances and theorems |
| `BringUp` | one workspace's container and how to reach it: port, stale entries, lockfile, host keys, authorized key, dropbear |
| `MCBringUp`, `BringUpProofs` | instances and theorems |
| `PruneAll` | `prune` of a workspace, a selected one or all, over several workspaces and containers |
| `MCPruneAll`, `PruneAllProofs` | instances and theorems |
| `HostLinks` | `agents link-host` and `unlink-host`, one file-system call per step |
| `MCHostLinks`, `HostLinksProofs` | instances and theorems |
| `ContainerNames`, `ConfigFiles`, `CliOutput` | pure functions: the names `runArgs` ask for; hash, snapshot and diff of a configuration; the CLI's output and feature references |
| `MCPure` | all three over bounded inputs |
| `PureProofs` | theorems about the three for inputs of any length |

The split follows the keys of `state.json`. `StateStore` justifies the level of
detail of the others: while saves do not overlap, a load returns the last
dict saved whole, so the modules of whole commands model `load_state` and `save_state` as one read
and one write. They keep the two apart as two steps wherever another process may
come between them, because the lost update between load and save is real.

### ManagedShell

A process of `Procs` is one invocation; it spawns at most one worker, so the
invocation's name also serves as the worker's, as its token (random and never
repeated), as the session's and as that of a container it creates.

| Code | Model |
|---|---|
| `sessions/<id>.json` | `markers[p]`: absent, torn (created, not yet written), written |
| `timer_token` | `token` |
| the container, its state, the shells in it | `cid`, `running`, `attached` |
| `_prepare_workspace`, `prune_stale_sessions`, `clear_timer` | `Prepare`, `ClearTimerLoad`, `ClearTimerSave` |
| any load-modify-save of another key (port, hash, seed cache, tracking reset) | `LoadState`, `SaveState`: writes the loaded token back |
| `_container_up` | `DevcontainerUp`, `DevcontainerUpFails`, `SetupFails`, `Settled` |
| `_run_managed_shell` | `WaitForContainer`, `WaitTimesOut`, `CreateMarker`, `WriteMarker`, `DetectShell`, `DetectShellFails`, `OpenShell`, `ShellExits` |
| its `finally` block | `Unregister`, `ExitPrune`, `CountPrune`, `CountOnExit`, `SpawnTimer`, `Arm` |
| `rebuild`, `kill_cmd`, `prune_cmd` | `CountBeforeRebuild`, `ClearAllSessions`, `KillFind`, `KillStop`, `PruneList`, `PruneRemove` |
| `idle_stop` | `TimerWakes` ... `TimerTailSave`, one action per read or write |

`Overlap` says which processes may come between each other's steps. With
`{"commands", "worker"}` everything interleaves. Without `"commands"`, a user acts
only when no other command is in its set-up or exit code (open shells do overlap).
Without `"worker"`, a worker's sleep does not end while a command is in such code,
and users do not act while a worker is awake. Only what a user decides can wait for a
turn: a shell whose container is stopped, removed or replaced by another command ends
at once, and the exit code of its invocation (`cli.py:386-392`) then runs while that
command is still at work. `ShellExits` has it so under every `Overlap`, and `forced`
remembers the invocations that left that way. The restricted settings are not
claims about the code; they separate what the code gets right one command at a
time from what it leaves to luck, and each restricted property has a configuration, named
in section 3, that shows it fail without the restriction. `Faults` names the failures
the environment injects, `LongDelay` whether the delay outlasts the parent's write
of the token (300 seconds by default, so yes; `--idle-seconds 0`: no).

`owed`, `excused`, `cancelled` and `forced` are history variables: a shell has closed
and no worker was spawned since; a process died holding a session; the tokens that
`clear_timer` has erased; the invocations whose exit code began out of turn. The guards
read none of them. `BothChecksHold` speaks of the workers of all but the forced ones:
a start that replaces the container of an open shell cancels the token first, the
shell's exit then arms its own, and that worker may pass both checks while the start
registers. Without the exemption TLC shows this trace in the instance of `turns`; it is
`unseen_setup` again, with one user.

### IdlePolicy

The promise is spread over three comments (`cli.py:146`, 391, 729); `IdlePolicy`
says it without markers, prunes, counts, loads or labels. `armed` is whose idle stop
is pending, `up` the running container, `held` the shells that are open in a
session, `acting` the command that is in its set-up or exit code, in its turn,
`ejected` the invocations whose shell was closed under them and which therefore wait
for no turn. `ManagedShell` maps to it (`RefinesIdlePolicy`) so:

| `IdlePolicy` | `ManagedShell` |
|---|---|
| `armed` | `token` |
| `up` | `cid` if `running`, otherwise none |
| `held` | `HeldSessions`: attached, with a marker that reads as live |
| `acting` | the invocations that are `Busy` and not `forced` |
| `ejected` | those in a shell that is no longer attached, and the `forced` ones |
| `Cancel` | `ClearTimerSave` |
| `Rewrite` | `SaveState`, which may write back the token it loaded, before or after an ejected one armed |
| `BringUp`, `Remove` | `DevcontainerUp`; `DevcontainerUpFails`, `KillStop`, `PruneRemove` when the engine stops or removes |
| `OpenShell`, `CloseShell` | the same, `ShellExits` |
| `Arm`, `ArmEjected` | `Arm`: nobody is left in a session when the token is written; or the invocation is an ejected one |
| `Eject` | what `DevcontainerUp`, `KillStop`, `PruneRemove` and `TimerStop` do to the open shells |
| `IdleStop`, `WorkerEnds` | `TimerStop`, `TimerTailSave`: only while armed, with no session held |
| `ForgetSessions`, `Die` | `ClearAllSessions`, `Crash` |
| `Begin`, `Finish` | `Launch`, and the step that ends an invocation otherwise |
| nothing changes | every other step, a prune of markers among them |

The guards of `IdlePolicy` are what makes it a promise: no shell opens and no
container comes up while a stop is armed, and none is armed or carried out while a
session is held. An ejected invocation weakens it, and only for its own token
(`Disarmed`): nobody cancels that one before the next command. No action of
`ManagedShell` tests these guards.

### StateStore and StateRegister

Files are inodes; `state.tmp` and `state.json` are names. Opening for writing
creates or truncates the inode `state.tmp` names; writing fills the inode that was
opened; the rename moves the name, or fails when the name is gone. A writer that
was overtaken goes on writing to an inode that has meanwhile become `state.json`.
The dict is a function from `Keys`; a process sets one field to a value of its own.
The refinement maps `reg` to the dict a load would return and `copy` to the loaded
dicts.

### ConfigReview

`hash`, `snapshot` and `port` are the keys of `state.json` the review reads or
writes along the way; `built` is the config the container was created from;
`lock` is whether the lockfile is there, since it is hashed like any config file.
Every read of the config (hash, diff, stored hash, stored snapshot, Dev Container
CLI) is its own step. `accepted` is a history variable: what the user said yes to,
by answering, by `rebuild`, or by starting a first config. `ensure_devcontainer_config`
is taken to have passed; the removal of the whole config during a run is left out.
`SaveHash` writes the two fields it is about and no other: that its whole-dict save
puts back what it loaded of other fields is in `ManagedShell` and `SeedCache`, for the
token and the cache; that the port's save puts back an older hash is here (`EnvSave`).

### SeedCache

`file` maps the container's target paths to contents, `cache` is
`container_seed_cache`. A start seeds the instructions and then Codex's
`auth.json`, whose path is on a volume and survives `Recreate`. dd, chmod and mv
are three outcomes: a torn temporary file, a whole one, the target replaced.
`LoadOther` and `SaveOther` stand for saves of other keys, which write back the
cache they loaded. Files are changed by dcman only: a tool in the container that
rewrites its own `auth.json` is outside the model, and the code does not look.

### BringUp

A process is one invocation; `my[p]` holds its flags and local variables, named as
in the code (`prev` for `previous_container_ids`, `existed` for
`lockfile_existed_before`, `clear` for `do_clear_known_host`).

| Code | Model |
|---|---|
| `_initialized_container_ids` | `ListContainers` |
| `alloc_ssh_port` | `AllocSshPort`, `SaveSshPort` |
| `_repair_stale_devcontainer_entries` | `RepairStaleEntries`; `stale` is an entry the engine lists and cannot inspect |
| `devcontainer_up` | `LookForLockfile`, `DevcontainerUp` or `DevcontainerUpFails`, `DeleteCreatedLockfile` |
| the end of `_container_up`, `wait_for_container` | `MustClear`, `WaitForContainer`, `FindContainer` |
| `bootstrap_ssh` | `ClearKnownHost`, `AuthorizeKey`, `StartDropbear`; without a public key the first only, and a start goes on |
| `open_editor`, the user's ssh | `Connect`; `Meet` keeps the key of an unknown host |
| `prune_cmd`, `_clear_known_host_for_workspace` | `PruneRemove`, `PruneRemoveFails`, `PruneForget` |

A container is named after the invocation that created it and has, with its first
dropbear, a host key of its own, so `known[q]` is a container. A failed CLI may have
done nothing, removed the old container, or created the new one (a post-create
command failed). `ContainerStops` is the idle stop or a `kill`: it takes dropbear
along, not the key file. `wanted` and `cleared` are history: whose the lockfile is,
and which invocations have cleared known_hosts.

### PruneAll

A start is one step here (its own steps are `ConfigReview`'s and `ManagedShell`'s).
`status` is what the engine knows of a container: one that is `"removing"` is still
listed and no longer inspectable (`container.py:172-177`). `prune` lists
(`ListContainers`), inspects (`InspectTarget`, `InspectSelect`, `InspectAll`), asks
(`Answer`), removes one container after another in the order of the table (`Remove`,
`RemoveFails`) and clears (`ClearTracking`): `all` after the first container of each
workspace, the others at the end. `ClearTracking` loads and saves in one step: a save
of another command that puts a tracking back in between is left out. `touched` is
history: which workspaces were started since a prune began.

### HostLinks

`entry[i]` is what is at tool path `i`: nothing (`"absent"`), a symbolic link to the
source (`"link"`), a file (`"file"`), or `"same"`: no link, but the source itself or
what a linked directory above it leads to. `link-host` asks only what a path resolves
to (`Resolves`), `unlink-host` also whether it is a link (`agent_instructions.py:95`),
so the source survives at a tool path. Each `resolve`, `exists`, `symlink_to` and `unlink` is a step, because
another terminal may come between two of them; with `MidRun` tools and the user may,
too. `made` and `moved` are history: what a command linked, and what others changed
since it began.

### Pure functions

`ContainerNames` takes names as sequences of character classes and templates as
sequences of classes and variables, enough to tell apart what the regular expressions
do. `ConfigFiles` takes a configuration as a function from paths to contents; the
digest of a content is a rank, different for different contents. `CliOutput` takes
output as a sequence of kinds of lines, and a reference as a sequence of its
separators and words. `strict` says whether `json.loads` reads the configuration as an
object: when it does not (comments, trailing commas), `_load_devcontainer_config`
returns nothing and neither check of the names is made, while the Dev Container CLI
reads the file and gives the engine its names.

### Worlds

`ConfigReview`, `SeedCache` and `PruneAll` have a constant `Worlds`, a set of sets of
disturbances, and a variable `world`, chosen at the start of a behaviour: which
disturbances can come together in it (commands that overlap, edits during a run,
failures, lockfiles). So one run covers several settings, and a property that
holds in some of them names them.

## 3. Runs

Passing runs:

| Run | Instance | Shows |
|---|---|---|
| `overlap` | 2 invocations and their workers, every overlap, aborted set-ups, failed probes, kills; the delay may be shorter than the parent's save | `TypeOK`; `LastOneOutArms`: a closed shell always leads to a worker; `ArmedWorkerStops` under weak fairness of the workers |
| `turns` | 3 invocations, all faults, workers overlap, commands do not | `BothChecksHold`: a worker past both checks has counted every session there is, unless its shell left out of turn; `CancelledStays`: no stale save revives a token that a command cancelled |
| `stops` | 3 invocations of start, kill and prune, no faults, no overlap | `WorkerSparesSessions`; `RefinesIdlePolicy`: the markers, the token and the counts implement the policy; `ContainerEventuallyStops` under fairness of workers and users |
| `one_saver` | 3 processes, saves do not overlap, crashes | `TypeOK`, `StateParses`, `NoSaveFails`, `RefinesRegister` |
| `review` | 2 terminals, 3 configs, 3 edits; lockfiles, or failures and kills, or both with overlapping commands | `TypeOK`, `SnapshotAccepted`, `RecreateAccepted`; without overlap `CalmReuseIsCurrent` (no failures) and `CalmDiffShowsEdit` (no lockfiles) |
| `seed` | 2 terminals, 2 versions, 3 containers, 2 paths and Codex's; 3 edits, or failures and kills with overlapping commands | `TypeOK`, `CacheVouches` (without edits), `SeededIsCurrent` |
| `bring_up` | 3 invocations in turn, 2 ports, an old CLI, every failure, kills, restarts, the user's lockfiles | `TypeOK`, `KnownHostIsFresh`, `PublishesStoredPort`, `EndpointAnswers`, `WantedLockfileStays`, `NoStrayLockfile`, `KnownKeyStays`: no command forgets the host key of a container that is still there |
| `prune_all` | 2 terminals, 2 workspaces, 3 containers, two of one workspace; prunes of workspaces that fail, or `all`, or both with everything overlapping | `TypeOK`, `PrunedIsClean`; without overlap `ContainersAreTracked` |
| `host_links` | 2 terminals, 3 tool paths in any initial state, the source at one of them included, failing calls, kills | `TypeOK`, `ConflictLinksNothing`, `LinkedIsComplete`, `UnlinkedIsComplete`, `FilesSurvive` |
| `pure` | templates of 3 symbols beside a second name, in strict JSON or not, trees of 3 files before and after, 4 lines of output, references of 3 parts | `NamesAreGood`, `RefusalsHelp`, `EditsAreNoticed`, `PayloadsAreFound`, `FeaturesAreRead` |

Runs that show the code differ from its own messages or docs:

| Run | What happens |
|---|---|
| `tail_race` | an old worker's last save erases a new worker's token, and nothing stops the container (`cli.py:393`, `README.md:8`) |
| `bad_suggestion` | the name suggested instead of `.hidden` is `_.hidden`, which no engine accepts ("guaranteed to be a syntactically valid container name", `lint.py:46`) |

**Further configurations.** The passing runs restrict what may overlap or fail. Each
restriction is needed: the following configurations lift one, and TLC answers with
a behaviour of the code that breaks the property named in the file. They are kept
for a reader who wants the trace, e.g.
`tlc -config MCManagedShell_late_start.cfg MCManagedShell`.

| Configuration | What happens |
|---|---|
| `MCManagedShell_late_start` | a start that registers between the worker's checks and its stop loses its container (`cli.py:735-746` against `cli.py:729-730`) |
| `MCManagedShell_unseen_setup` | a start still in its set-up is counted by nobody, and the worker that another exit arms passes both checks (`BothChecksHold`) |
| `MCManagedShell_revived` | a save of another field writes a cancelled token back (`CancelledStays`, `state.py:228`) |
| `MCManagedShell_torn_marker` | a prune reads a marker between creation and content and unlinks it (`cli.py:373`) |
| `MCManagedShell_probe_fails` | `detect_shell` raises outside the `try`: nothing arms the stop (`cli.py:387`) |
| `MCManagedShell_start_recreates` | a start replaces the container under another session, which `rebuild` refuses (`cli.py:457`) |
| `MCManagedShell_zero_delay` | a worker checks its token before the parent wrote it (`state.py:256-271`) |
| `MCBringUp_overlap` | two first starts choose two ports, and the container publishes the one `state.json` lost (`ssh.py:16`); a start deletes the lockfile that a `--lockfile` run in another terminal wrote meanwhile |
| `MCBringUp_stale_key` | a start decides whether to clear known_hosts by the container its first wait finds, and connects to the one its second wait finds, which a rebuild has put there in between (`cli.py:292`, `cli.py:352`; TLC takes a minute or two) |
| `MCPruneAll_half_pruned` | `prune all` clears a workspace's tracking after its first container and then fails at its second (`cli.py:553-559`); with `Worlds <- OverlapWorlds`, a start between the last removal and the clearing loses its tracking (`cli.py:592-595`) |
| `MCHostLinks_saved_over` | a tool saves its file between the list and the unlink, and loses it (`agent_instructions.py:95-97`) |
| `MCStateStore_torn_state` | two saves share `state.tmp`; an empty file is renamed to `state.json` (`state.py:74`) |
| `MCConfigReview_edit_during_run` | text nobody reviewed is stored as accepted (`container.py:528-529`) |
| `MCConfigReview_failed_rebuild` | acceptance is stored before the build, so after a failed one the old container counts as current (`README.md:6`) |
| `MCConfigReview_declined` | with no container left, "no" builds one from the declined config (`cli.py:266`) |
| `MCConfigReview_lockfile` | dcman's own lockfile is reported as a change of the config (`cli.py:175`) |
| `MCSeedCache_partial_seed` | a half-failed copy, then the host file changed back: the copy is skipped over mixed contents (`README.md:120`) |
| `MCSeedCache_seed_overlap` | two starts around an edit record one version and leave another (`README.md:120`) |

**Bounds.** A worker is extra, so three invocations are up to six processes: one to
hold the container or leave a worker behind, one to act, one to come in between.
Two would hide `revived`, where the writer, the canceller and the one who armed are
three. `overlap` has two, since the exits that could each wait for the other are
two and a process that dies needs one more to clean up after it; `LastOneOut` proves
its safety property for any number. An invocation runs one command, so the behaviours are
finite. The store needs two savers and a reader after them; three inodes are all
that two names and an unlinked file can use in `one_saver`, four where a writer may
hold an inode no name refers to. `MaxEdits`, `MaxIds` and `AgentPaths` bound edits,
containers and paths; two paths already give a first and a last one (the code has
four), three edits give "there and back again". `bring_up` needs three invocations:
one whose container or port stays, one that fails or replaces it, one that
connects; with one port the chosen and the published one could not differ, so it
has two. `prune_all` needs a workspace with two containers, one of which goes and
one of which fails, and another workspace that is left alone. `host_links` needs
three paths: one already linked, one in conflict, one still to come. In `pure`, a
name of three symbols has a first, an inner and a last one, a variable among them;
four lines of output are a payload between, after and under log lines; three files
before and after can swap contents around one that stays. Processes, ports,
configs, versions and inodes are symmetric; symmetry is not used where a run checks
liveness. The views drop variables that no later step reads.

**Fairness.** `WorkerSpec`: a spawned worker is a detached process and runs to its
end; nothing is assumed of users. `FairSpec` adds that an invocation runs to its end
and that a user in a shell eventually leaves; strong fairness of leaving the loop of
`LoadState`/`SaveState` says that an invocation saves `state.json` finitely often,
which the code does. No fairness is put on launching a command. The other modules
claim safety only and state no fairness.

**Deadlock.** Invocations end and users may do nothing more, so the runs of
`ManagedShell` and `BringUp` do not check it, nor does `pure`, whose inputs stop
growing at their bounds, nor `MCStateStore_torn_state`, which shows a failed rename.
All others do: `one_saver` because it claims that saves
succeed, `review`, `seed`, `prune_all` and `host_links` because a terminal can
always start another command.

**Mutants.** Operators marked "Mutant" in the modules (`UnregisterKeeping`,
`OpenTmpInPlace`, `UpReusing`, ...) are plausible bugs; each property of a passing
run is violated when the operator it guards is replaced by one of them.

## 4. Proofs

TLAPS proves, for any number of processes, keys, inodes, configs, versions, paths,
ports, workspaces and containers, and inputs of any length:

| Theorem | Assumes | Says |
|---|---|---|
| `ManagedShellProofs` `TypeInvariant`, `LastOneOut` | nothing | `TypeOK`, `LastOneOutArms` |
| `ChecksAreJoint`, `NoTokenRevived` | `"commands" \notin Overlap` | `BothChecksHold`, `CancelledStays` |
| `WorkerIsSafe` | `Overlap = {}` | `WorkerSparesSessions` |
| `IdlePolicyHolds`, `NothingArmedWhileHeld` | `Overlap = {}` | `RefinesIdlePolicy`; the policy's own invariant `ArmedWhenIdle` |
| `StateStoreProofs` `TypeInvariant` | nothing | `TypeOK` |
| `AtomicRename`, `SavesSucceed`, `StoreIsRegister` | `"saves" \notin Overlap` | `StateParses`, `NoSaveFails`, `RefinesRegister` |
| `SavesKeepOtherFields` | `Overlap = {}` | `KeepsOtherFields` |
| `ConfigReviewProofs` `TypeInvariant` | nothing | `TypeOK` |
| `SnapshotIsAccepted`, `RecreateIsAccepted` | no world has `"midRunEdits"` | `SnapshotAccepted`, `RecreateAccepted` |
| `ReuseOfCurrent`, `DiffOfEdit` | nothing; each speaks of calm worlds | `CalmReuseIsCurrent`, `CalmDiffShowsEdit` |
| `SeedCacheProofs` `TypeInvariant`, `CacheIsTrue` | nothing; the second speaks of worlds without edits | `TypeOK`, `CacheVouches` |
| `SeedingIsCurrent` | no world has edits and anything else | `SeededIsCurrent` |
| `BringUpProofs` `TypeInvariant` | nothing | `TypeOK` |
| `WantedLockfileIsKept`, `NoLockfileIsLeft` | `~Overlap` | `WantedLockfileStays`, `NoStrayLockfile` |
| `PortIsStable`, `BootstrapAnswers` | `~Overlap` | `PublishesStoredPort`, `EndpointAnswers` |
| `HostKeyIsRight`, `KnownKeysAreKept` | `~Overlap` | `KnownHostIsFresh`, `KnownKeyStays` |
| `PruneAllProofs` `TypeInvariant`, `PruningIsComplete` | nothing | `TypeOK`, `PrunedIsClean` |
| `ContainersStayTracked` | nothing; it speaks of worlds without overlap | `ContainersAreTracked` |
| `HostLinksProofs` `TypeInvariant`, `ConflictsAreFoundFirst`, `LinkingIsComplete`, `UnlinkingIsComplete` | nothing | `TypeOK`, `ConflictLinksNothing`, `LinkedIsComplete`, `UnlinkedIsComplete` |
| `FilesAreSafe` | `~MidRun` | `FilesSurvive` |
| `PureProofs` `NamesAreAlwaysGood`, `RefusalsAlwaysHelp`, `EditsAreAlwaysNoticed`, `PayloadsAreAlwaysFound`, `FeaturesAreAlwaysRead` | nothing | the five properties of `pure` |
| `PassedNamesAreGood`, `RefusalIsRight`, `LastPayloadIsFound`, `WrittenFeatureIsRead`, `EveryEditIsNoticed` | inputs of their kind | the same of the operators, for any number of `--name` arguments and any scene |

"Nothing" is nothing beyond the module's `ASSUME`, which says what the constants are.

The arguments:

- *LastOneOut*. `LastOneOutArms` alone is not inductive: a process that is about to
  count must be known to have removed its own marker, and a marker must belong to a
  process in its session. `SessionInv` adds this. Of several exits, the one whose
  unlink comes last counts zero.
- *ChecksAreJoint*. `TurnInv` says what a worker past its count or its check knows:
  while commands take turns, a start cancels the token before it can register, so a
  worker that still finds its token has counted every session there is. What a forced
  exit arms comes after that cancellation, so the invariant says so of every token but
  the forced ones' (`TokenCleared`, `SnapClear`), and that only a command which acts
  can have forced one (`ForcedLeave`).
- *NoTokenRevived*. A token is written once, by an invocation that does nothing after
  (`TokenArmed`), and no dict that is about to be saved holds one that was cancelled
  (`SnapLive`): while commands take turns, the command that cancels is the only one
  that holds a dict, and it loads anew before it saves another field.
- *WorkerIsSafe*. In addition no command moves while a worker is awake, so what
  the worker counted is still true when it stops the container.
- *IdlePolicyHolds*. The policy's guards are facts about several processes at the
  step that needs them; `PolicyInv` collects them. A set-up past `clear_timer` finds
  no token, or that of an exit it forced (`TokenCleared`); only an invocation in its
  shell is attached (`ShellsAreOpen`); one that is about to arm, in its turn, has
  counted no session and nobody else has moved since (`LastIsAlone`); a worker past its
  check still has its token, or a forced exit has written over it (`OnDuty`), and what
  it counted still holds (`NoneHeld`). Each action of `ManagedShell` is then one of the
  policy's or a stutter. The theorem has all commands, all faults and kills; the run
  has no faults and no `rebuild`.
- *NothingArmedWhileHeld* is `IdlePolicy`'s own invariant, carried over by the
  refinement.
- *StoreInvariant*. One saver at a time owns `state.tmp` (`TmpOwned`), and it is
  never the file `state.json` names (`TmpApart`), so only whole dicts are renamed.
- *StoreIsRegister*. Each step maps to a step of `StateRegister` or to a stutter:
  `LoadState` to `Load`, `Replace` to `Save`, `Crash` to `Drop`, opening and writing
  to nothing.
- *SavesKeepOtherFields*. With one process at a time between load and rename
  (`OneModifier`), what it loaded is what `state.json` still holds (`CopyCurrent`),
  so the dict it renames differs from it in its own field only.
- *ReviewInvariant*. While commands run the config stays as it is, so every read of
  it agrees; what is stored, what a command copied, and what a command is about to
  store or build is in `accepted`. The copies matter: the port's save writes back
  the hash and snapshot it loaded.
- *CalmInvariant*. While commands take turns, the stored hash, the stored snapshot
  and the container move together: between commands they come from one config, and
  at each step of a command the invariant says which of them is already new. With
  failures the container may lag behind, with lockfiles the hash may; hence the two
  theorems speak of different worlds.
- *SeedInvariant*. With fixed host files a target path only goes from nothing to the
  source's content until the container is replaced; a replaced container has a new
  id, so no entry in the cache, or in a dict some process still holds, names it.
  With edits but nothing else (`TurnInv`), a command that copies has every path
  behind it written with what it read, and its cache entry is saved last.
- *LockInvariant*. Between its look and its deletion a run's `existed` is what the
  lockfile was, and a lockfile nobody wants that was there before is owed to a run
  killed right after the CLI; such a run stays killed, so the exception is stable.
- *PortInvariant*. The stored port, each command's copy of it and the published one
  agree as soon as they exist, so the only step that sets `ssh_port` finds no
  container. A bootstrap that came past a step has what the step provides as long as
  its container runs: a stop takes dropbear and `Reachable` together.
- *KeyInvariant*, in `HostKeyIsRight`. If known_hosts has another key than the
  container's, the command that created the container has not cleared it yet and
  will (`WillClear`), or was cut short before. That it will is what `KnowsNew` says:
  a command that created the container finds an id that is not the one it listed.
- *KnownKeysAreKept* is the converse. A command that decides to clear known_hosts has
  created the container it found (`ClearsOwn`: what it listed, and whether it meant to
  replace it, decides), and nobody has met that container yet (`Unmet`), as its
  dropbear is started after the clearing; `prune` clears when no container is left.
- *KnowsInvariant*. What a link or unlink command knows of a path it has passed is
  still so, unless another terminal or a tool changed that path since.
- *PruneInvariant*. A workspace's containers are among those listed, already gone,
  or started since the prune began (`ListIsComplete`).
- *ContainersStayTracked*. While commands take turns a list is current, and a
  workspace with a container is without tracking only during a `prune all` that has
  the container left to remove; where that cannot fail, it comes to it.

- *Pure functions*. A behaviour of `MCPure` only says of which kind an input is
  (`InputsAreOfTheirKind`), so each property is a fact about operators. For names,
  a substitution yields classes of characters, and a name that passes `_VALID_NAME_RE`
  and the scan for conflicts is good at its first, inner and last character. For
  hashes, both trees have their contents in one order (`OrderExists`): equal digests
  then pair the files of the two trees one to one. The cuts of a reference and the
  scan of the output are each the least or greatest position of a kind (`Least`,
  `Induction`: sets of positions are finite and ordered), which is where induction
  over the length comes in.

Only model-checked: `ArmedWorkerStops` and `ContainerEventuallyStops`, since fairness
and ENABLED are out of the prover's reach. `SuggestionsAreValid` is false, as
`bad_suggestion` shows. Every other property a run checks is a theorem.

## 5. Not modelled, and why

- Provider tokens: calls of `secret-tool` whose result goes into the environment;
  dcman keeps no state of them. Presets and configuration are constants. Rendering,
  the report on feature versions and the subprocess wrapper format or forward what
  others return; what they read out of text is in `CliOutput`.
- Process ids reused within a second, reboots that kill workers, malformed state
  files that dcman would not write itself.
- A lost `state.json` beside a container that lives on: `alloc_ssh_port` then
  chooses a port the container does not publish (`ssh.py:15`); the modules keep the
  key once it is stored.
- Tools in the container that change what was seeded, other workspaces whose containers
  share the volume a tool's file is on, and a removal of the whole config during a run.

- `HostLinks` has its tool paths apart: two of them that are one file through linked
  directories are not modelled, nor is a linked directory that is changed.
- `ssh-keygen -R` that fails, and a container that starts up more than ten seconds
  after `devcontainer up` returned while the command still waits for it.

The pure functions are modelled with these edges, which the properties leave out by
name rather than by accident: the names of a configuration with comments or trailing
commas are not checked at all (`lint.py:108-126`); `$` in the pattern of a name lets one line break at the end
pass (`lint.py:31`); the engine's name filter matches parts of names, so a
name that is part of another workspace's is refused too (`lint.py:228`); `--name x`
as two arguments is not looked at; the hash does not notice contents that move from
one file to another; bytes that decode alike give an empty diff; a feature pinned by
digest is not recognised by its name (`container.py:335-337`); JSON printed over several lines is found
only when nothing precedes it (`devcontainer_cli.py:60-74`).

## 6. Plan

Done: every component that keeps state, and the proofs of its safety properties.

Next, in this order:

1. `BringUp` and `ManagedShell` together, so that the stop that takes dropbear away
   is the worker's own.
2. How far the policy holds when commands take turns and workers do not
   (`"commands" \notin Overlap`): which guards of `IdlePolicy` remain true, as
   theorems from `TurnInv`.
3. An abstract specification of the config review (a container is built from an
   accepted config, or reused), implemented by `ConfigReview` in calm worlds.

---------------------------- MODULE ConfigReview ----------------------------
(***************************************************************************)
(* When does dcman build a container, and from which config?  `start`,     *)
(* `shell` (a start that never rebuilds) and `rebuild` compare the config  *)
(* on disk with the accepted one in state.json, ask the user, and hand     *)
(* over to `devcontainer up`, which reads the config again.  The user      *)
(* edits the config; commands in several terminals may interleave.         *)
(***************************************************************************)
EXTENDS Naturals

CONSTANTS
  Procs,        \* terminals, each running one command after another
  Configs,      \* the text of the config
  None,         \* nothing stored, no container
  MaxEdits,     \* bound on the user's edits
  Worlds        \* what may happen in a behaviour: a set of subsets of Disturbances

\* "overlap": commands of two terminals interleave; "midRunEdits": the config is
\* edited while a command runs; "failures": commands fail, and containers are
\* removed behind dcman; "lockfile": commands pass --lockfile.
Disturbances == {"overlap", "midRunEdits", "failures", "lockfile"}

ASSUME ReviewAssumption ==
  /\ None \notin Configs
  /\ None \notin Configs \X BOOLEAN
  /\ MaxEdits \in Nat
  /\ Worlds \subseteq SUBSET Disturbances

VARIABLES
  world,      \* what may happen in this behaviour
  config,     \* the config on disk
  lock,       \* is .devcontainer/devcontainer-lock.json there?
  edits,      \* how often the user has edited
  hash,       \* devcontainer_hash in state.json
  snapshot,   \* devcontainer_snapshot in state.json
  port,       \* is ssh_port set in state.json?
  built,      \* the config the workspace's container was built from
  pc,         \* pc[p]: what p does next
  cmd,        \* cmd[p]: the command p runs
  cur,        \* cur[p]: current_hash
  stored,     \* stored[p]: stored_hash
  found,      \* found[p]: has_initialized_container
  changed,    \* changed[p]: config_changed
  recreate,   \* recreate[p]: do_rebuild
  seen,       \* seen[p]: the files the diff showed
  digest,     \* digest[p]: the digest save_devcontainer_hash took
  copy,       \* copy[p]: hash and snapshot in a dict p loaded
  accepted    \* history: the configs the user has accepted

diskVars   == <<config, lock, edits>>
stateVars  == <<hash, snapshot, port>>
choiceVars == <<cmd, cur, stored, found, changed, recreate>>
saveVars   == <<seen, digest, copy>>
vars == <<world, diskVars, stateVars, built, pc, choiceVars, saveVars, accepted>>

-----------------------------------------------------------------------------
\* What devcontainer_hash tells apart, and what the snapshot of the files holds:
\* the lockfile counts as one of the files under .devcontainer/.
Digests == Configs \X BOOLEAN
Digest  == <<config, lock>>

Goto(p, l) == pc' = [pc EXCEPT ![p] = l]

AllIdle == \A q \in Procs : pc[q] = "idle"

\* Unless commands overlap, one starts when no other runs.
MayStart == "overlap" \in world \/ AllIdle

Init ==
  /\ world \in Worlds
  /\ config \in Configs
  /\ lock = FALSE
  /\ edits = 0
  /\ \/ hash = None /\ built = None /\ accepted = {}
     \/ hash = Digest /\ built = config /\ accepted = {config}  \* hash-only state
  /\ snapshot = None
  /\ port \in BOOLEAN
  /\ pc = [p \in Procs |-> "idle"]
  /\ cmd = [p \in Procs |-> "none"]
  /\ cur = [p \in Procs |-> None]
  /\ stored = [p \in Procs |-> None]
  /\ found = [p \in Procs |-> FALSE]
  /\ changed = [p \in Procs |-> FALSE]
  /\ recreate = [p \in Procs |-> FALSE]
  /\ seen = [p \in Procs |-> None]
  /\ digest = [p \in Procs |-> None]
  /\ copy = [p \in Procs |-> <<None, None>>]

(***************************************************************************)
(* The environment.                                                        *)
(***************************************************************************)
Edit ==
  /\ edits < MaxEdits
  /\ "midRunEdits" \in world \/ AllIdle
  /\ config' \in Configs \ {config}
  /\ edits' = edits + 1
  /\ UNCHANGED <<world, lock, stateVars, built, pc, choiceVars, saveVars, accepted>>

\* The user removes the container with the engine's own command.
RemoveOutside ==
  /\ "failures" \in world
  /\ built' = None
  /\ UNCHANGED <<world, diskVars, stateVars, pc, choiceVars, saveVars, accepted>>

(***************************************************************************)
(* _container_up: compare.                                                 *)
(***************************************************************************)
\* ensure_devcontainer_config has passed; devcontainer_hash.
Start(p, c) ==
  /\ pc[p] = "idle"
  /\ MayStart
  /\ cmd' = [cmd EXCEPT ![p] = c]
  /\ cur' = [cur EXCEPT ![p] = Digest]
  /\ Goto(p, "readState")
  /\ UNCHANGED <<world, diskVars, stateVars, built, stored, found, changed, recreate, saveVars, accepted>>

ReadState(p) ==
  /\ pc[p] = "readState"
  /\ stored' = [stored EXCEPT ![p] = hash]
  /\ Goto(p, "findContainers")
  /\ UNCHANGED <<world, diskVars, stateVars, built, cmd, cur, found, changed, recreate, saveVars, accepted>>

FindContainers(p) ==
  /\ pc[p] = "findContainers"
  /\ found' = [found EXCEPT ![p] = built # None]
  /\ Goto(p, "decide")
  /\ UNCHANGED <<world, diskVars, stateVars, built, cmd, cur, stored, changed, recreate, saveVars, accepted>>

\* config_changed.
Differs(p) == cur[p] # stored[p]

\* not has_accepted_baseline.
NoBaseline(p) == stored[p] = None /\ snapshot = None

\* Mutant: any config builds unasked once the container is gone.
BuildsUnaskedAnything(p) == ~found[p]

\* can_build_without_review.
BuildsUnasked(p) ==
  /\ ~found[p]
  /\ NoBaseline(p) \/ ~Differs(p)

\* The branches up to `env = _devcontainer_env(ws)`.  Starting the first config
\* there is counts as accepting it.
Decide(p) ==
  /\ pc[p] = "decide"
  /\ changed' = [changed EXCEPT ![p] = Differs(p)]
  /\ recreate' = [recreate EXCEPT ![p] = BuildsUnasked(p) /\ cmd[p] = "start"]
  /\ \/ /\ cmd[p] = "shell"
        /\ Differs(p) \/ BuildsUnasked(p)
        /\ Goto(p, "env")
     \/ /\ cmd[p] = "start"
        /\ Differs(p) /\ ~BuildsUnasked(p)           \* needs_config_review
        /\ Goto(p, "diff")
     \/ /\ cmd[p] = "start"
        /\ BuildsUnasked(p)
        /\ Goto(p, "digest")
     \/ /\ ~Differs(p) /\ ~BuildsUnasked(p)
        /\ Goto(p, IF snapshot = None THEN "digest" ELSE "env")
  /\ accepted' = IF NoBaseline(p) /\ ~found[p] /\ cmd[p] = "start"
                   THEN accepted \cup {cur[p][1]} ELSE accepted
  /\ UNCHANGED <<world, diskVars, stateVars, built, cmd, cur, stored, found, saveVars>>

(***************************************************************************)
(* _confirm_rebuild_for_config_change: review.                             *)
(***************************************************************************)
ShowDiff(p) ==
  /\ pc[p] = "diff"
  /\ seen' = [seen EXCEPT ![p] = Digest]
  /\ Goto(p, "answer")
  /\ UNCHANGED <<world, diskVars, stateVars, built, choiceVars, digest, copy, accepted>>

AnswerYes(p) ==
  /\ pc[p] = "answer"
  /\ recreate' = [recreate EXCEPT ![p] = TRUE]
  /\ accepted' = accepted \cup {seen[p][1]}
  /\ Goto(p, "digest")
  /\ UNCHANGED <<world, diskVars, stateVars, built, cmd, cur, stored, found, changed, saveVars>>

AnswerNo(p) ==
  /\ pc[p] = "answer"
  /\ Goto(p, "env")
  /\ UNCHANGED <<world, diskVars, stateVars, built, choiceVars, saveVars, accepted>>

Abort(p) ==
  /\ pc[p] = "answer"
  /\ Goto(p, "idle")
  /\ UNCHANGED <<world, diskVars, stateVars, built, choiceVars, saveVars, accepted>>

(***************************************************************************)
(* save_devcontainer_hash, before and after `devcontainer up`: it hashes   *)
(* the files, and then reads them once more for the snapshot.              *)
(***************************************************************************)
TakeDigest(p) ==
  /\ pc[p] \in {"digest", "lastDigest"}
  /\ digest' = [digest EXCEPT ![p] = Digest]
  /\ Goto(p, IF pc[p] = "digest" THEN "save" ELSE "lastSave")
  /\ UNCHANGED <<world, diskVars, stateVars, built, choiceVars, seen, copy, accepted>>

\* Mutant: only the first snapshot is ever stored.
SaveHashKeepingSnapshot(p) ==
  /\ pc[p] \in {"save", "lastSave"}
  /\ hash' = digest[p]
  /\ snapshot' = IF snapshot = None THEN Digest ELSE snapshot
  /\ UNCHANGED port
  /\ Goto(p, IF pc[p] = "save" THEN "env" ELSE "idle")
  /\ UNCHANGED <<world, diskVars, built, choiceVars, saveVars, accepted>>

SaveHash(p) ==
  /\ pc[p] \in {"save", "lastSave"}
  /\ hash' = digest[p]
  /\ snapshot' = Digest
  /\ UNCHANGED port
  /\ Goto(p, IF pc[p] = "save" THEN "env" ELSE "idle")
  /\ UNCHANGED <<world, diskVars, built, choiceVars, saveVars, accepted>>

(***************************************************************************)
(* _devcontainer_env and devcontainer_up.                                  *)
(***************************************************************************)
\* alloc_ssh_port loads the whole dict ...
EnvLoad(p) ==
  /\ pc[p] = "env"
  /\ copy' = [copy EXCEPT ![p] = <<hash, snapshot>>]
  /\ Goto(p, IF port THEN "up" ELSE "envSave")
  /\ UNCHANGED <<world, diskVars, stateVars, built, choiceVars, seen, digest, accepted>>

\* ... and saves it when the workspace had no port yet.
EnvSave(p) ==
  /\ pc[p] = "envSave"
  /\ hash' = copy[p][1]
  /\ snapshot' = copy[p][2]
  /\ port' = TRUE
  /\ Goto(p, "up")
  /\ UNCHANGED <<world, diskVars, built, choiceVars, saveVars, accepted>>

\* Mutant: --remove-existing-container is forgotten.
UpReusing(p) ==
  /\ pc[p] = "up"
  /\ IF built = None
       THEN /\ built' = config
            /\ lock' = lock \/ ("lockfile" \in world /\ lock' = TRUE)
       ELSE UNCHANGED <<built, lock>>
  /\ Goto(p, IF cmd[p] = "rebuild" \/ changed[p] THEN "idle" ELSE "lastDigest")
  /\ UNCHANGED <<world, config, edits, stateVars, choiceVars, saveVars, accepted>>

\* Mutant: every start that got a container saves its config as accepted.
UpSaving(p) ==
  /\ pc[p] = "up"
  /\ IF recreate[p] \/ built = None
       THEN /\ built' = config
            /\ lock' = lock \/ ("lockfile" \in world /\ lock' = TRUE)
       ELSE UNCHANGED <<built, lock>>
  /\ Goto(p, IF cmd[p] = "rebuild" THEN "idle" ELSE "lastDigest")
  /\ UNCHANGED <<world, config, edits, stateVars, choiceVars, saveVars, accepted>>

\* `devcontainer up` reads the config; it reuses the container there is unless
\* told to replace it.  A build may write the lockfile.  A start that found the
\* config unchanged then saves it as accepted.
Up(p) ==
  /\ pc[p] = "up"
  /\ IF recreate[p] \/ built = None
       THEN /\ built' = config
            /\ lock' = lock \/ ("lockfile" \in world /\ lock' = TRUE)
       ELSE UNCHANGED <<built, lock>>
  /\ Goto(p, IF cmd[p] = "rebuild" \/ changed[p] THEN "idle" ELSE "lastDigest")
  /\ UNCHANGED <<world, config, edits, stateVars, choiceVars, saveVars, accepted>>

\* No port, a refused container name, or the build fails, with the old
\* container perhaps gone already.
UpFails(p) ==
  /\ "failures" \in world
  /\ pc[p] \in {"env", "up"}
  /\ built' \in {built} \cup (IF recreate[p] /\ pc[p] = "up" THEN {None} ELSE {})
  /\ Goto(p, "idle")
  /\ UNCHANGED <<world, diskVars, stateVars, choiceVars, saveVars, accepted>>

\* The process is killed between two of its steps.
Killed(p) ==
  /\ "failures" \in world
  /\ pc[p] # "idle"
  /\ Goto(p, "idle")
  /\ UNCHANGED <<world, diskVars, stateVars, built, choiceVars, saveVars, accepted>>

(***************************************************************************)
(* rebuild, and prune.                                                     *)
(***************************************************************************)
\* Mutant: rebuild saves without hashing first.
RebuildUnhashed(p) ==
  /\ pc[p] = "idle"
  /\ MayStart
  /\ cmd' = [cmd EXCEPT ![p] = "rebuild"]
  /\ recreate' = [recreate EXCEPT ![p] = TRUE]
  /\ accepted' = accepted \cup {config}
  /\ Goto(p, "save")
  /\ UNCHANGED <<world, diskVars, stateVars, built, cur, stored, found, changed, saveVars>>

\* "Explicit `dcman rebuild` is already an affirmative action."
Rebuild(p) ==
  /\ pc[p] = "idle"
  /\ MayStart
  /\ cmd' = [cmd EXCEPT ![p] = "rebuild"]
  /\ recreate' = [recreate EXCEPT ![p] = TRUE]
  /\ accepted' = accepted \cup {config}
  /\ Goto(p, "digest")
  /\ UNCHANGED <<world, diskVars, stateVars, built, cur, stored, found, changed, saveVars>>

Prune(p) ==
  /\ pc[p] = "idle"
  /\ MayStart
  /\ cmd' = [cmd EXCEPT ![p] = "prune"]
  /\ built' = None
  /\ Goto(p, "forget")
  /\ UNCHANGED <<world, diskVars, stateVars, cur, stored, found, changed, recreate, saveVars, accepted>>

\* clear_workspace_tracking.
Forget(p) ==
  /\ pc[p] = "forget"
  /\ hash' = None
  /\ snapshot' = None
  /\ UNCHANGED port
  /\ Goto(p, "idle")
  /\ UNCHANGED <<world, diskVars, built, choiceVars, saveVars, accepted>>

-----------------------------------------------------------------------------
Next ==
  \/ Edit
  \/ RemoveOutside
  \/ \E p \in Procs :
       \/ \E c \in {"start", "shell"} : Start(p, c)
       \/ ReadState(p) \/ FindContainers(p) \/ Decide(p)
       \/ ShowDiff(p) \/ AnswerYes(p) \/ AnswerNo(p) \/ Abort(p)
       \/ TakeDigest(p) \/ SaveHash(p) \/ EnvLoad(p) \/ EnvSave(p)
       \/ Up(p) \/ UpFails(p) \/ Killed(p)
       \/ Rebuild(p) \/ Prune(p) \/ Forget(p)

Spec == Init /\ [][Next]_vars

-----------------------------------------------------------------------------
Steps ==
  {"idle", "readState", "findContainers", "decide", "diff", "answer", "digest", "save",
   "env", "envSave", "up", "lastDigest", "lastSave", "forget"}

\* Each variable has its type, and a step that uses what an earlier step of the
\* command computed finds it: the answer follows a diff, a save follows a hash.
TypeOK ==
  /\ world \in Worlds
  /\ config \in Configs /\ lock \in BOOLEAN /\ edits \in 0..MaxEdits
  /\ {hash, snapshot} \subseteq Digests \cup {None} /\ port \in BOOLEAN
  /\ built \in Configs \cup {None}
  /\ pc \in [Procs -> Steps]
  /\ cmd \in [Procs -> {"none", "start", "shell", "rebuild", "prune"}]
  /\ {cur, stored, seen, digest} \subseteq [Procs -> Digests \cup {None}]
  /\ {found, changed, recreate} \subseteq [Procs -> BOOLEAN]
  /\ copy \in [Procs -> (Digests \cup {None}) \X (Digests \cup {None})]
  /\ accepted \subseteq Configs
  /\ \A p \in Procs :
       /\ pc[p] \in {"readState", "findContainers", "decide"} => cur[p] # None
       /\ pc[p] = "answer" => seen[p] # None
       /\ pc[p] \in {"save", "lastSave"} => digest[p] # None

\* The stored snapshot, which the next diff starts from, is a config the user has
\* accepted: "this snapshot represents the config the user has accepted as safe to
\* use for rebuild decisions" (container.py:528-529).
SnapshotAccepted == snapshot # None => snapshot[1] \in accepted

\* A container is replaced only by one built from a config the user has accepted:
\* "a changed config can point at new registries or alter mounts, so review comes
\* first" (cli.py:258-259).
RecreateAccepted ==
  [][\A p \in Procs : Up(p) /\ recreate[p] => built' \in accepted]_vars

ReusesCurrent(p) == Up(p) /\ ~recreate[p] /\ ~changed[p] /\ built # None => built = config

\* A start that finds its config unchanged and reuses the container gets one that
\* was built from this config: dcman "rebuilds when config changes" (README.md:6).
ReuseIsCurrent == [][\A p \in Procs : ReusesCurrent(p)]_vars

\* It does, whatever sequence of edits, answers, rebuilds and prunes led here, when
\* commands neither overlap nor fail.
CalmReuseIsCurrent ==
  [][world \subseteq {"lockfile"} => \A p \in Procs : ReusesCurrent(p)]_vars

\* Once the user has answered no, the changed config stays unapplied
\* (cli.py:266: "devcontainer config changes remain unapplied").
DeclinedStaysUnapplied ==
  [][\A p \in Procs :
       Up(p) /\ cmd[p] = "start" /\ changed[p] /\ ~recreate[p] => built' = built]_vars

DiffersFromSnapshot(p) == ShowDiff(p) /\ snapshot # None => snapshot[1] # config

\* When dcman says that the config changed and has a snapshot to compare with, the
\* user's config is another one than the snapshot: the hash and the snapshot never
\* disagree on what was accepted (cli.py:175-185).
DiffShowsEdit == [][\A p \in Procs : DiffersFromSnapshot(p)]_vars

\* They agree even when commands fail or are killed, one after another.
CalmDiffShowsEdit ==
  [][world \subseteq {"failures"} => \A p \in Procs : DiffersFromSnapshot(p)]_vars
=============================================================================

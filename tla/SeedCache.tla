------------------------------ MODULE SeedCache ------------------------------
(***************************************************************************)
(* Copying host files into the container: the global agent instructions,   *)
(* to several paths, and Codex's auth.json, to one path on a volume that   *)
(* outlives the container.  Every `start` and `rebuild` offers both, in    *)
(* this order, and skips a copy that container_seed_cache in state.json    *)
(* vouches for.  Containers are replaced and host files edited meanwhile.  *)
(***************************************************************************)
EXTENDS Naturals

CONSTANTS
  Procs,       \* terminals, each running one command after another
  Versions,    \* the contents a host file may have
  NoFile,      \* no such file, nothing in the cache
  AgentPaths,  \* how many container paths the instructions are copied to
  MaxEdits,    \* bound on the edits of host files
  MaxIds,      \* bound on the containers created
  Worlds       \* what may happen in a behaviour: a set of subsets of Disturbances

\* "edits": the user edits host files; "overlap": commands of two terminals
\* interleave; "faults": execs in the container fail, and commands are killed.
Disturbances == {"edits", "overlap", "faults"}

ASSUME SeedAssumption ==
  /\ NoFile \notin Versions /\ "torn" \notin Versions /\ NoFile # "torn"
  /\ AgentPaths \in Nat \ {0}
  /\ MaxEdits \in Nat
  /\ MaxIds \in Nat \ {0}
  /\ NoFile \notin (1..MaxIds) \X Versions
  /\ Worlds \subseteq SUBSET Disturbances

VARIABLES
  world,    \* what may happen in this behaviour
  source,   \* source[k]: the host file of seed k
  edits,    \* how often host files were edited
  cid,      \* the container
  file,     \* file[t]: what the container has at target path t
  cache,    \* cache[k]: container and version the cache entry of k names
  pc,       \* pc[p]: what p does next
  seed,     \* seed[p]: the seed p is at
  target,   \* target[p]: container_id
  val,      \* val[p]: the content p read
  at,       \* at[p]: the path p is at
  tmp,      \* tmp[p]: p's temporary file next to it
  copy      \* copy[p]: the cache in the dict p loaded

hostVars == <<world, source, edits>>
procVars == <<seed, target, val, at, tmp>>
vars == <<hostVars, cid, file, cache, pc, procVars, copy>>

-----------------------------------------------------------------------------
Seeds == {"agents", "codex"}

\* _container_tool_paths; ~/.codex/auth.json.
LastPath(k) == IF k = "agents" THEN AgentPaths ELSE 1

Targets == {"agents"} \X (1..AgentPaths) \cup {<<"codex", 1>>}

Entries == (1..MaxIds) \X Versions
Caches  == [Seeds -> Entries \cup {NoFile}]

Goto(p, l) == pc' = [pc EXCEPT ![p] = l]

AllIdle == \A q \in Procs : pc[q] = "idle"

\* Unless commands overlap, one starts when no other runs.
MayStart == "overlap" \in world \/ AllIdle

Init ==
  /\ world \in Worlds
  /\ source \in [Seeds -> Versions \cup {NoFile}]
  /\ edits = 0
  /\ cid = 1
  /\ file = [t \in Targets |-> NoFile]
  /\ cache = [k \in Seeds |-> NoFile]
  /\ pc = [p \in Procs |-> "idle"]
  /\ seed = [p \in Procs |-> "agents"]
  /\ target = [p \in Procs |-> 1]
  /\ val = [p \in Procs |-> NoFile]
  /\ at = [p \in Procs |-> 1]
  /\ tmp = [p \in Procs |-> NoFile]
  /\ copy = [p \in Procs |-> [k \in Seeds |-> NoFile]]

(***************************************************************************)
(* The environment.                                                        *)
(***************************************************************************)
EditSource ==
  /\ "edits" \in world
  /\ edits < MaxEdits
  /\ MayStart
  /\ \E k \in Seeds, v \in Versions \cup {NoFile} : source' = [source EXCEPT ![k] = v]
  /\ edits' = edits + 1
  /\ UNCHANGED <<world, cid, file, cache, pc, procVars, copy>>

\* The container is replaced; the codex volume is mounted again.
Recreate ==
  /\ cid < MaxIds
  /\ MayStart
  /\ cid' = cid + 1
  /\ file' = [t \in Targets |-> IF t[1] = "agents" THEN NoFile ELSE file[t]]
  /\ UNCHANGED <<hostVars, cache, pc, procVars, copy>>

\* Any save of another field writes back the cache it loaded.
LoadOther(p) ==
  /\ pc[p] = "idle"
  /\ MayStart
  /\ copy' = [copy EXCEPT ![p] = cache]
  /\ Goto(p, "saveOther")
  /\ UNCHANGED <<hostVars, cid, file, cache, procVars>>

SaveOther(p) ==
  /\ pc[p] = "saveOther"
  /\ cache' = copy[p]
  /\ Goto(p, "idle")
  /\ UNCHANGED <<hostVars, cid, file, procVars, copy>>

(***************************************************************************)
(* sync_to_container and seed_auth_if_enabled.                             *)
(***************************************************************************)
\* wait_for_container has returned; _container_up seeds the instructions first.
BeginSeeding(p) ==
  /\ pc[p] = "idle"
  /\ MayStart
  /\ target' = [target EXCEPT ![p] = cid]
  /\ seed' = [seed EXCEPT ![p] = "agents"]
  /\ Goto(p, "read")
  /\ UNCHANGED <<hostVars, cid, file, cache, val, at, tmp, copy>>

\* What follows the seed p is at, seeded or not.
Proceed(p) ==
  IF seed[p] = "agents"
    THEN seed' = [seed EXCEPT ![p] = "codex"] /\ Goto(p, "read")
    ELSE UNCHANGED seed /\ Goto(p, "idle")

\* No host file, or the codex feature is not used: nothing to do.
NothingToSeed(p) ==
  /\ pc[p] = "read"
  /\ source[seed[p]] = NoFile \/ seed[p] = "codex"
  /\ Proceed(p)
  /\ UNCHANGED <<hostVars, cid, file, cache, target, val, at, tmp, copy>>

ReadSource(p) ==
  /\ pc[p] = "read"
  /\ source[seed[p]] # NoFile
  /\ val' = [val EXCEPT ![p] = source[seed[p]]]
  /\ Goto(p, "check")
  /\ UNCHANGED <<hostVars, cid, file, cache, seed, target, at, tmp, copy>>

\* Mutant: the container is not compared.
CurrentAnywhere(p) ==
  cache[seed[p]] # NoFile /\ cache[seed[p]][2] = val[p]

\* seeded_file_is_current.
Current(p) == cache[seed[p]] = <<target[p], val[p]>>

SkipCopy(p) ==
  /\ pc[p] = "check"
  /\ Current(p)
  /\ Proceed(p)
  /\ UNCHANGED <<hostVars, cid, file, cache, target, val, at, tmp, copy>>

BeginCopy(p) ==
  /\ pc[p] = "check"
  /\ ~Current(p)
  /\ at' = [at EXCEPT ![p] = 1]
  /\ Goto(p, "open")
  /\ UNCHANGED <<hostVars, cid, file, cache, seed, target, val, tmp, copy>>

(***************************************************************************)
(* write_container_file, once for each path: dd to a temporary file of its *)
(* own, then chmod and mv.                                                 *)
(***************************************************************************)
Reaches(p) == target[p] = cid

\* Mutant: dd writes to the target.
OpenTarget(p) ==
  /\ pc[p] = "open"
  /\ Reaches(p)
  /\ file' = [file EXCEPT ![<<seed[p], at[p]>>] = "torn"]
  /\ Goto(p, "fill")
  /\ UNCHANGED <<hostVars, cid, cache, seed, target, val, at, tmp, copy>>

OpenTmp(p) ==
  /\ pc[p] = "open"
  /\ Reaches(p)
  /\ tmp' = [tmp EXCEPT ![p] = "torn"]
  /\ Goto(p, "fill")
  /\ UNCHANGED <<hostVars, cid, file, cache, seed, target, val, at, copy>>

FillTmp(p) ==
  /\ pc[p] = "fill"
  /\ Reaches(p)
  /\ tmp' = [tmp EXCEPT ![p] = val[p]]
  /\ Goto(p, "move")
  /\ UNCHANGED <<hostVars, cid, file, cache, seed, target, val, at, copy>>

\* Mutant: the copy is recorded after its first path.
MoveTmpOnce(p) ==
  /\ pc[p] = "move"
  /\ Reaches(p)
  /\ file' = [file EXCEPT ![<<seed[p], at[p]>>] = tmp[p]]
  /\ tmp' = [tmp EXCEPT ![p] = NoFile]
  /\ Goto(p, "markLoad")
  /\ UNCHANGED <<hostVars, cid, cache, seed, target, val, at, copy>>

MoveTmp(p) ==
  /\ pc[p] = "move"
  /\ Reaches(p)
  /\ file' = [file EXCEPT ![<<seed[p], at[p]>>] = tmp[p]]
  /\ tmp' = [tmp EXCEPT ![p] = NoFile]
  /\ IF at[p] < LastPath(seed[p])
       THEN at' = [at EXCEPT ![p] = at[p] + 1] /\ Goto(p, "open")
       ELSE UNCHANGED at /\ Goto(p, "markLoad")
  /\ UNCHANGED <<hostVars, cid, cache, seed, target, val, copy>>

\* An exec fails, as all do once the container is replaced: rm of the temporary
\* file, and a warning.
CopyFails(p) ==
  /\ pc[p] \in {"open", "fill", "move"}
  /\ Reaches(p) => "faults" \in world
  /\ tmp' = [tmp EXCEPT ![p] = NoFile]
  /\ Proceed(p)
  /\ UNCHANGED <<hostVars, cid, file, cache, target, val, at, copy>>

(***************************************************************************)
(* mark_seeded_file_current.                                               *)
(***************************************************************************)
MarkLoad(p) ==
  /\ pc[p] = "markLoad"
  /\ copy' = [copy EXCEPT ![p] = cache]
  /\ Goto(p, "markSave")
  /\ UNCHANGED <<hostVars, cid, file, cache, procVars>>

MarkSave(p) ==
  /\ pc[p] = "markSave"
  /\ cache' = [copy[p] EXCEPT ![seed[p]] = <<target[p], val[p]>>]
  /\ Proceed(p)
  /\ UNCHANGED <<hostVars, cid, file, target, val, at, tmp, copy>>

Killed(p) ==
  /\ "faults" \in world
  /\ pc[p] # "idle"
  /\ Goto(p, "idle")
  /\ UNCHANGED <<hostVars, cid, file, cache, procVars, copy>>

-----------------------------------------------------------------------------
Next ==
  \/ EditSource
  \/ Recreate
  \/ \E p \in Procs :
       \/ LoadOther(p) \/ SaveOther(p)
       \/ BeginSeeding(p) \/ NothingToSeed(p) \/ ReadSource(p)
       \/ SkipCopy(p) \/ BeginCopy(p)
       \/ OpenTmp(p) \/ FillTmp(p) \/ MoveTmp(p) \/ CopyFails(p)
       \/ MarkLoad(p) \/ MarkSave(p) \/ Killed(p)

Spec == Init /\ [][Next]_vars

-----------------------------------------------------------------------------
Steps ==
  {"idle", "saveOther", "read", "check", "open", "fill", "move", "markLoad", "markSave"}

\* Each variable has its type: a path tools read never holds a truncated file
\* (container.py:747), and a copy moves only what it has written whole.
TypeOK ==
  /\ world \in Worlds
  /\ source \in [Seeds -> Versions \cup {NoFile}] /\ edits \in 0..MaxEdits
  /\ cid \in 1..MaxIds
  /\ file \in [Targets -> Versions \cup {NoFile}]
  /\ cache \in Caches /\ copy \in [Procs -> Caches]
  /\ pc \in [Procs -> Steps]
  /\ seed \in [Procs -> Seeds] /\ target \in [Procs -> 1..MaxIds]
  /\ val \in [Procs -> Versions \cup {NoFile}]
  /\ at \in [Procs -> 1..AgentPaths]
  /\ tmp \in [Procs -> Versions \cup {NoFile, "torn"}]
  /\ \A p \in Procs :
       /\ pc[p] \in {"check", "open", "fill", "move", "markLoad", "markSave"} => val[p] \in Versions
       /\ pc[p] \in {"open", "fill", "move"} => at[p] <= LastPath(seed[p])
       /\ pc[p] = "move" => tmp[p] = val[p]

\* All paths of seed k hold v.
Holds(k, v) == \A i \in 1..LastPath(k) : file[<<k, i>>] = v

\* While the host files stay as they are, what the cache says of the current
\* container is true of all its paths, however commands interleave and fail.
CacheVouches ==
  "edits" \notin world =>
    \A k \in Seeds, v \in Versions : cache[k] = <<cid, v>> => Holds(k, v)

\* A start that skips a copy leaves in the container what it read: dcman "skips
\* the copy when the same content was already seeded into the same container"
\* (README.md:120), and only then.
SkipIsCurrent ==
  [][\A p \in Procs : SkipCopy(p) /\ Reaches(p) => Holds(seed[p], val[p])]_vars

\* A start that skips a copy, or reports one as done ("Synced global agent
\* instructions"), leaves in the container what it read.
SeededIsCurrent ==
  [][\A p \in Procs :
       (SkipCopy(p) \/ MarkSave(p)) /\ Reaches(p) => Holds(seed[p], val[p])]_vars
=============================================================================

----------------------------- MODULE StateStore -----------------------------
(***************************************************************************)
(* load_state and save_state, one system call at a time.  Every process    *)
(* writes the same temporary file, state.tmp, and renames it over          *)
(* state.json.  There is no lock.                                          *)
(***************************************************************************)
EXTENDS Naturals, FiniteSets

CONSTANTS
  Procs,      \* processes that use the state of one workspace
  Keys,       \* the fields of the dict
  Unset,      \* a field that is missing, or null
  Inodes,     \* the files that may exist
  NoInode,    \* the name is not there
  Overlap     \* may "saves" overlap, or whole read-"modify"-writes?

ASSUME StoreAssumption ==
  /\ Unset \notin Procs
  /\ NoInode \notin Inodes
  /\ Overlap \subseteq {"saves", "modifies"}

VARIABLES
  pc,         \* pc[p]: what p does next
  dict,       \* dict[p]: the dict p loaded
  field,      \* field[p]: the field p sets
  fd,         \* fd[p]: the file p opened for writing
  tmp,        \* the file named state.tmp
  json,       \* the file named state.json
  content     \* content[i]: what file i holds

vars == <<pc, dict, field, fd, tmp, json, content>>

Values == Procs \cup {Unset}
Dicts  == [Keys -> Values]
Fresh  == [k \in Keys |-> Unset]

\* A file holds the text of a dict, nothing at all, or text that does not parse.
Text(d) == [kind |-> "text", data |-> d]
Empty   == [kind |-> "empty", data |-> Fresh]
Garbage == [kind |-> "garbage", data |-> Fresh]
Contents == [kind : {"text", "empty", "garbage"}, data : Dicts]

Saving(p) == pc[p] \in {"write", "replace"}

\* Inside a load-modify-save.
Modifying(p) == pc[p] = "loaded" \/ Saving(p)

\* load_state's view of the file: the defaults when it is missing or does not
\* parse.
Read(i) == IF i # NoInode /\ content[i].kind = "text" THEN content[i].data ELSE Fresh

\* Files nothing refers to can be taken for a new file.
Unused == {i \in Inodes : i # tmp /\ i # json /\ \A p \in Procs : fd[p] # i}

-----------------------------------------------------------------------------
Init ==
  /\ pc = [p \in Procs |-> "idle"]
  /\ dict = [p \in Procs |-> Fresh]
  /\ field \in [Procs -> Keys]
  /\ fd = [p \in Procs |-> NoInode]
  /\ tmp = NoInode
  /\ json = NoInode
  /\ content = [i \in Inodes |-> Empty]

\* Mutant: a left-over state.tmp is cleaned up first.
LoadStateCleaning(p) ==
  /\ pc[p] = "idle"
  /\ "modifies" \in Overlap \/ \A q \in Procs : ~Modifying(q)
  /\ dict' = [dict EXCEPT ![p] = Read(json)]
  /\ \E k \in Keys : field' = [field EXCEPT ![p] = k]
  /\ pc' = [pc EXCEPT ![p] = "loaded"]
  /\ tmp' = NoInode
  /\ UNCHANGED <<fd, json, content>>

\* load_state, by a caller that will save: mark_seeded_file_current, clear_timer,
\* schedule_idle_stop, alloc_ssh_port, save_devcontainer_hash, ...
LoadState(p) ==
  /\ pc[p] = "idle"
  /\ "modifies" \in Overlap \/ \A q \in Procs : ~Modifying(q)
  /\ dict' = [dict EXCEPT ![p] = Read(json)]
  /\ \E k \in Keys : field' = [field EXCEPT ![p] = k]
  /\ pc' = [pc EXCEPT ![p] = "loaded"]
  /\ UNCHANGED <<fd, tmp, json, content>>

\* Mutant: state.json itself is opened.
OpenTmpInPlace(p) ==
  /\ pc[p] = "loaded"
  /\ "saves" \in Overlap \/ \A q \in Procs : ~Saving(q)
  /\ \E i \in IF json = NoInode THEN Unused ELSE {json} :
       /\ tmp' = i
       /\ fd' = [fd EXCEPT ![p] = i]
       /\ content' = [content EXCEPT ![i] = Empty]
  /\ pc' = [pc EXCEPT ![p] = "write"]
  /\ UNCHANGED <<dict, field, json>>

\* write_text opens state.tmp: created when missing, emptied when there.
OpenTmp(p) ==
  /\ pc[p] = "loaded"
  /\ "saves" \in Overlap \/ \A q \in Procs : ~Saving(q)
  /\ \E i \in IF tmp = NoInode THEN Unused ELSE {tmp} :
       /\ tmp' = i
       /\ fd' = [fd EXCEPT ![p] = i]
       /\ content' = [content EXCEPT ![i] = Empty]
  /\ pc' = [pc EXCEPT ![p] = "write"]
  /\ UNCHANGED <<dict, field, json>>

\* Mutant: the loaded dict is not carried over.
NewTextAlone(p) == Text([Fresh EXCEPT ![field[p]] = p])

NewText(p) == Text([dict[p] EXCEPT ![field[p]] = p])

\* Mutant: the file is not closed.
WriteTmpUnclosed(p) ==
  /\ pc[p] = "write"
  /\ content' = [content EXCEPT ![fd[p]] = NewText(p)]
  /\ pc' = [pc EXCEPT ![p] = "replace"]
  /\ UNCHANGED <<dict, field, fd, tmp, json>>

\* ... and writes from offset 0: over an empty file the text is there; over the
\* text of another process it is, unless that was longer and its end remains.
WriteTmp(p) ==
  /\ pc[p] = "write"
  /\ \E c \in IF content[fd[p]] = Empty THEN {NewText(p)} ELSE {NewText(p), Garbage} :
       content' = [content EXCEPT ![fd[p]] = c]
  /\ fd' = [fd EXCEPT ![p] = NoInode]
  /\ pc' = [pc EXCEPT ![p] = "replace"]
  /\ UNCHANGED <<dict, field, tmp, json>>

\* The rename of whatever state.tmp is now; FileNotFoundError when another
\* process has renamed it away.
Replace(p) ==
  /\ pc[p] = "replace"
  /\ IF tmp # NoInode
       THEN json' = tmp /\ tmp' = NoInode /\ pc' = [pc EXCEPT ![p] = "idle"]
       ELSE UNCHANGED <<json, tmp>> /\ pc' = [pc EXCEPT ![p] = "failed"]
  /\ dict' = [dict EXCEPT ![p] = Fresh]
  /\ UNCHANGED <<field, fd, content>>

\* The process is killed; its terminal may run another command later.
Crash(p) ==
  /\ pc[p] \in {"loaded", "write", "replace"}
  /\ dict' = [dict EXCEPT ![p] = Fresh]
  /\ fd' = [fd EXCEPT ![p] = NoInode]
  /\ pc' = [pc EXCEPT ![p] = "idle"]
  /\ UNCHANGED <<field, tmp, json, content>>

Next ==
  \E p \in Procs :
    LoadState(p) \/ OpenTmp(p) \/ WriteTmp(p) \/ Replace(p) \/ Crash(p)

Spec == Init /\ [][Next]_vars

-----------------------------------------------------------------------------
(***************************************************************************)
(* Properties.                                                             *)
(***************************************************************************)
\* Every variable keeps to its values, names refer to files, and a file is
\* open exactly while it is being written (state.py:69-75).
TypeOK ==
  /\ pc \in [Procs -> {"idle", "loaded", "write", "replace", "failed"}]
  /\ dict \in [Procs -> Dicts]
  /\ field \in [Procs -> Keys]
  /\ fd \in [Procs -> Inodes \cup {NoInode}]
  /\ tmp \in Inodes \cup {NoInode}
  /\ json \in Inodes \cup {NoInode}
  /\ content \in [Inodes -> Contents]
  /\ \A p \in Procs : fd[p] # NoInode <=> pc[p] = "write"

\* "Atomic rename avoids partially-written JSON if the process is interrupted"
\* (state.py:74): state.json, once there, always parses.
StateParses == json # NoInode => content[json].kind = "text"

\* A save ends with the rename of the file it wrote (state.py:73-75).
NoSaveFails == \A p \in Procs : pc[p] # "failed"

\* A save leaves the other fields of state.json as they are (each caller sets
\* its own fields of the dict it loaded, e.g. state.py:110-121).
KeepsOtherFields ==
  [][\A p \in Procs : Replace(p) =>
       \A k \in Keys \ {field[p]} : Read(json)[k] = Read(json)'[k]]_vars

\* The whole store behaves as a register of dicts.
Register == INSTANCE StateRegister WITH
  reg <- Read(json),
  copy <- dict,
  holding <- {p \in Procs : Modifying(p)}

RefinesRegister == Register!Spec
=============================================================================

------------------------------ MODULE HostLinks ------------------------------
(***************************************************************************)
(* `dcman agents link-host` and `unlink-host`: the instruction files of    *)
(* several tools become symbolic links to dcman's own file, the source.    *)
(* The tools and the user write to these paths too, and two terminals may  *)
(* run a command at once.                                                  *)
(***************************************************************************)
EXTENDS Naturals

CONSTANTS
  Procs,    \* terminals, each running one command after another
  Last,     \* how many tool paths there are
  MidRun,   \* may others change a path while a command runs?
  Faults    \* may file-system calls fail, and commands be killed?

ASSUME LinksAssumption ==
  /\ Last \in Nat \ {0}
  /\ {MidRun, Faults} \subseteq BOOLEAN

VARIABLES
  entry,     \* entry[i]: what is at tool path i
  source,    \* does the source exist?
  pc,        \* pc[p]: what p does next
  at,        \* at[p]: the path p is at
  conflict,  \* conflict[p]: has p found a conflict?
  links,     \* links[p]: the paths p is about to unlink
  \* History, read by the properties only.
  made,      \* made[p]: the paths the last command of p has linked
  moved      \* moved[p]: the paths, 0 the source, others have changed since it began

diskVars    == <<entry, source>>
historyVars == <<made, moved>>
vars == <<diskVars, pc, at, conflict, links, historyVars>>

-----------------------------------------------------------------------------
\* _host_tool_paths, in their order.
Paths == 1..Last

\* "link": a symbolic link that resolves to the source, whether that exists or
\* not; "same": no link, but it resolves to the source, because it is the source
\* (DCMAN_AGENTS_MD) or lies below a linked directory; "file": any other file, or
\* a link to something else.
Kinds == {"absent", "link", "same", "file"}

\* path.resolve() == source.
Resolves(i) == entry[i] \in {"link", "same"}

Ended == {"idle", "refused", "failed", "linked", "unlinked"}

Steps == Ended \cup {"check", "exists", "ensure", "look", "make", "scan", "unlink"}

Goto(p, l) == pc' = [pc EXCEPT ![p] = l]

AllEnded == \A p \in Procs : pc[p] \in Ended

\* Mutant: the loop runs past the last path.
AdvancePast(p, l, again) ==
  IF at[p] <= Last
    THEN at' = [at EXCEPT ![p] = at[p] + 1] /\ Goto(p, again)
    ELSE at' = [at EXCEPT ![p] = 1] /\ Goto(p, l)

\* p goes on with the next path, or after the last one with l.
Advance(p, l, again) ==
  IF at[p] < Last
    THEN at' = [at EXCEPT ![p] = at[p] + 1] /\ Goto(p, again)
    ELSE at' = [at EXCEPT ![p] = 1] /\ Goto(p, l)

\* Path i, or the source, changes under every command but those of Own.
Moved(i, Own) == [q \in Procs |-> IF q \in Own THEN moved[q] ELSE moved[q] \cup {i}]

Init ==
  /\ entry \in [Paths -> Kinds]
  /\ source \in BOOLEAN
  /\ pc = [p \in Procs |-> "idle"]
  /\ at = [p \in Procs |-> 1]
  /\ conflict = [p \in Procs |-> FALSE]
  /\ links = [p \in Procs |-> {}]
  /\ made = [p \in Procs |-> {}]
  /\ moved = [p \in Procs |-> {}]

(***************************************************************************)
(* The user and the tools.                                                 *)
(***************************************************************************)
\* A tool saves its file over what is there, the user removes or links it.  Where
\* the source lies is settled.
PathChanges ==
  /\ MidRun \/ AllEnded
  /\ \E i \in Paths, k \in Kinds \ {"same"} :
       /\ entry[i] # "same"
       /\ entry' = [entry EXCEPT ![i] = k]
       /\ moved' = Moved(i, {})
  /\ UNCHANGED <<source, pc, at, conflict, links, made>>

\* Links to a source that is gone stay links to it.
SourceRemoved ==
  /\ MidRun \/ AllEnded
  /\ source' = FALSE
  /\ moved' = Moved(0, {})
  /\ UNCHANGED <<entry, pc, at, conflict, links, made>>

(***************************************************************************)
(* configure_host_links.                                                   *)
(***************************************************************************)
Begin(p, l) ==
  /\ pc[p] \in Ended
  /\ Goto(p, l)
  /\ at' = [at EXCEPT ![p] = 1]
  /\ conflict' = [conflict EXCEPT ![p] = FALSE]
  /\ links' = [links EXCEPT ![p] = {}]
  /\ made' = [made EXCEPT ![p] = {}]
  /\ moved' = [moved EXCEPT ![p] = {}]
  /\ UNCHANGED diskVars

LinkHost(p) == Begin(p, "check")

\* Mutant: the first path without a conflict ends the check.
CheckedFirst(p) ==
  /\ pc[p] = "check"
  /\ IF Resolves(at[p])
       THEN at' = [at EXCEPT ![p] = 1] /\ Goto(p, IF conflict[p] THEN "refused" ELSE "ensure")
       ELSE UNCHANGED at /\ Goto(p, "exists")
  /\ UNCHANGED <<diskVars, conflict, links, historyVars>>

\* _host_link_conflict: no conflict with a path that resolves to the source.
CheckResolves(p) ==
  /\ pc[p] = "check"
  /\ IF Resolves(at[p])
       THEN Advance(p, IF conflict[p] THEN "refused" ELSE "ensure", "check")
       ELSE UNCHANGED at /\ Goto(p, "exists")
  /\ UNCHANGED <<diskVars, conflict, links, historyVars>>

\* path.exists() or path.is_symlink(), a moment later.
CheckExists(p) ==
  /\ pc[p] = "exists"
  /\ LET found == conflict[p] \/ entry[at[p]] # "absent"
     IN  /\ conflict' = [conflict EXCEPT ![p] = found]
         /\ Advance(p, IF found THEN "refused" ELSE "ensure", "check")
  /\ UNCHANGED <<diskVars, links, historyVars>>

\* _ensure_source_file.
EnsureSource(p) ==
  /\ pc[p] = "ensure"
  /\ source' = TRUE
  /\ Goto(p, "look")
  /\ UNCHANGED <<entry, at, conflict, links, historyVars>>

\* Mutant: one path that is configured stands for all.
LinkLooksOnce(p) ==
  /\ pc[p] = "look"
  /\ IF Resolves(at[p])
       THEN UNCHANGED at /\ Goto(p, "linked")
       ELSE UNCHANGED at /\ Goto(p, "make")
  /\ UNCHANGED <<diskVars, conflict, links, historyVars>>

\* _link_host_path: "Already configured", ...
LinkLooks(p) ==
  /\ pc[p] = "look"
  /\ IF Resolves(at[p])
       THEN Advance(p, "linked", "look")
       ELSE UNCHANGED at /\ Goto(p, "make")
  /\ UNCHANGED <<diskVars, conflict, links, historyVars>>

\* ... or path.symlink_to(source) ...
MakeLink(p) ==
  /\ pc[p] = "make"
  /\ entry[at[p]] = "absent"
  /\ entry' = [entry EXCEPT ![at[p]] = "link"]
  /\ made' = [made EXCEPT ![p] = @ \cup {at[p]}]
  /\ moved' = Moved(at[p], {p})
  /\ Advance(p, "linked", "look")
  /\ UNCHANGED <<source, conflict, links>>

\* ... which fails when something is there by now, be it the same link.
LinkingFails(p) ==
  /\ \/ pc[p] = "make" /\ (entry[at[p]] # "absent" \/ Faults)
     \/ pc[p] = "ensure" /\ Faults
  /\ Goto(p, "failed")
  /\ UNCHANGED <<diskVars, at, conflict, links, historyVars>>

(***************************************************************************)
(* unlink_host_links.                                                      *)
(***************************************************************************)
UnlinkHost(p) == Begin(p, "scan")

\* Mutant: what resolves to the source is taken for a link to it.
ScanPathFollowing(p) ==
  /\ pc[p] = "scan"
  /\ links' = [links EXCEPT ![p] = IF Resolves(at[p]) THEN @ \cup {at[p]} ELSE @]
  /\ Advance(p, "unlink", "scan")
  /\ UNCHANGED <<diskVars, conflict, historyVars>>

\* The list of the links to the source is made first (is_symlink), ...
ScanPath(p) ==
  /\ pc[p] = "scan"
  /\ links' = [links EXCEPT ![p] = IF entry[at[p]] = "link" THEN @ \cup {at[p]} ELSE @]
  /\ Advance(p, "unlink", "scan")
  /\ UNCHANGED <<diskVars, conflict, historyVars>>

\* Mutant: one link is enough.
UnlinkPathOnce(p) ==
  /\ pc[p] = "unlink"
  /\ IF at[p] \in links[p]
       THEN /\ entry[at[p]] # "absent"
            /\ entry' = [entry EXCEPT ![at[p]] = "absent"]
            /\ moved' = Moved(at[p], {p})
            /\ UNCHANGED at /\ Goto(p, "unlinked")
       ELSE UNCHANGED <<entry, moved>> /\ Advance(p, "unlinked", "unlink")
  /\ UNCHANGED <<source, conflict, links, made>>

\* ... and then each on the list is unlinked, whatever it is by now.
UnlinkPath(p) ==
  /\ pc[p] = "unlink"
  /\ IF at[p] \in links[p]
       THEN /\ entry[at[p]] # "absent"
            /\ entry' = [entry EXCEPT ![at[p]] = "absent"]
            /\ moved' = Moved(at[p], {p})
       ELSE UNCHANGED <<entry, moved>>
  /\ Advance(p, "unlinked", "unlink")
  /\ UNCHANGED <<source, conflict, links, made>>

\* One that is gone raises FileNotFoundError, and the others stay.
UnlinkingFails(p) ==
  /\ pc[p] = "unlink"
  /\ at[p] \in links[p]
  /\ entry[at[p]] = "absent" \/ Faults
  /\ Goto(p, "failed")
  /\ UNCHANGED <<diskVars, at, conflict, links, historyVars>>

Killed(p) ==
  /\ Faults
  /\ pc[p] \notin Ended
  /\ Goto(p, "idle")
  /\ UNCHANGED <<diskVars, at, conflict, links, historyVars>>

-----------------------------------------------------------------------------
CommandStep(p) ==
  \/ LinkHost(p) \/ CheckResolves(p) \/ CheckExists(p) \/ EnsureSource(p)
  \/ LinkLooks(p) \/ MakeLink(p) \/ LinkingFails(p)
  \/ UnlinkHost(p) \/ ScanPath(p) \/ UnlinkPath(p) \/ UnlinkingFails(p)
  \/ Killed(p)

Next == PathChanges \/ SourceRemoved \/ \E p \in Procs : CommandStep(p)

Spec == Init /\ [][Next]_vars

-----------------------------------------------------------------------------
\* Each variable has its type; a link is listed for removal, and was made, at a
\* tool path only.
TypeOK ==
  /\ entry \in [Paths -> Kinds] /\ source \in BOOLEAN
  /\ pc \in [Procs -> Steps]
  /\ at \in [Procs -> Paths]
  /\ conflict \in [Procs -> BOOLEAN]
  /\ links \in [Procs -> SUBSET Paths]
  /\ made \in [Procs -> SUBSET Paths] /\ moved \in [Procs -> SUBSET (0..Last)]

\* No command removes or replaces a file that is not dcman's link, be it the
\* user's own (agent_instructions.py:69, "refusing to replace existing agent
\* instructions file") or the source itself, kept at a tool path or reached through
\* a linked directory (agent_instructions.py:95), however two commands interleave.
FilesSurvive ==
  [][\A p \in Procs : CommandStep(p) =>
       \A i \in Paths : entry[i] \in {"file", "same"} => entry'[i] = entry[i]]_vars

\* All paths are checked before the first is linked (agent_instructions.py:87-90):
\* a command that has linked any has found none of the others in conflict.
ConflictLinksNothing ==
  \A p \in Procs : made[p] # {} => \A i \in Paths \ moved[p] : entry[i] # "file"

\* After a link-host that reports success there is a source, and every path leads
\* to it, of those nobody else touched.
LinkedIsComplete ==
  \A p \in Procs : pc[p] = "linked" =>
    /\ source \/ 0 \in moved[p]
    /\ \A i \in Paths \ moved[p] : Resolves(i)

\* An unlink-host that reports success has left no link to the source behind, of
\* those nobody else touched: also none that a failed link-host had left.
UnlinkedIsComplete ==
  \A p \in Procs : pc[p] = "unlinked" => \A i \in Paths \ moved[p] : entry[i] # "link"
=============================================================================

------------------------- MODULE ConfigReviewProofs -------------------------
(***************************************************************************)
(* Proofs about ConfigReview when the config is not edited while a command *)
(* runs: commands of any number of terminals interleave, fail and are      *)
(* killed, yet nothing is stored as accepted and no container is replaced  *)
(* without the user's yes.  When they take turns, a reused container is    *)
(* current and a shown diff shows an edit.                                 *)
(***************************************************************************)
EXTENDS ConfigReview, TLAPS

LEMMA TypeStep ==
  ASSUME TypeOK, [Next]_vars
  PROVE  TypeOK'
<1> USE ReviewAssumption DEF TypeOK, Goto, Steps, stateVars
<1>0. Digest \in Digests BY DEF Digest, Digests
<1> USE <1>0 DEF Digests
<1>1. CASE Edit BY <1>1 DEF Edit, choiceVars, saveVars
<1>2. CASE RemoveOutside BY <1>2 DEF RemoveOutside, diskVars, choiceVars, saveVars
<1>3. ASSUME NEW p \in Procs, NEW c \in {"start", "shell"}, Start(p, c) PROVE TypeOK'
  BY <1>3 DEF Start, diskVars, saveVars
<1>4. ASSUME NEW p \in Procs, ReadState(p) PROVE TypeOK'
  BY <1>4 DEF ReadState, diskVars, saveVars
<1>5. ASSUME NEW p \in Procs, FindContainers(p) PROVE TypeOK'
  BY <1>5 DEF FindContainers, diskVars, saveVars
<1>6. ASSUME NEW p \in Procs, Decide(p) PROVE TypeOK'
  <2>1. accepted' \subseteq Configs BY <1>6 DEF Decide
  <2>2. changed' \in [Procs -> BOOLEAN] /\ recreate' \in [Procs -> BOOLEAN]
    BY <1>6 DEF Decide, Differs, BuildsUnasked
  <2>3. \E l \in {"env", "diff", "digest"} : pc' = [pc EXCEPT ![p] = l]
    BY <1>6 DEF Decide
  <2> QED BY <1>6, <2>1, <2>2, <2>3 DEF Decide, diskVars, saveVars
<1>7. ASSUME NEW p \in Procs, ShowDiff(p) PROVE TypeOK'
  BY <1>7 DEF ShowDiff, diskVars, choiceVars
<1>8. ASSUME NEW p \in Procs, AnswerYes(p) PROVE TypeOK'
  BY <1>8 DEF AnswerYes, diskVars, saveVars
<1>9. ASSUME NEW p \in Procs, AnswerNo(p) \/ Abort(p) PROVE TypeOK'
  BY <1>9 DEF AnswerNo, Abort, diskVars, choiceVars, saveVars
<1>10. ASSUME NEW p \in Procs, TakeDigest(p) PROVE TypeOK'
  BY <1>10 DEF TakeDigest, diskVars, choiceVars
<1>11. ASSUME NEW p \in Procs, SaveHash(p) PROVE TypeOK'
  BY <1>11 DEF SaveHash, diskVars, choiceVars, saveVars
<1>12. ASSUME NEW p \in Procs, EnvLoad(p) PROVE TypeOK'
  BY <1>12 DEF EnvLoad, diskVars, choiceVars
<1>13. ASSUME NEW p \in Procs, EnvSave(p) PROVE TypeOK'
  BY <1>13 DEF EnvSave, diskVars, choiceVars, saveVars
<1>14. ASSUME NEW p \in Procs, Up(p) PROVE TypeOK'
  BY <1>14 DEF Up, choiceVars, saveVars
<1>15. ASSUME NEW p \in Procs, UpFails(p) PROVE TypeOK'
  BY <1>15 DEF UpFails, diskVars, choiceVars, saveVars
<1>16. ASSUME NEW p \in Procs, Killed(p) PROVE TypeOK'
  BY <1>16 DEF Killed, diskVars, choiceVars, saveVars
<1>17. ASSUME NEW p \in Procs, Rebuild(p) PROVE TypeOK'
  BY <1>17 DEF Rebuild, diskVars, saveVars
<1>18. ASSUME NEW p \in Procs, Prune(p) PROVE TypeOK'
  BY <1>18 DEF Prune, diskVars, saveVars
<1>19. ASSUME NEW p \in Procs, Forget(p) PROVE TypeOK'
  BY <1>19 DEF Forget, diskVars, choiceVars, saveVars
<1>20. CASE UNCHANGED vars
  BY <1>20 DEF vars, diskVars, choiceVars, saveVars
<1> QED BY <1>1, <1>2, <1>3, <1>4, <1>5, <1>6, <1>7, <1>8, <1>9, <1>10, <1>11, <1>12,
           <1>13, <1>14, <1>15, <1>16, <1>17, <1>18, <1>19, <1>20 DEF Next

LEMMA InitType == Init => TypeOK
<1> SUFFICES ASSUME Init PROVE TypeOK OBVIOUS
<1>1. config \in Configs /\ lock \in BOOLEAN BY DEF Init
<1>2. Digest \in Digests BY <1>1 DEF Digest, Digests
<1>3. hash \in Digests \cup {None} /\ built \in Configs \cup {None} /\ accepted \subseteq Configs
  BY <1>1, <1>2 DEF Init
<1>4. /\ snapshot \in Digests \cup {None} /\ port \in BOOLEAN /\ edits \in 0..MaxEdits
      /\ copy \in [Procs -> (Digests \cup {None}) \X (Digests \cup {None})]
  BY ReviewAssumption DEF Init
<1>5. /\ pc \in [Procs -> Steps]
      /\ cmd \in [Procs -> {"none", "start", "shell", "rebuild", "prune"}]
      /\ {cur, stored, seen, digest} \subseteq [Procs -> Digests \cup {None}]
      /\ {found, changed, recreate} \subseteq [Procs -> BOOLEAN]
      /\ \A p \in Procs : pc[p] = "idle"
  BY DEF Init, Steps
<1>6. world \in Worlds BY DEF Init
<1> QED BY <1>1, <1>3, <1>4, <1>5, <1>6 DEF TypeOK

\* TypeOK holds of every reachable state, whatever is edited, fails or overlaps.
THEOREM TypeInvariant == Spec => []TypeOK
<1>1. TypeOK /\ [Next]_vars => TypeOK' BY TypeStep
<1> QED BY InitType, <1>1, PTL DEF Spec

-----------------------------------------------------------------------------
(***************************************************************************)
(* While a command runs, the config is the one the command started from.   *)
(* What is stored, what a command copied and what it is about to store or  *)
(* to build has been accepted.                                             *)
(***************************************************************************)
Approved(d) == d # None => d[1] \in accepted

StoredApproved == Approved(hash) /\ Approved(snapshot)

ReadApproved(p) ==
  /\ pc[p] \in {"readState", "findContainers", "decide"} => cur[p][1] = config
  /\ pc[p] \in {"findContainers", "decide"} => Approved(stored[p])

ReviewApproved(p) ==
  /\ pc[p] \in {"diff", "answer"} => changed[p] /\ ~recreate[p]
  /\ pc[p] = "answer" => seen[p][1] = config
  /\ pc[p] \in {"digest", "save", "lastDigest", "lastSave"} => config \in accepted
  /\ pc[p] \in {"save", "lastSave"} => digest[p][1] = config

BuildApproved(p) ==
  /\ pc[p] \in {"env", "envSave", "up"} /\ (recreate[p] \/ ~changed[p]) => config \in accepted
  /\ pc[p] = "envSave" => Approved(copy[p][1]) /\ Approved(copy[p][2])

CommandApproved(p) == ReadApproved(p) /\ ReviewApproved(p) /\ BuildApproved(p)

ReviewInv == StoredApproved /\ \A p \in Procs : CommandApproved(p)

\* A command at work only ever adds to what is accepted and leaves the config
\* alone, so the facts of the other commands survive its step.
LEMMA OthersKeep ==
  ASSUME TypeOK, ReviewInv, NEW p \in Procs, NEW q \in Procs, q # p,
         config' = config, accepted \subseteq accepted',
         pc'[q] = pc[q], cur'[q] = cur[q], stored'[q] = stored[q], seen'[q] = seen[q],
         digest'[q] = digest[q], copy'[q] = copy[q],
         recreate'[q] = recreate[q], changed'[q] = changed[q]
  PROVE  CommandApproved(q)'
BY DEF ReviewInv, CommandApproved, ReadApproved, ReviewApproved, BuildApproved, Approved

LEMMA ReviewStep ==
  ASSUME "midRunEdits" \notin world, TypeOK, ReviewInv, [Next]_vars
  PROVE  ReviewInv'
<1> USE DEF Goto, Approved
<1>1. CASE Edit
  <2>1. \A q \in Procs : pc'[q] = "idle" BY <1>1 DEF Edit, AllIdle
  <2>2. \A q \in Procs : CommandApproved(q)'
    BY <2>1 DEF CommandApproved, ReadApproved, ReviewApproved, BuildApproved
  <2>3. StoredApproved' BY <1>1 DEF Edit, ReviewInv, StoredApproved, stateVars
  <2> QED BY <2>2, <2>3 DEF ReviewInv
<1>2. CASE RemoveOutside \/ UNCHANGED vars
  BY <1>2 DEF RemoveOutside, vars, diskVars, stateVars, choiceVars, saveVars, ReviewInv,
     StoredApproved, CommandApproved, ReadApproved, ReviewApproved, BuildApproved
<1>3. ASSUME NEW p \in Procs, \E c \in {"start", "shell"} : Start(p, c) PROVE ReviewInv'
  <2>1. CommandApproved(p)' /\ StoredApproved'
    BY <1>3 DEF Start, TypeOK, diskVars, stateVars, ReviewInv, StoredApproved, CommandApproved,
       ReadApproved, ReviewApproved, BuildApproved, Digest
  <2>2. \A q \in Procs : q # p => CommandApproved(q)'
    BY <1>3, OthersKeep DEF Start, TypeOK, diskVars, saveVars
  <2> QED BY <2>1, <2>2 DEF ReviewInv
<1>4. ASSUME NEW p \in Procs, ReadState(p) \/ FindContainers(p) PROVE ReviewInv'
  <2>1. CommandApproved(p)' /\ StoredApproved'
    BY <1>4 DEF ReadState, FindContainers, TypeOK, diskVars, stateVars, ReviewInv,
       StoredApproved, CommandApproved, ReadApproved, ReviewApproved, BuildApproved
  <2>2. \A q \in Procs : q # p => CommandApproved(q)'
    BY <1>4, OthersKeep DEF ReadState, FindContainers, TypeOK, diskVars, saveVars
  <2> QED BY <2>1, <2>2 DEF ReviewInv
<1>5. ASSUME NEW p \in Procs, Decide(p) PROVE ReviewInv'
  <2>1. cur[p] # None /\ cur[p][1] = config /\ Approved(stored[p])
    BY <1>5 DEF Decide, ReviewInv, CommandApproved, ReadApproved, TypeOK
  <2>2. config' = config /\ accepted \subseteq accepted' BY <1>5 DEF Decide, diskVars
  <2>3. ~Differs(p) => config \in accepted BY <2>1 DEF Differs
  <2>4. BuildsUnasked(p) /\ cmd[p] = "start" => config \in accepted'
    BY <1>5, <2>1, <2>2, <2>3 DEF Decide, BuildsUnasked
  <2>5. /\ changed'[p] = Differs(p)
        /\ recreate'[p] = (BuildsUnasked(p) /\ cmd[p] = "start")
    BY <1>5 DEF Decide, TypeOK
  <2>6. /\ pc'[p] \in {"env", "diff", "digest"}
        /\ pc'[p] = "digest" => (BuildsUnasked(p) /\ cmd[p] = "start") \/ ~Differs(p)
        /\ pc'[p] = "diff" => Differs(p) /\ ~BuildsUnasked(p)
    BY <1>5 DEF Decide, TypeOK
  <2>7. CommandApproved(p)'
    BY <2>2, <2>3, <2>4, <2>5, <2>6
    DEF CommandApproved, ReadApproved, ReviewApproved, BuildApproved
  <2>8. StoredApproved'
    BY <1>5, <2>2 DEF Decide, stateVars, ReviewInv, StoredApproved
  <2>9. \A q \in Procs : q # p => CommandApproved(q)'
    BY <1>5, <2>2, OthersKeep DEF Decide, TypeOK, saveVars
  <2> QED BY <2>7, <2>8, <2>9 DEF ReviewInv
<1>6. ASSUME NEW p \in Procs, ShowDiff(p) \/ AnswerYes(p) PROVE ReviewInv'
  <2>1. CommandApproved(p)' /\ StoredApproved'
    BY <1>6 DEF ShowDiff, AnswerYes, TypeOK, diskVars, stateVars, choiceVars, ReviewInv,
       StoredApproved, CommandApproved, ReadApproved, ReviewApproved, BuildApproved, Digest
  <2>2. \A q \in Procs : q # p => CommandApproved(q)'
    BY <1>6, OthersKeep DEF ShowDiff, AnswerYes, TypeOK, diskVars, choiceVars, saveVars
  <2> QED BY <2>1, <2>2 DEF ReviewInv
<1>7. ASSUME NEW p \in Procs, TakeDigest(p) \/ SaveHash(p) PROVE ReviewInv'
  <2>1. CommandApproved(p)' /\ StoredApproved'
    BY <1>7 DEF TakeDigest, SaveHash, TypeOK, diskVars, stateVars, choiceVars, saveVars,
       ReviewInv, StoredApproved, CommandApproved, ReadApproved, ReviewApproved,
       BuildApproved, Digest
  <2>2. \A q \in Procs : q # p => CommandApproved(q)'
    BY <1>7, OthersKeep DEF TakeDigest, SaveHash, TypeOK, diskVars, choiceVars, saveVars
  <2> QED BY <2>1, <2>2 DEF ReviewInv
<1>8. ASSUME NEW p \in Procs, EnvLoad(p) \/ EnvSave(p) PROVE ReviewInv'
  <2>1. CommandApproved(p)' /\ StoredApproved'
    BY <1>8 DEF EnvLoad, EnvSave, TypeOK, diskVars, stateVars, choiceVars, saveVars,
       ReviewInv, StoredApproved, CommandApproved, ReadApproved, ReviewApproved, BuildApproved
  <2>2. \A q \in Procs : q # p => CommandApproved(q)'
    BY <1>8, OthersKeep DEF EnvLoad, EnvSave, TypeOK, diskVars, choiceVars, saveVars
  <2> QED BY <2>1, <2>2 DEF ReviewInv
<1>9. ASSUME NEW p \in Procs, Up(p) PROVE ReviewInv'
  <2>1. CommandApproved(p)' /\ StoredApproved'
    BY <1>9 DEF Up, TypeOK, stateVars, choiceVars, saveVars, ReviewInv, StoredApproved,
       CommandApproved, ReadApproved, ReviewApproved, BuildApproved
  <2>2. \A q \in Procs : q # p => CommandApproved(q)'
    BY <1>9, OthersKeep DEF Up, TypeOK, choiceVars, saveVars
  <2> QED BY <2>1, <2>2 DEF ReviewInv
<1>10. ASSUME NEW p \in Procs,
              AnswerNo(p) \/ Abort(p) \/ UpFails(p) \/ Killed(p) \/ Prune(p) \/ Forget(p)
       PROVE  ReviewInv'
  <2>1. CommandApproved(p)' /\ StoredApproved'
    BY <1>10 DEF AnswerNo, Abort, UpFails, Killed, Prune, Forget, TypeOK, diskVars, stateVars,
       choiceVars, saveVars, ReviewInv, StoredApproved, CommandApproved, ReadApproved,
       ReviewApproved, BuildApproved
  <2>2. \A q \in Procs : q # p => CommandApproved(q)'
    BY <1>10, OthersKeep DEF AnswerNo, Abort, UpFails, Killed, Prune, Forget, TypeOK, diskVars,
       choiceVars, saveVars
  <2> QED BY <2>1, <2>2 DEF ReviewInv
<1>11. ASSUME NEW p \in Procs, Rebuild(p) PROVE ReviewInv'
  <2>1. CommandApproved(p)' /\ StoredApproved'
    BY <1>11 DEF Rebuild, TypeOK, diskVars, stateVars, ReviewInv, StoredApproved,
       CommandApproved, ReadApproved, ReviewApproved, BuildApproved
  <2>2. \A q \in Procs : q # p => CommandApproved(q)'
    BY <1>11, OthersKeep DEF Rebuild, TypeOK, diskVars, saveVars
  <2> QED BY <2>1, <2>2 DEF ReviewInv
<1> QED BY <1>1, <1>2, <1>3, <1>4, <1>5, <1>6, <1>7, <1>8, <1>9, <1>10, <1>11 DEF Next

LEMMA InitReview == Init => ReviewInv
BY DEF Init, ReviewInv, StoredApproved, Approved, CommandApproved, ReadApproved,
   ReviewApproved, BuildApproved, Digest

\* While no command runs during an edit, everything stored, copied, about to be
\* stored or about to be built has been accepted (ReviewInv).
THEOREM ReviewInvariant ==
  ASSUME \A w \in Worlds : "midRunEdits" \notin w PROVE Spec => [](TypeOK /\ ReviewInv)
<1>1. TypeOK /\ ReviewInv /\ [Next]_vars => (TypeOK /\ ReviewInv)'
  BY TypeStep, ReviewStep DEF TypeOK
<1> QED BY InitType, InitReview, <1>1, PTL DEF Spec

\* The baseline of the next diff is a config the user has accepted, however many
\* commands overlap, fail or are killed.
THEOREM SnapshotIsAccepted ==
  ASSUME \A w \in Worlds : "midRunEdits" \notin w PROVE Spec => []SnapshotAccepted
<1>1. ReviewInv => SnapshotAccepted
  BY DEF ReviewInv, StoredApproved, Approved, SnapshotAccepted
<1> QED BY ReviewInvariant, <1>1, PTL

\* A container is replaced only from a config the user has accepted.
THEOREM RecreateIsAccepted ==
  ASSUME \A w \in Worlds : "midRunEdits" \notin w PROVE Spec => RecreateAccepted
<1>1. TypeOK /\ ReviewInv /\ [Next]_vars
      => [\A p \in Procs : Up(p) /\ recreate[p] => built' \in accepted]_vars
  <2> SUFFICES ASSUME ReviewInv, NEW p \in Procs, Up(p), recreate[p]
               PROVE  built' \in accepted
    OBVIOUS
  <2>1. built' = config BY DEF Up
  <2>2. config \in accepted BY DEF Up, ReviewInv, CommandApproved, BuildApproved
  <2> QED BY <2>1, <2>2
<1> QED BY ReviewInvariant, <1>1, PTL DEF Spec, RecreateAccepted

-----------------------------------------------------------------------------
(***************************************************************************)
(* Commands that take turns: what the running one has read is current.     *)
(***************************************************************************)
TakesTurns == "overlap" \notin world /\ "midRunEdits" \notin world

Fresh(p) ==
  /\ pc[p] \in {"readState", "findContainers", "decide"} => cur[p] = Digest
  /\ pc[p] \in {"findContainers", "decide"} => stored[p] = hash
  /\ pc[p] \in {"save", "lastSave"} => digest[p] = Digest
  /\ pc[p] = "envSave" => copy[p] = <<hash, snapshot>>

TurnInv ==
  /\ \A p, q \in Procs : pc[p] # "idle" /\ pc[q] # "idle" => p = q
  /\ \A p \in Procs : Fresh(p)

\* The hash and the snapshot agree, and the review starts from a config that
\* differs from both.
Agree ==
  /\ ~lock
  /\ \A d \in {hash, snapshot} : d # None => ~d[2]
  /\ snapshot # None => snapshot = hash
  /\ \A p \in Procs : pc[p] = "diff" => hash # Digest

\* p is about to replace the container, or has just removed it.
Replacing(p) ==
  \/ pc[p] \in {"digest", "save", "env", "envSave", "up"} /\ recreate[p]
  \/ pc[p] = "forget"

\* Unless it is being replaced, the container is the one of the accepted config;
\* a command that says its config is unchanged, or has built, has that container.
Built(p) ==
  /\ pc[p] = "decide" => found[p] = (built # None)
  /\ pc[p] \in {"diff", "answer"} => changed[p] /\ ~recreate[p]
  /\ pc[p] \in {"digest", "save"} => recreate[p] \/ built = config
  /\ pc[p] \in {"lastDigest", "lastSave"} => built = config
  /\ pc[p] \in {"env", "envSave", "up"} =>
       IF recreate[p] THEN hash # None /\ hash[1] = config ELSE changed[p] \/ built = config

BuiltAccepted ==
  /\ (\A p \in Procs : ~Replacing(p)) /\ hash # None => built = hash[1]
  /\ \A p \in Procs : Built(p)

CalmInv ==
  TakesTurns =>
    /\ TurnInv
    /\ world \subseteq {"failures"} => Agree
    /\ world \subseteq {"lockfile"} => BuiltAccepted

\* A step of the only command that is not idle.
LEMMA TurnKeeps ==
  ASSUME TypeOK, TurnInv, NEW p \in Procs, pc[p] # "idle" \/ AllIdle,
         NEW l \in Steps, Goto(p, l)
  PROVE  /\ pc'[p] = l
         /\ \A q \in Procs \ {p} : pc[q] = "idle" /\ pc'[q] = "idle"
         /\ Fresh(p)' => TurnInv'
<1>1. pc'[p] = l /\ \A q \in Procs \ {p} : pc[q] = "idle" /\ pc'[q] = "idle"
  BY DEF TypeOK, Goto, TurnInv, AllIdle
<1>2. \A q \in Procs \ {p} : Fresh(q)' BY <1>1 DEF Fresh
<1> QED BY <1>1, <1>2 DEF TurnInv

\* Its effect on the other two invariants is its own only.
LEMMA AloneKeeps ==
  ASSUME NEW p \in Procs, \A q \in Procs \ {p} : pc[q] = "idle" /\ pc'[q] = "idle"
  PROVE  /\ BuiltAccepted <=> (~Replacing(p) /\ hash # None => built = hash[1]) /\ Built(p)
         /\ BuiltAccepted' <=> ((~Replacing(p) /\ hash # None => built = hash[1]) /\ Built(p))'
<1>1. \A q \in Procs \ {p} : Built(q) /\ Built(q)' /\ ~Replacing(q) /\ ~Replacing(q)'
  BY DEF Built, Replacing
<1> QED BY <1>1 DEF BuiltAccepted

\* The world a behaviour is in stays the same.
LEMMA WorldStays == ASSUME [Next]_vars PROVE world' = world
BY DEF Next, vars, Edit, RemoveOutside, Start, ReadState, FindContainers, Decide, ShowDiff,
   AnswerYes, AnswerNo, Abort, TakeDigest, SaveHash, EnvLoad, EnvSave, Up, UpFails, Killed,
   Rebuild, Prune, Forget

LEMMA CalmStep ==
  ASSUME TypeOK, CalmInv, [Next]_vars
  PROVE  CalmInv'
<1>0. world' = world BY WorldStays
<1> SUFFICES ASSUME TakesTurns
             PROVE  /\ TurnInv'
                    /\ world \subseteq {"failures"} => Agree'
                    /\ world \subseteq {"lockfile"} => BuiltAccepted'
  BY <1>0 DEF CalmInv, TakesTurns
<1> DEFINE Goal == /\ TurnInv'
                   /\ world \subseteq {"failures"} => Agree'
                   /\ world \subseteq {"lockfile"} => BuiltAccepted'
<1>a. /\ TurnInv
      /\ world \subseteq {"failures"} => Agree
      /\ world \subseteq {"lockfile"} => BuiltAccepted
  BY DEF CalmInv
<1> USE <1>a
<1>b. /\ Digest # None /\ Digest[1] = config /\ config \in Configs /\ config # None
      /\ hash # None => hash[1] \in Configs /\ hash[1] # None
  BY ReviewAssumption DEF Digest, Digests, TypeOK
<1>1. CASE Edit
  <2>1. AllIdle /\ UNCHANGED <<lock, hash, snapshot, built, pc>>
    BY <1>1 DEF Edit, TakesTurns, stateVars
  <2>2. \A p \in Procs : pc[p] = "idle" /\ pc'[p] = "idle" BY <2>1 DEF AllIdle
  <2>3. TurnInv' BY <2>2 DEF TurnInv, Fresh
  <2>4. Agree => Agree' BY <2>1, <2>2 DEF Agree
  <2>5. BuiltAccepted => BuiltAccepted' BY <2>1, <2>2 DEF BuiltAccepted, Built, Replacing
  <2> QED BY <2>3, <2>4, <2>5
<1>2. CASE RemoveOutside
  <2>1. UNCHANGED <<config, lock, hash, snapshot, pc, cur, stored, digest, copy>>
    BY <1>2 DEF RemoveOutside, diskVars, stateVars, choiceVars, saveVars
  <2>2. TurnInv' BY <2>1 DEF TurnInv, Fresh, Digest
  <2>3. Agree => Agree' BY <2>1 DEF Agree, Digest
  <2>4. ~(world \subseteq {"lockfile"}) BY <1>2 DEF RemoveOutside
  <2> QED BY <2>2, <2>3, <2>4
<1>3. ASSUME NEW p \in Procs, \E c \in {"start", "shell"} : Start(p, c) PROVE Goal
  <2> USE <1>3 DEF Start, diskVars, stateVars, choiceVars, saveVars
  <2>1. PICK l \in Steps : Goto(p, l) /\ l = "readState" BY DEF Steps
  <2>2. pc[p] # "idle" \/ AllIdle BY DEF MayStart, TakesTurns
  <2>3. pc'[p] = l /\ \A q \in Procs \ {p} : pc[q] = "idle" /\ pc'[q] = "idle"
    BY <2>1, <2>2, TurnKeeps
  <2>4. Fresh(p)' BY <2>1, <2>3 DEF TurnInv, Fresh, Digest, TypeOK
  <2>5. TurnInv' BY <2>1, <2>2, <2>4, TurnKeeps
  <2>6. Agree => Agree' \/ ~(world \subseteq {"failures"})
    BY <2>1, <2>3 DEF Agree, Digest, TurnInv, Fresh, TypeOK
  <2>7. ASSUME BuiltAccepted, world \subseteq {"lockfile"} PROVE BuiltAccepted'
    <3>1. (~Replacing(p) /\ hash # None => built = hash[1]) /\ Built(p)
      BY <2>3, <2>7, AloneKeeps
    <3>2. ((~Replacing(p) /\ hash # None => built = hash[1]) /\ Built(p))'
      BY <2>1, <2>3, <2>7, <3>1, <1>b DEF Replacing, Built, TurnInv, Fresh, TypeOK
    <3> QED BY <2>3, <3>2, AloneKeeps
  <2> QED BY <2>5, <2>6, <2>7
<1>4. ASSUME NEW p \in Procs, ReadState(p) PROVE Goal
  <2> USE <1>4 DEF ReadState, diskVars, stateVars, choiceVars, saveVars
  <2>1. PICK l \in Steps : Goto(p, l) /\ l = "findContainers" BY DEF Steps
  <2>2. pc[p] # "idle" \/ AllIdle BY DEF MayStart, TakesTurns
  <2>3. pc'[p] = l /\ \A q \in Procs \ {p} : pc[q] = "idle" /\ pc'[q] = "idle"
    BY <2>1, <2>2, TurnKeeps
  <2>4. Fresh(p)' BY <2>1, <2>3 DEF TurnInv, Fresh, Digest, TypeOK
  <2>5. TurnInv' BY <2>1, <2>2, <2>4, TurnKeeps
  <2>6. Agree => Agree' \/ ~(world \subseteq {"failures"})
    BY <2>1, <2>3 DEF Agree, Digest, TurnInv, Fresh, TypeOK
  <2>7. ASSUME BuiltAccepted, world \subseteq {"lockfile"} PROVE BuiltAccepted'
    <3>1. (~Replacing(p) /\ hash # None => built = hash[1]) /\ Built(p)
      BY <2>3, <2>7, AloneKeeps
    <3>2. ((~Replacing(p) /\ hash # None => built = hash[1]) /\ Built(p))'
      BY <2>1, <2>3, <2>7, <3>1, <1>b DEF Replacing, Built, TurnInv, Fresh, TypeOK
    <3> QED BY <2>3, <3>2, AloneKeeps
  <2> QED BY <2>5, <2>6, <2>7
<1>5. ASSUME NEW p \in Procs, FindContainers(p) PROVE Goal
  <2> USE <1>5 DEF FindContainers, diskVars, stateVars, choiceVars, saveVars
  <2>1. PICK l \in Steps : Goto(p, l) /\ l = "decide" BY DEF Steps
  <2>2. pc[p] # "idle" \/ AllIdle BY DEF MayStart, TakesTurns
  <2>3. pc'[p] = l /\ \A q \in Procs \ {p} : pc[q] = "idle" /\ pc'[q] = "idle"
    BY <2>1, <2>2, TurnKeeps
  <2>4. Fresh(p)' BY <2>1, <2>3 DEF TurnInv, Fresh, Digest, TypeOK
  <2>5. TurnInv' BY <2>1, <2>2, <2>4, TurnKeeps
  <2>6. Agree => Agree' \/ ~(world \subseteq {"failures"})
    BY <2>1, <2>3 DEF Agree, Digest, TurnInv, Fresh, TypeOK
  <2>7. ASSUME BuiltAccepted, world \subseteq {"lockfile"} PROVE BuiltAccepted'
    <3>1. (~Replacing(p) /\ hash # None => built = hash[1]) /\ Built(p)
      BY <2>3, <2>7, AloneKeeps
    <3>2. ((~Replacing(p) /\ hash # None => built = hash[1]) /\ Built(p))'
      BY <2>1, <2>3, <2>7, <3>1, <1>b DEF Replacing, Built, TurnInv, Fresh, TypeOK
    <3> QED BY <2>3, <3>2, AloneKeeps
  <2> QED BY <2>5, <2>6, <2>7
<1>6. ASSUME NEW p \in Procs, Decide(p) PROVE Goal
  <2> USE <1>6 DEF Decide, Differs, BuildsUnasked, NoBaseline, diskVars, stateVars, choiceVars, saveVars
  <2>1. PICK l \in Steps : Goto(p, l) /\ l \in {"env", "diff", "digest"} BY DEF Steps
  <2>2. pc[p] # "idle" \/ AllIdle BY DEF MayStart, TakesTurns
  <2>3. pc'[p] = l /\ \A q \in Procs \ {p} : pc[q] = "idle" /\ pc'[q] = "idle"
    BY <2>1, <2>2, TurnKeeps
  <2>4. Fresh(p)' BY <2>1, <2>3 DEF TurnInv, Fresh, Digest, TypeOK
  <2>5. TurnInv' BY <2>1, <2>2, <2>4, TurnKeeps
  <2>6. Agree => Agree' \/ ~(world \subseteq {"failures"})
    <3>1. cur[p] = Digest /\ stored[p] = hash BY DEF TurnInv, Fresh
    <3>2. pc'[p] = "diff" => hash # Digest BY <3>1 DEF Goto, TypeOK
    <3>3. UNCHANGED <<config, lock, hash, snapshot>> OBVIOUS
    <3> QED BY <2>3, <3>2, <3>3 DEF Agree, Digest
  <2>7. ASSUME BuiltAccepted, world \subseteq {"lockfile"} PROVE BuiltAccepted'
    <3>1. (~Replacing(p) /\ hash # None => built = hash[1]) /\ Built(p)
      BY <2>3, <2>7, AloneKeeps
    <3>2. ((~Replacing(p) /\ hash # None => built = hash[1]) /\ Built(p))'
      <4>1. cur[p] = Digest /\ stored[p] = hash /\ found[p] = (built # None) /\ ~Replacing(p)
        BY <2>1, <3>1 DEF TurnInv, Fresh, Built, Replacing
      <4>2. ~Differs(p) => built = config /\ found[p] BY <1>b, <3>1, <4>1 DEF Differs
      <4>3. UNCHANGED <<config, hash, built>> OBVIOUS
      <4>4. /\ changed'[p] = Differs(p)
            /\ recreate'[p] = (BuildsUnasked(p) /\ cmd[p] = "start")
        BY DEF TypeOK
      <4>5. CASE cmd[p] = "shell" /\ (Differs(p) \/ BuildsUnasked(p)) /\ pc'[p] = "env"
        BY <1>b, <3>1, <4>1, <4>2, <4>3, <4>4, <4>5 DEF Replacing, Built, BuildsUnasked
      <4>6. CASE cmd[p] = "start" /\ Differs(p) /\ ~BuildsUnasked(p) /\ pc'[p] = "diff"
        BY <3>1, <4>1, <4>3, <4>4, <4>6 DEF Replacing, Built
      <4>7. CASE cmd[p] = "start" /\ BuildsUnasked(p) /\ pc'[p] = "digest"
        BY <4>4, <4>7 DEF Replacing, Built
      <4>8. CASE ~Differs(p) /\ ~BuildsUnasked(p) /\ pc'[p] \in {"digest", "env"}
        BY <3>1, <4>1, <4>2, <4>3, <4>4, <4>8 DEF Replacing, Built
      <4>9. \/ cmd[p] = "shell" /\ (Differs(p) \/ BuildsUnasked(p)) /\ pc'[p] = "env"
            \/ cmd[p] = "start" /\ Differs(p) /\ ~BuildsUnasked(p) /\ pc'[p] = "diff"
            \/ cmd[p] = "start" /\ BuildsUnasked(p) /\ pc'[p] = "digest"
            \/ ~Differs(p) /\ ~BuildsUnasked(p) /\ pc'[p] \in {"digest", "env"}
        BY DEF Goto, TypeOK
      <4> QED BY <4>5, <4>6, <4>7, <4>8, <4>9
    <3> QED BY <2>3, <3>2, AloneKeeps
  <2> QED BY <2>5, <2>6, <2>7
<1>7. ASSUME NEW p \in Procs, ShowDiff(p) PROVE Goal
  <2> USE <1>7 DEF ShowDiff, diskVars, stateVars, choiceVars, saveVars
  <2>1. PICK l \in Steps : Goto(p, l) /\ l = "answer" BY DEF Steps
  <2>2. pc[p] # "idle" \/ AllIdle BY DEF MayStart, TakesTurns
  <2>3. pc'[p] = l /\ \A q \in Procs \ {p} : pc[q] = "idle" /\ pc'[q] = "idle"
    BY <2>1, <2>2, TurnKeeps
  <2>4. Fresh(p)' BY <2>1, <2>3 DEF TurnInv, Fresh, Digest, TypeOK
  <2>5. TurnInv' BY <2>1, <2>2, <2>4, TurnKeeps
  <2>6. Agree => Agree' \/ ~(world \subseteq {"failures"})
    BY <2>1, <2>3 DEF Agree, Digest, TurnInv, Fresh, TypeOK
  <2>7. ASSUME BuiltAccepted, world \subseteq {"lockfile"} PROVE BuiltAccepted'
    <3>1. (~Replacing(p) /\ hash # None => built = hash[1]) /\ Built(p)
      BY <2>3, <2>7, AloneKeeps
    <3>2. ((~Replacing(p) /\ hash # None => built = hash[1]) /\ Built(p))'
      BY <2>1, <2>3, <2>7, <3>1, <1>b DEF Replacing, Built, TurnInv, Fresh, TypeOK
    <3> QED BY <2>3, <3>2, AloneKeeps
  <2> QED BY <2>5, <2>6, <2>7
<1>8. ASSUME NEW p \in Procs, AnswerYes(p) PROVE Goal
  <2> USE <1>8 DEF AnswerYes, diskVars, stateVars, choiceVars, saveVars
  <2>1. PICK l \in Steps : Goto(p, l) /\ l = "digest" BY DEF Steps
  <2>2. pc[p] # "idle" \/ AllIdle BY DEF MayStart, TakesTurns
  <2>3. pc'[p] = l /\ \A q \in Procs \ {p} : pc[q] = "idle" /\ pc'[q] = "idle"
    BY <2>1, <2>2, TurnKeeps
  <2>4. Fresh(p)' BY <2>1, <2>3 DEF TurnInv, Fresh, Digest, TypeOK
  <2>5. TurnInv' BY <2>1, <2>2, <2>4, TurnKeeps
  <2>6. Agree => Agree' \/ ~(world \subseteq {"failures"})
    BY <2>1, <2>3 DEF Agree, Digest, TurnInv, Fresh, TypeOK
  <2>7. ASSUME BuiltAccepted, world \subseteq {"lockfile"} PROVE BuiltAccepted'
    <3>1. (~Replacing(p) /\ hash # None => built = hash[1]) /\ Built(p)
      BY <2>3, <2>7, AloneKeeps
    <3>2. ((~Replacing(p) /\ hash # None => built = hash[1]) /\ Built(p))'
      BY <2>1, <2>3, <2>7, <3>1, <1>b DEF Replacing, Built, TurnInv, Fresh, TypeOK
    <3> QED BY <2>3, <3>2, AloneKeeps
  <2> QED BY <2>5, <2>6, <2>7
<1>9. ASSUME NEW p \in Procs, AnswerNo(p) \/ Abort(p) PROVE Goal
  <2> USE <1>9 DEF AnswerNo, Abort, diskVars, stateVars, choiceVars, saveVars
  <2>1. PICK l \in Steps : Goto(p, l) /\ l \in {"env", "idle"} BY DEF Steps
  <2>2. pc[p] # "idle" \/ AllIdle BY DEF MayStart, TakesTurns
  <2>3. pc'[p] = l /\ \A q \in Procs \ {p} : pc[q] = "idle" /\ pc'[q] = "idle"
    BY <2>1, <2>2, TurnKeeps
  <2>4. Fresh(p)' BY <2>1, <2>3 DEF TurnInv, Fresh, Digest, TypeOK
  <2>5. TurnInv' BY <2>1, <2>2, <2>4, TurnKeeps
  <2>6. Agree => Agree' \/ ~(world \subseteq {"failures"})
    BY <2>1, <2>3 DEF Agree, Digest, TurnInv, Fresh, TypeOK
  <2>7. ASSUME BuiltAccepted, world \subseteq {"lockfile"} PROVE BuiltAccepted'
    <3>1. (~Replacing(p) /\ hash # None => built = hash[1]) /\ Built(p)
      BY <2>3, <2>7, AloneKeeps
    <3>2. ((~Replacing(p) /\ hash # None => built = hash[1]) /\ Built(p))'
      BY <2>1, <2>3, <2>7, <3>1, <1>b DEF Replacing, Built, TurnInv, Fresh, TypeOK
    <3> QED BY <2>3, <3>2, AloneKeeps
  <2> QED BY <2>5, <2>6, <2>7
<1>10. ASSUME NEW p \in Procs, TakeDigest(p) PROVE Goal
  <2> USE <1>10 DEF TakeDigest, diskVars, stateVars, choiceVars, saveVars
  <2>1. PICK l \in Steps : Goto(p, l) /\ l \in {"save", "lastSave"} BY DEF Steps
  <2>2. pc[p] # "idle" \/ AllIdle BY DEF MayStart, TakesTurns
  <2>3. pc'[p] = l /\ \A q \in Procs \ {p} : pc[q] = "idle" /\ pc'[q] = "idle"
    BY <2>1, <2>2, TurnKeeps
  <2>4. Fresh(p)' BY <2>1, <2>3 DEF TurnInv, Fresh, Digest, TypeOK
  <2>5. TurnInv' BY <2>1, <2>2, <2>4, TurnKeeps
  <2>6. Agree => Agree' \/ ~(world \subseteq {"failures"})
    BY <2>1, <2>3 DEF Agree, Digest, TurnInv, Fresh, TypeOK
  <2>7. ASSUME BuiltAccepted, world \subseteq {"lockfile"} PROVE BuiltAccepted'
    <3>1. (~Replacing(p) /\ hash # None => built = hash[1]) /\ Built(p)
      BY <2>3, <2>7, AloneKeeps
    <3>2. ((~Replacing(p) /\ hash # None => built = hash[1]) /\ Built(p))'
      <4>1. UNCHANGED <<config, hash, built, recreate>> OBVIOUS
      <4>2. /\ pc[p] \in {"digest", "lastDigest"}
            /\ pc'[p] = IF pc[p] = "digest" THEN "save" ELSE "lastSave"
        BY DEF Goto, TypeOK
      <4> QED BY <3>1, <4>1, <4>2 DEF Replacing, Built
    <3> QED BY <2>3, <3>2, AloneKeeps
  <2> QED BY <2>5, <2>6, <2>7
<1>11. ASSUME NEW p \in Procs, SaveHash(p) PROVE Goal
  <2> USE <1>11 DEF SaveHash, diskVars, stateVars, choiceVars, saveVars
  <2>1. PICK l \in Steps : Goto(p, l) /\ l \in {"env", "idle"} BY DEF Steps
  <2>2. pc[p] # "idle" \/ AllIdle BY DEF MayStart, TakesTurns
  <2>3. pc'[p] = l /\ \A q \in Procs \ {p} : pc[q] = "idle" /\ pc'[q] = "idle"
    BY <2>1, <2>2, TurnKeeps
  <2>4. Fresh(p)' BY <2>1, <2>3 DEF TurnInv, Fresh, Digest, TypeOK
  <2>5. TurnInv' BY <2>1, <2>2, <2>4, TurnKeeps
  <2>6. Agree => Agree' \/ ~(world \subseteq {"failures"})
    BY <2>1, <2>3 DEF Agree, Digest, TurnInv, Fresh, TypeOK
  <2>7. ASSUME BuiltAccepted, world \subseteq {"lockfile"} PROVE BuiltAccepted'
    <3>1. (~Replacing(p) /\ hash # None => built = hash[1]) /\ Built(p)
      BY <2>3, <2>7, AloneKeeps
    <3>2. ((~Replacing(p) /\ hash # None => built = hash[1]) /\ Built(p))'
      <4>1. UNCHANGED <<config, built, recreate, changed>> /\ hash' = Digest
        BY DEF TurnInv, Fresh
      <4>2. /\ pc[p] \in {"save", "lastSave"}
            /\ pc'[p] = IF pc[p] = "save" THEN "env" ELSE "idle"
        BY DEF Goto, TypeOK
      <4> QED BY <1>b, <3>1, <4>1, <4>2 DEF Replacing, Built
    <3> QED BY <2>3, <3>2, AloneKeeps
  <2> QED BY <2>5, <2>6, <2>7
<1>12. ASSUME NEW p \in Procs, EnvLoad(p) PROVE Goal
  <2> USE <1>12 DEF EnvLoad, diskVars, stateVars, choiceVars, saveVars
  <2>1. PICK l \in Steps : Goto(p, l) /\ l \in {"up", "envSave"} BY DEF Steps
  <2>2. pc[p] # "idle" \/ AllIdle BY DEF MayStart, TakesTurns
  <2>3. pc'[p] = l /\ \A q \in Procs \ {p} : pc[q] = "idle" /\ pc'[q] = "idle"
    BY <2>1, <2>2, TurnKeeps
  <2>4. Fresh(p)' BY <2>1, <2>3 DEF TurnInv, Fresh, Digest, TypeOK
  <2>5. TurnInv' BY <2>1, <2>2, <2>4, TurnKeeps
  <2>6. Agree => Agree' \/ ~(world \subseteq {"failures"})
    BY <2>1, <2>3 DEF Agree, Digest, TurnInv, Fresh, TypeOK
  <2>7. ASSUME BuiltAccepted, world \subseteq {"lockfile"} PROVE BuiltAccepted'
    <3>1. (~Replacing(p) /\ hash # None => built = hash[1]) /\ Built(p)
      BY <2>3, <2>7, AloneKeeps
    <3>2. ((~Replacing(p) /\ hash # None => built = hash[1]) /\ Built(p))'
      BY <2>1, <2>3, <2>7, <3>1, <1>b DEF Replacing, Built, TurnInv, Fresh, TypeOK
    <3> QED BY <2>3, <3>2, AloneKeeps
  <2> QED BY <2>5, <2>6, <2>7
<1>13. ASSUME NEW p \in Procs, EnvSave(p) PROVE Goal
  <2> USE <1>13 DEF EnvSave, diskVars, stateVars, choiceVars, saveVars
  <2>1. PICK l \in Steps : Goto(p, l) /\ l = "up" BY DEF Steps
  <2>2. pc[p] # "idle" \/ AllIdle BY DEF MayStart, TakesTurns
  <2>3. pc'[p] = l /\ \A q \in Procs \ {p} : pc[q] = "idle" /\ pc'[q] = "idle"
    BY <2>1, <2>2, TurnKeeps
  <2>4. Fresh(p)' BY <2>1, <2>3 DEF TurnInv, Fresh, Digest, TypeOK
  <2>5. TurnInv' BY <2>1, <2>2, <2>4, TurnKeeps
  <2>6. Agree => Agree' \/ ~(world \subseteq {"failures"})
    BY <2>1, <2>3 DEF Agree, Digest, TurnInv, Fresh, TypeOK
  <2>7. ASSUME BuiltAccepted, world \subseteq {"lockfile"} PROVE BuiltAccepted'
    <3>1. (~Replacing(p) /\ hash # None => built = hash[1]) /\ Built(p)
      BY <2>3, <2>7, AloneKeeps
    <3>2. ((~Replacing(p) /\ hash # None => built = hash[1]) /\ Built(p))'
      BY <2>1, <2>3, <2>7, <3>1, <1>b DEF Replacing, Built, TurnInv, Fresh, TypeOK
    <3> QED BY <2>3, <3>2, AloneKeeps
  <2> QED BY <2>5, <2>6, <2>7
<1>14. ASSUME NEW p \in Procs, Up(p) PROVE Goal
  <2> USE <1>14 DEF Up, diskVars, stateVars, choiceVars, saveVars
  <2>1. PICK l \in Steps : Goto(p, l) /\ l \in {"idle", "lastDigest"} BY DEF Steps
  <2>2. pc[p] # "idle" \/ AllIdle BY DEF MayStart, TakesTurns
  <2>3. pc'[p] = l /\ \A q \in Procs \ {p} : pc[q] = "idle" /\ pc'[q] = "idle"
    BY <2>1, <2>2, TurnKeeps
  <2>4. Fresh(p)' BY <2>1, <2>3 DEF TurnInv, Fresh, Digest, TypeOK
  <2>5. TurnInv' BY <2>1, <2>2, <2>4, TurnKeeps
  <2>6. Agree => Agree' \/ ~(world \subseteq {"failures"})
    BY <2>1, <2>3 DEF Agree, Digest, TurnInv, Fresh, TypeOK
  <2>7. ASSUME BuiltAccepted, world \subseteq {"lockfile"} PROVE BuiltAccepted'
    <3>1. (~Replacing(p) /\ hash # None => built = hash[1]) /\ Built(p)
      BY <2>3, <2>7, AloneKeeps
    <3>2. ((~Replacing(p) /\ hash # None => built = hash[1]) /\ Built(p))'
      <4>1. UNCHANGED <<config, hash, recreate, changed>> OBVIOUS
      <4>2. built' = IF recreate[p] \/ built = None THEN config ELSE built OBVIOUS
      <4>3. /\ pc[p] = "up"
            /\ pc'[p] = IF cmd[p] = "rebuild" \/ changed[p] THEN "idle" ELSE "lastDigest"
        BY DEF Goto, TypeOK
      <4> QED BY <1>b, <3>1, <4>1, <4>2, <4>3 DEF Replacing, Built
    <3> QED BY <2>3, <3>2, AloneKeeps
  <2> QED BY <2>5, <2>6, <2>7
<1>15. ASSUME NEW p \in Procs, UpFails(p) \/ Killed(p) PROVE Goal
  <2> USE <1>15 DEF UpFails, Killed, diskVars, stateVars, choiceVars, saveVars
  <2>1. PICK l \in Steps : Goto(p, l) /\ l = "idle" BY DEF Steps
  <2>2. pc[p] # "idle" \/ AllIdle BY DEF MayStart, TakesTurns
  <2>3. pc'[p] = l /\ \A q \in Procs \ {p} : pc[q] = "idle" /\ pc'[q] = "idle"
    BY <2>1, <2>2, TurnKeeps
  <2>4. Fresh(p)' BY <2>1, <2>3 DEF TurnInv, Fresh, Digest, TypeOK
  <2>5. TurnInv' BY <2>1, <2>2, <2>4, TurnKeeps
  <2>6. Agree => Agree' \/ ~(world \subseteq {"failures"})
    BY <2>1, <2>3 DEF Agree, Digest, TurnInv, Fresh, TypeOK
  <2>7. ASSUME BuiltAccepted, world \subseteq {"lockfile"} PROVE BuiltAccepted'
    <3>1. (~Replacing(p) /\ hash # None => built = hash[1]) /\ Built(p)
      BY <2>3, <2>7, AloneKeeps
    <3>2. ((~Replacing(p) /\ hash # None => built = hash[1]) /\ Built(p))'
      BY <2>1, <2>3, <2>7, <3>1, <1>b DEF Replacing, Built, TurnInv, Fresh, TypeOK
    <3> QED BY <2>3, <3>2, AloneKeeps
  <2> QED BY <2>5, <2>6, <2>7
<1>16. ASSUME NEW p \in Procs, Rebuild(p) PROVE Goal
  <2> USE <1>16 DEF Rebuild, diskVars, stateVars, choiceVars, saveVars
  <2>1. PICK l \in Steps : Goto(p, l) /\ l = "digest" BY DEF Steps
  <2>2. pc[p] # "idle" \/ AllIdle BY DEF MayStart, TakesTurns
  <2>3. pc'[p] = l /\ \A q \in Procs \ {p} : pc[q] = "idle" /\ pc'[q] = "idle"
    BY <2>1, <2>2, TurnKeeps
  <2>4. Fresh(p)' BY <2>1, <2>3 DEF TurnInv, Fresh, Digest, TypeOK
  <2>5. TurnInv' BY <2>1, <2>2, <2>4, TurnKeeps
  <2>6. Agree => Agree' \/ ~(world \subseteq {"failures"})
    BY <2>1, <2>3 DEF Agree, Digest, TurnInv, Fresh, TypeOK
  <2>7. ASSUME BuiltAccepted, world \subseteq {"lockfile"} PROVE BuiltAccepted'
    <3>1. (~Replacing(p) /\ hash # None => built = hash[1]) /\ Built(p)
      BY <2>3, <2>7, AloneKeeps
    <3>2. ((~Replacing(p) /\ hash # None => built = hash[1]) /\ Built(p))'
      BY <2>1, <2>3, <2>7, <3>1, <1>b DEF Replacing, Built, TurnInv, Fresh, TypeOK
    <3> QED BY <2>3, <3>2, AloneKeeps
  <2> QED BY <2>5, <2>6, <2>7
<1>17. ASSUME NEW p \in Procs, Prune(p) PROVE Goal
  <2> USE <1>17 DEF Prune, diskVars, stateVars, choiceVars, saveVars
  <2>1. PICK l \in Steps : Goto(p, l) /\ l = "forget" BY DEF Steps
  <2>2. pc[p] # "idle" \/ AllIdle BY DEF MayStart, TakesTurns
  <2>3. pc'[p] = l /\ \A q \in Procs \ {p} : pc[q] = "idle" /\ pc'[q] = "idle"
    BY <2>1, <2>2, TurnKeeps
  <2>4. Fresh(p)' BY <2>1, <2>3 DEF TurnInv, Fresh, Digest, TypeOK
  <2>5. TurnInv' BY <2>1, <2>2, <2>4, TurnKeeps
  <2>6. Agree => Agree' \/ ~(world \subseteq {"failures"})
    BY <2>1, <2>3 DEF Agree, Digest, TurnInv, Fresh, TypeOK
  <2>7. ASSUME BuiltAccepted, world \subseteq {"lockfile"} PROVE BuiltAccepted'
    <3>1. (~Replacing(p) /\ hash # None => built = hash[1]) /\ Built(p)
      BY <2>3, <2>7, AloneKeeps
    <3>2. ((~Replacing(p) /\ hash # None => built = hash[1]) /\ Built(p))'
      BY <2>1, <2>3, <2>7, <3>1, <1>b DEF Replacing, Built, TurnInv, Fresh, TypeOK
    <3> QED BY <2>3, <3>2, AloneKeeps
  <2> QED BY <2>5, <2>6, <2>7
<1>18. ASSUME NEW p \in Procs, Forget(p) PROVE Goal
  <2> USE <1>18 DEF Forget, diskVars, stateVars, choiceVars, saveVars
  <2>1. PICK l \in Steps : Goto(p, l) /\ l = "idle" BY DEF Steps
  <2>2. pc[p] # "idle" \/ AllIdle BY DEF MayStart, TakesTurns
  <2>3. pc'[p] = l /\ \A q \in Procs \ {p} : pc[q] = "idle" /\ pc'[q] = "idle"
    BY <2>1, <2>2, TurnKeeps
  <2>4. Fresh(p)' BY <2>1, <2>3 DEF TurnInv, Fresh, Digest, TypeOK
  <2>5. TurnInv' BY <2>1, <2>2, <2>4, TurnKeeps
  <2>6. Agree => Agree' \/ ~(world \subseteq {"failures"})
    BY <2>1, <2>3 DEF Agree, Digest, TurnInv, Fresh, TypeOK
  <2>7. ASSUME BuiltAccepted, world \subseteq {"lockfile"} PROVE BuiltAccepted'
    <3>1. (~Replacing(p) /\ hash # None => built = hash[1]) /\ Built(p)
      BY <2>3, <2>7, AloneKeeps
    <3>2. ((~Replacing(p) /\ hash # None => built = hash[1]) /\ Built(p))'
      BY <2>1, <2>3, <2>7, <3>1, <1>b DEF Replacing, Built, TurnInv, Fresh, TypeOK
    <3> QED BY <2>3, <3>2, AloneKeeps
  <2> QED BY <2>5, <2>6, <2>7
<1>19. CASE UNCHANGED vars
  <2> USE <1>19 DEF vars, diskVars, stateVars, choiceVars, saveVars
  <2>1. TurnInv' BY DEF TurnInv, Fresh, Digest
  <2>2. Agree => Agree' BY DEF Agree, Digest
  <2>3. BuiltAccepted => BuiltAccepted' BY DEF BuiltAccepted, Built, Replacing
  <2> QED BY <2>1, <2>2, <2>3
<1> QED BY <1>1, <1>2, <1>3, <1>4, <1>5, <1>6, <1>7, <1>8, <1>9, <1>10, <1>11, <1>12, <1>13, <1>14, <1>15, <1>16, <1>17, <1>18, <1>19 DEF Next

LEMMA InitCalm == Init => CalmInv
BY DEF Init, CalmInv, TurnInv, Fresh, Agree, BuiltAccepted, Built, Digest

\* While commands take turns, the stored hash, the stored snapshot and the
\* container stay consistent (CalmInv).
THEOREM CalmInvariant == Spec => [](TypeOK /\ CalmInv)
<1>1. TypeOK /\ CalmInv /\ [Next]_vars => (TypeOK /\ CalmInv)' BY TypeStep, CalmStep
<1> QED BY InitType, InitCalm, <1>1, PTL DEF Spec

\* A start that finds its config unchanged and reuses the container gets one built
\* from this config, after any sequence of commands that neither overlap nor fail.
THEOREM ReuseOfCurrent == Spec => CalmReuseIsCurrent
<1>1. TypeOK /\ CalmInv /\ [Next]_vars
      => [world \subseteq {"lockfile"} => \A p \in Procs : ReusesCurrent(p)]_vars
  <2> SUFFICES ASSUME CalmInv, world \subseteq {"lockfile"}, NEW p \in Procs,
                      Up(p), ~recreate[p], ~changed[p]
               PROVE  built = config
    BY DEF ReusesCurrent
  <2>1. BuiltAccepted BY DEF CalmInv, TakesTurns
  <2> QED BY <2>1 DEF BuiltAccepted, Built, Up
<1> QED BY CalmInvariant, <1>1, PTL DEF Spec, CalmReuseIsCurrent

\* A review with a snapshot to compare with shows a config that is not the
\* snapshot, even after commands that failed or were killed.
THEOREM DiffOfEdit == Spec => CalmDiffShowsEdit
<1>1. TypeOK /\ CalmInv /\ [Next]_vars
      => [world \subseteq {"failures"} => \A p \in Procs : DiffersFromSnapshot(p)]_vars
  <2> SUFFICES ASSUME TypeOK, CalmInv, world \subseteq {"failures"}, NEW p \in Procs,
                      ShowDiff(p), snapshot # None
               PROVE  snapshot[1] # config
    BY DEF DiffersFromSnapshot
  <2>1. Agree BY DEF CalmInv, TakesTurns
  <2>2. snapshot = hash /\ hash # Digest /\ ~lock BY <2>1 DEF Agree, ShowDiff
  <2>3. PICK c \in Configs, b \in BOOLEAN : snapshot = <<c, b>> BY DEF TypeOK, Digests
  <2>4. b = FALSE /\ lock = FALSE BY <2>1, <2>2, <2>3 DEF Agree, TypeOK
  <2>5. c = config => snapshot = Digest BY <2>3, <2>4 DEF Digest
  <2> QED BY <2>2, <2>3, <2>5
<1> QED BY CalmInvariant, <1>1, PTL DEF Spec, CalmDiffShowsEdit
=============================================================================

--------------------------- MODULE SeedCacheProofs ---------------------------
(***************************************************************************)
(* Proofs about SeedCache.  In a world without edits of the host files,    *)
(* the cache vouches for no file that is not there, however seedings,      *)
(* other saves, failures, kills and replaced containers interleave.  In a  *)
(* world of edits only, it does so between the seedings, which take turns. *)
(***************************************************************************)
EXTENDS SeedCache, TLAPS

LEMMA ProceedType ==
  ASSUME TypeOK, NEW p \in Procs, Proceed(p)
  PROVE  /\ seed' \in [Procs -> Seeds]
         /\ pc' \in [Procs -> Steps]
         /\ pc'[p] \in {"idle", "read"}
         /\ \A q \in Procs : q # p => pc'[q] = pc[q] /\ seed'[q] = seed[q]
BY DEF TypeOK, Proceed, Goto, Seeds, Steps

LEMMA TypeStep ==
  ASSUME TypeOK, [Next]_vars
  PROVE  TypeOK'
<1> USE SeedAssumption
<1>1. CASE EditSource BY <1>1 DEF EditSource, TypeOK, procVars, Caches, Entries
<1>2. CASE Recreate
  <2>1. cid' \in 1..MaxIds BY <1>2 DEF Recreate, TypeOK
  <2>2. file' \in [Targets -> Versions \cup {NoFile}] BY <1>2 DEF Recreate, TypeOK
  <2> QED BY <1>2, <2>1, <2>2 DEF Recreate, TypeOK, hostVars, procVars
<1>3. ASSUME NEW p \in Procs, LoadOther(p) \/ SaveOther(p) PROVE TypeOK'
  BY <1>3 DEF LoadOther, SaveOther, TypeOK, Goto, Steps, hostVars, procVars
<1>4. ASSUME NEW p \in Procs, BeginSeeding(p) PROVE TypeOK'
  BY <1>4 DEF BeginSeeding, TypeOK, Goto, Steps, Seeds, hostVars
<1>5. ASSUME NEW p \in Procs, NothingToSeed(p) \/ SkipCopy(p) PROVE TypeOK'
  <2>1. Proceed(p) BY <1>5 DEF NothingToSeed, SkipCopy
  <2> QED BY <1>5, <2>1, ProceedType DEF NothingToSeed, SkipCopy, TypeOK, hostVars
<1>6. ASSUME NEW p \in Procs, ReadSource(p) PROVE TypeOK'
  BY <1>6 DEF ReadSource, TypeOK, Goto, Steps, Seeds, hostVars
<1>7. ASSUME NEW p \in Procs, BeginCopy(p) PROVE TypeOK'
  BY <1>7 DEF BeginCopy, TypeOK, Goto, Steps, Seeds, LastPath, hostVars
<1>8. ASSUME NEW p \in Procs, OpenTmp(p) \/ FillTmp(p) PROVE TypeOK'
  BY <1>8 DEF OpenTmp, FillTmp, TypeOK, Goto, Steps, hostVars
<1>9. ASSUME NEW p \in Procs, MoveTmp(p) PROVE TypeOK'
  <2>1. tmp[p] \in Versions BY <1>9 DEF MoveTmp, TypeOK
  <2>2. file' \in [Targets -> Versions \cup {NoFile}]
    BY <1>9, <2>1 DEF MoveTmp, TypeOK
  <2>3. at' \in [Procs -> 1..AgentPaths] /\ pc' \in [Procs -> Steps]
    BY <1>9 DEF MoveTmp, TypeOK, Goto, Steps, Seeds, LastPath
  <2>4. \A q \in Procs : pc'[q] \in {"open", "fill", "move"} => at'[q] <= LastPath(seed[q])
    BY <1>9 DEF MoveTmp, TypeOK, Goto, Steps, Seeds, LastPath
  <2>5. \A q \in Procs : q # p => pc'[q] = pc[q] /\ tmp'[q] = tmp[q]
    BY <1>9 DEF MoveTmp, TypeOK, Goto
  <2>6. pc'[p] \in {"open", "markLoad"} BY <1>9 DEF MoveTmp, TypeOK, Goto
  <2> QED BY <1>9, <2>2, <2>3, <2>4, <2>5, <2>6 DEF MoveTmp, TypeOK, hostVars, LastPath
<1>10. ASSUME NEW p \in Procs, CopyFails(p) PROVE TypeOK'
  <2>1. Proceed(p) BY <1>10 DEF CopyFails
  <2> QED BY <1>10, <2>1, ProceedType DEF CopyFails, TypeOK, hostVars
<1>11. ASSUME NEW p \in Procs, MarkLoad(p) PROVE TypeOK'
  BY <1>11 DEF MarkLoad, TypeOK, Goto, Steps, hostVars, procVars
<1>12. ASSUME NEW p \in Procs, MarkSave(p) PROVE TypeOK'
  <2>1. Proceed(p) BY <1>12 DEF MarkSave
  <2>2. <<target[p], val[p]>> \in Entries BY <1>12 DEF MarkSave, TypeOK, Entries
  <2>3. cache' \in Caches BY <1>12, <2>2 DEF MarkSave, TypeOK, Caches
  <2> QED BY <1>12, <2>1, <2>3, ProceedType DEF MarkSave, TypeOK, hostVars
<1>13. ASSUME NEW p \in Procs, Killed(p) PROVE TypeOK'
  BY <1>13 DEF Killed, TypeOK, Goto, Steps, hostVars, procVars
<1>14. CASE UNCHANGED vars
  BY <1>14 DEF vars, hostVars, procVars, TypeOK
<1> QED BY <1>1, <1>2, <1>3, <1>4, <1>5, <1>6, <1>7, <1>8, <1>9, <1>10, <1>11, <1>12,
           <1>13, <1>14 DEF Next

LEMMA InitType == Init => TypeOK
BY SeedAssumption DEF Init, TypeOK, Caches, Seeds, Steps

\* TypeOK holds of every reachable state, whatever is edited, fails or overlaps.
THEOREM TypeInvariant == Spec => []TypeOK
<1>1. TypeOK /\ [Next]_vars => TypeOK' BY TypeStep
<1> QED BY InitType, <1>1, PTL DEF Spec

-----------------------------------------------------------------------------
(***************************************************************************)
(* While the host files stay as they are, a target path only ever goes     *)
(* from nothing to the host file's content, and back when the container is *)
(* replaced.                                                               *)
(***************************************************************************)
FromSource == \A t \in Targets : file[t] \in {NoFile, source[t[1]]}

\* What entry e of seed k claims is true, unless it is about an older container.
Vouched(k, e) == e # NoFile => e[1] <= cid /\ (e[1] = cid => Holds(k, e[2]))

CachesVouched ==
  /\ \A k \in Seeds : Vouched(k, cache[k])
  /\ \A p \in Procs, k \in Seeds :
       pc[p] \in {"saveOther", "markSave"} => Vouched(k, copy[p][k])

\* p has written the paths before at[p], and has written all when it marks.
Written(p) ==
  /\ target[p] <= cid
  /\ pc[p] \in {"check", "open", "fill", "move", "markLoad", "markSave"} => val[p] = source[seed[p]]
  /\ pc[p] \in {"open", "fill", "move"} /\ Reaches(p) =>
       \A i \in 1..LastPath(seed[p]) : i < at[p] => file[<<seed[p], i>>] = val[p]
  /\ pc[p] \in {"markLoad", "markSave"} /\ Reaches(p) => Holds(seed[p], val[p])

SeedInv == FromSource /\ CachesVouched /\ \A p \in Procs : Written(p)

LEMMA PathIsTarget ==
  ASSUME NEW k \in Seeds, NEW i \in 1..LastPath(k)
  PROVE  <<k, i>> \in Targets
BY SeedAssumption DEF Seeds, LastPath, Targets

LEMMA FirstPath ==
  ASSUME NEW k \in Seeds
  PROVE  1 \in 1..LastPath(k)
BY SeedAssumption DEF LastPath

\* A file that has the source's content keeps it.
LEMMA FilesKeep ==
  ASSUME FromSource, UNCHANGED <<source, cid>>,
         \A t \in Targets : file'[t] = file[t] \/ file'[t] = source[t[1]]
  PROVE  /\ FromSource'
         /\ \A k \in Seeds, v \in Versions : \A i \in 1..LastPath(k) :
              file[<<k, i>>] = v => file'[<<k, i>>] = v
         /\ \A k \in Seeds, v \in Versions : Holds(k, v) => Holds(k, v)'
<1>1. FromSource' BY DEF FromSource
<1>2. ASSUME NEW k \in Seeds, NEW i \in 1..LastPath(k), NEW v \in Versions, file[<<k, i>>] = v
      PROVE  file'[<<k, i>>] = v
  <2>1. <<k, i>> \in Targets BY PathIsTarget
  <2>2. v = source[k] BY <1>2, <2>1, SeedAssumption DEF FromSource
  <2> QED BY <1>2, <2>1, <2>2
<1>3. ASSUME NEW k \in Seeds, NEW v \in Versions, Holds(k, v) PROVE Holds(k, v)'
  BY <1>2, <1>3 DEF Holds, LastPath
<1> QED BY <1>1, <1>2, <1>3

\* So what the caches say, and what a process has written, stays true.
LEMMA ClaimsKeep ==
  ASSUME TypeOK, SeedInv, UNCHANGED <<source, cid>>,
         \A t \in Targets : file'[t] = file[t] \/ file'[t] = source[t[1]]
  PROVE  /\ FromSource'
         /\ \A k \in Seeds, e \in Entries \cup {NoFile} : Vouched(k, e) => Vouched(k, e)'
         /\ \A p \in Procs :
              /\ pc'[p] = pc[p] /\ seed'[p] = seed[p] /\ target'[p] = target[p]
              /\ val'[p] = val[p] /\ at'[p] = at[p]
              => Written(p)'
<1>1. FromSource BY DEF SeedInv
<1>2. ASSUME NEW k \in Seeds, NEW e \in Entries \cup {NoFile}, Vouched(k, e)
      PROVE  Vouched(k, e)'
  <2>1. e # NoFile => e[2] \in Versions BY DEF Entries
  <2> QED BY <1>1, <1>2, <2>1, FilesKeep DEF Vouched
<1>3. ASSUME NEW p \in Procs,
             pc'[p] = pc[p], seed'[p] = seed[p], target'[p] = target[p],
             val'[p] = val[p], at'[p] = at[p]
      PROVE  Written(p)'
  <2>1. Written(p) BY DEF SeedInv
  <2>2. seed[p] \in Seeds BY DEF TypeOK
  <2>3. pc[p] \in {"open", "fill", "move", "markLoad", "markSave"} => val[p] \in Versions
    BY DEF TypeOK
  <2> QED BY <1>1, <1>3, <2>1, <2>2, <2>3, FilesKeep DEF Written, Reaches, LastPath
<1> QED BY <1>1, <1>2, <1>3, FilesKeep

LEMMA SeedStep ==
  ASSUME "edits" \notin world, TypeOK, SeedInv, [Next]_vars
  PROVE  SeedInv'
<1> USE DEF Goto
<1>0. ASSUME UNCHANGED <<source, cid, file>>
      PROVE  /\ FromSource'
             /\ \A k \in Seeds, e \in Entries \cup {NoFile} : Vouched(k, e) => Vouched(k, e)'
             /\ \A p \in Procs :
                  /\ pc'[p] = pc[p] /\ seed'[p] = seed[p] /\ target'[p] = target[p]
                  /\ val'[p] = val[p] /\ at'[p] = at[p]
                  => Written(p)'
  BY <1>0, ClaimsKeep
<1>1. CASE EditSource BY <1>1 DEF EditSource
<1>2. CASE Recreate
  <2>1. FromSource' BY <1>2 DEF Recreate, hostVars, SeedInv, FromSource
  <2>2. cid \in Nat /\ cid' = cid + 1 BY <1>2 DEF Recreate, TypeOK
  <2>3. \A k \in Seeds, e \in Entries \cup {NoFile} : Vouched(k, e) => Vouched(k, e)'
    BY <2>2 DEF Vouched, Entries
  <2>4. CachesVouched'
    BY <1>2, <2>3 DEF Recreate, SeedInv, CachesVouched, TypeOK, Caches
  <2>5. \A p \in Procs : Written(p)'
    BY <1>2, <2>2 DEF Recreate, SeedInv, Written, Reaches, TypeOK, hostVars, procVars
  <2> QED BY <2>1, <2>4, <2>5 DEF SeedInv
<1>3. ASSUME NEW p \in Procs, LoadOther(p) \/ SaveOther(p) \/ MarkLoad(p) PROVE SeedInv'
  <2>1. UNCHANGED <<source, cid, file>>
    BY <1>3 DEF LoadOther, SaveOther, MarkLoad, hostVars
  <2>2. CachesVouched'
    <3>1. \A k \in Seeds : Vouched(k, cache'[k])
      BY <1>3 DEF LoadOther, SaveOther, MarkLoad, SeedInv, CachesVouched
    <3>2. \A q \in Procs, k \in Seeds :
            pc'[q] \in {"saveOther", "markSave"} => Vouched(k, copy'[q][k])
      BY <1>3 DEF LoadOther, SaveOther, MarkLoad, SeedInv, CachesVouched, TypeOK
    <3> QED BY <2>1, <3>1, <3>2 DEF CachesVouched, Vouched, Holds
  <2>3. Written(p)'
    BY <1>3, <2>1 DEF LoadOther, SaveOther, MarkLoad, SeedInv, Written, Reaches, Holds, TypeOK,
       procVars
  <2>4. \A q \in Procs : q # p => Written(q)'
    BY <1>3, <2>1, <1>0 DEF LoadOther, SaveOther, MarkLoad, TypeOK, procVars
  <2> QED BY <2>1, <2>2, <2>3, <2>4, <1>0 DEF SeedInv
<1>4. ASSUME NEW p \in Procs,
             BeginSeeding(p) \/ ReadSource(p) \/ BeginCopy(p) \/ OpenTmp(p) \/ FillTmp(p) \/ Killed(p)
      PROVE  SeedInv'
  <2>0. /\ \A k \in Seeds : cache[k] \in Entries \cup {NoFile}
        /\ \A q \in Procs, k \in Seeds : copy[q][k] \in Entries \cup {NoFile}
    BY DEF TypeOK, Caches
  <2> USE <1>4 DEF BeginSeeding, ReadSource, BeginCopy, OpenTmp, FillTmp, Killed
  <2>1. UNCHANGED <<source, cid, file, cache, copy>> BY DEF hostVars
  <2>2. /\ pc'[p] \notin {"saveOther", "markSave"}
        /\ \A q \in Procs : q # p => pc'[q] = pc[q]
    BY DEF TypeOK
  <2>3. CachesVouched'
    BY <2>1, <2>2, <2>0, <1>0 DEF SeedInv, CachesVouched
  <2>4. Written(p)'
    BY <2>1 DEF SeedInv, Written, Reaches, Holds, TypeOK, procVars
  <2>5. \A q \in Procs : q # p => Written(q)'
    BY <2>1, <2>2, <1>0 DEF TypeOK, procVars
  <2> QED BY <2>1, <2>3, <2>4, <2>5, <1>0 DEF SeedInv
<1>5. ASSUME NEW p \in Procs, NothingToSeed(p) \/ SkipCopy(p) \/ CopyFails(p) PROVE SeedInv'
  <2>0. /\ \A k \in Seeds : cache[k] \in Entries \cup {NoFile}
        /\ \A q \in Procs, k \in Seeds : copy[q][k] \in Entries \cup {NoFile}
    BY DEF TypeOK, Caches
  <2> USE <1>5 DEF NothingToSeed, SkipCopy, CopyFails
  <2>1. UNCHANGED <<source, cid, file, cache, copy, target, val, at>> BY DEF hostVars
  <2>2. Proceed(p) OBVIOUS
  <2>3. CachesVouched'
    BY <2>1, <2>2, <2>0, <1>0, ProceedType DEF SeedInv, CachesVouched
  <2>4. Written(p)' BY <2>1, <2>2, ProceedType DEF SeedInv, Written
  <2>5. \A q \in Procs : q # p => Written(q)' BY <2>1, <2>2, <1>0, ProceedType
  <2> QED BY <2>1, <2>3, <2>4, <2>5, <1>0 DEF SeedInv
<1>6. ASSUME NEW p \in Procs, MoveTmp(p) PROVE SeedInv'
  <2> USE <1>6 DEF MoveTmp
  <2>1. UNCHANGED <<source, cid, cache, copy, seed, target, val>> BY DEF hostVars
  <2>2. tmp[p] = source[seed[p]] /\ val[p] = source[seed[p]] /\ tmp[p] \in Versions
    BY DEF SeedInv, Written, TypeOK
  <2>3. seed[p] \in Seeds /\ at[p] \in 1..LastPath(seed[p]) BY DEF TypeOK, LastPath
  <2>4. <<seed[p], at[p]>> \in Targets BY <2>3, PathIsTarget
  <2>5. /\ file'[<<seed[p], at[p]>>] = val[p]
        /\ \A t \in Targets : file'[t] = file[t] \/ file'[t] = source[t[1]]
    BY <2>2, <2>4 DEF TypeOK
  <2>6. /\ FromSource'
        /\ \A k \in Seeds, e \in Entries \cup {NoFile} : Vouched(k, e) => Vouched(k, e)'
        /\ \A q \in Procs : q # p => Written(q)'
    BY <2>1, <2>5, ClaimsKeep DEF TypeOK
  <2>7. CachesVouched' BY <2>1, <2>6 DEF SeedInv, CachesVouched, TypeOK, Caches
  <2>8. \A i \in 1..LastPath(seed[p]) : i <= at[p] => file'[<<seed[p], i>>] = val[p]
    <3>1. FromSource BY DEF SeedInv
    <3>2. \A i \in 1..LastPath(seed[p]) : i < at[p] => file[<<seed[p], i>>] = val[p]
      BY DEF SeedInv, Written
    <3>3. \A i \in 1..LastPath(seed[p]) : i < at[p] => file'[<<seed[p], i>>] = val[p]
      BY <2>1, <2>2, <2>3, <2>5, <3>1, <3>2, FilesKeep
    <3>4. at[p] \in Nat /\ \A i \in 1..LastPath(seed[p]) : i \in Nat
      BY <2>3, SeedAssumption DEF LastPath
    <3> QED BY <2>3, <2>5, <3>3, <3>4
  <2>9. Written(p)'
    <3>1. target[p] <= cid BY DEF SeedInv, Written
    <3>2. CASE at[p] < LastPath(seed[p])
      <4>1. at'[p] = at[p] + 1 /\ pc'[p] = "open" BY <3>2 DEF TypeOK
      <4> QED BY <2>1, <2>2, <2>3, <2>8, <3>1, <4>1 DEF Written, LastPath, TypeOK
    <3>3. CASE ~(at[p] < LastPath(seed[p]))
      <4>1. pc'[p] = "markLoad" BY <3>3 DEF TypeOK
      <4>2. \A i \in 1..LastPath(seed[p]) : i <= at[p]
        BY <2>3, <3>3, SeedAssumption DEF LastPath
      <4> QED BY <2>1, <2>2, <2>8, <3>1, <4>1, <4>2 DEF Written, Holds, LastPath
    <3> QED BY <3>2, <3>3
  <2> QED BY <2>6, <2>7, <2>9 DEF SeedInv
<1>7. ASSUME NEW p \in Procs, MarkSave(p) PROVE SeedInv'
  <2> USE <1>7 DEF MarkSave
  <2>1. UNCHANGED <<source, cid, file, copy, target, val, at>> BY DEF hostVars
  <2>2. Proceed(p) OBVIOUS
  <2>3. seed[p] \in Seeds BY DEF TypeOK
  <2>4. Vouched(seed[p], <<target[p], val[p]>>)
    BY DEF Vouched, SeedInv, Written, Reaches
  <2>5. \A k \in Seeds : Vouched(k, copy[p][k]) BY DEF SeedInv, CachesVouched
  <2>6. \A k \in Seeds : Vouched(k, cache'[k])
    BY <2>3, <2>4, <2>5 DEF TypeOK, Caches
  <2>7. \A q \in Procs, k \in Seeds :
          pc'[q] \in {"saveOther", "markSave"} => Vouched(k, copy[q][k])
    BY <2>2, ProceedType DEF SeedInv, CachesVouched
  <2>8. CachesVouched' BY <2>1, <2>6, <2>7 DEF CachesVouched, Vouched, Holds
  <2>9. Written(p)' BY <2>1, <2>2, ProceedType DEF SeedInv, Written
  <2>10. \A q \in Procs : q # p => Written(q)' BY <2>1, <2>2, <1>0, ProceedType
  <2> QED BY <2>1, <2>8, <2>9, <2>10, <1>0 DEF SeedInv
<1>8. CASE UNCHANGED vars
  <2>1. CachesVouched' BY <1>8, <1>0 DEF vars, hostVars, SeedInv, CachesVouched, TypeOK, Caches
  <2> QED BY <1>8, <2>1, <1>0 DEF vars, hostVars, procVars, SeedInv
<1> QED BY <1>1, <1>2, <1>3, <1>4, <1>5, <1>6, <1>7, <1>8 DEF Next

LEMMA InitSeed == Init => SeedInv
<1> SUFFICES ASSUME Init PROVE SeedInv OBVIOUS
<1>1. FromSource BY DEF Init, FromSource
<1>2. CachesVouched BY DEF Init, CachesVouched, Vouched
<1>3. ASSUME NEW p \in Procs PROVE Written(p)
  <2>1. pc[p] = "idle" BY DEF Init
  <2>2. target[p] = 1 /\ cid = 1 BY DEF Init
  <2> QED BY <2>1, <2>2 DEF Written
<1> QED BY <1>1, <1>2, <1>3 DEF SeedInv

\* The world a behaviour is in stays the same.
LEMMA WorldStays == ASSUME [Next]_vars PROVE world' = world
BY DEF Next, vars, hostVars, EditSource, Recreate, LoadOther, SaveOther, BeginSeeding,
   NothingToSeed, ReadSource, SkipCopy, BeginCopy, OpenTmp, FillTmp, MoveTmp, CopyFails,
   MarkLoad, MarkSave, Killed

\* Without edits, what the caches and the seedings claim is true (SeedInv).
THEOREM SeedInvariant == Spec => [](TypeOK /\ ("edits" \notin world => SeedInv))
<1> DEFINE Inv == TypeOK /\ ("edits" \notin world => SeedInv)
<1>1. Inv /\ [Next]_vars => Inv' BY TypeStep, SeedStep, WorldStays
<1>2. Init => Inv BY InitType, InitSeed
<1> QED BY <1>1, <1>2, PTL DEF Spec

LEMMA Vouches == TypeOK /\ ("edits" \notin world => SeedInv) => CacheVouches
<1> SUFFICES ASSUME TypeOK, SeedInv, NEW k \in Seeds, NEW v \in Versions, cache[k] = <<cid, v>>
             PROVE  Holds(k, v)
  BY DEF CacheVouches
<1>1. <<cid, v>> # NoFile BY SeedAssumption DEF TypeOK
<1> QED BY <1>1 DEF SeedInv, CachesVouched, Vouched

\* While the host files stay as they are, the cache vouches for the current
\* container only where all paths hold what it names, however seedings and other
\* saves of state.json interleave, fail and are killed, and whenever the container
\* is replaced.
THEOREM CacheIsTrue == Spec => []CacheVouches
BY SeedInvariant, Vouches, PTL

-----------------------------------------------------------------------------
(***************************************************************************)
(* Edits, and commands that take turns and do not fail.                    *)
(***************************************************************************)
Copying(p) == pc[p] \in {"open", "fill", "move", "markLoad", "markSave"}

\* Only the seed that is being copied may have an entry that is not true.
Truthful == \A k \in Seeds : (\A p \in Procs : Copying(p) => seed[p] # k) => Vouched(k, cache[k])

\* The running command's view of the container and of state.json is current.
UpToDate(p) ==
  /\ pc[p] \notin {"idle", "saveOther"} => Reaches(p)
  /\ pc[p] \in {"saveOther", "markSave"} => copy[p] = cache
  /\ pc[p] \in {"open", "fill", "move"} =>
       \A i \in 1..LastPath(seed[p]) : i < at[p] => file[<<seed[p], i>>] = val[p]
  /\ pc[p] \in {"markLoad", "markSave"} => Holds(seed[p], val[p])

TurnInv ==
  /\ \A p, q \in Procs : pc[p] # "idle" /\ pc[q] # "idle" => p = q
  /\ Truthful
  /\ \A p \in Procs : UpToDate(p)

\* When only p is not idle, before and after, the others need no look.
LEMMA TurnKeeps ==
  ASSUME TypeOK, TurnInv, NEW p \in Procs, pc[p] # "idle" \/ AllIdle,
         \A q \in Procs \ {p} : pc'[q] = pc[q], UpToDate(p)', Truthful'
  PROVE  TurnInv'
<1>1. \A q \in Procs \ {p} : pc'[q] = "idle" BY DEF TurnInv, AllIdle
<1>2. \A q \in Procs \ {p} : UpToDate(q)' BY <1>1 DEF UpToDate
<1> QED BY <1>1, <1>2 DEF TurnInv

LEMMA TurnStep ==
  ASSUME world = {"edits"}, TypeOK, TurnInv, [Next]_vars
  PROVE  TurnInv'
<1> USE DEF Goto, MayStart
<1>0. "faults" \notin world /\ "overlap" \notin world OBVIOUS
<1>1. CASE EditSource
  <2>1. UNCHANGED <<cid, file, cache, pc, seed, target, val, at, copy>>
    BY <1>1 DEF EditSource, procVars
  <2> QED BY <2>1 DEF TurnInv, Truthful, UpToDate, Reaches, Copying, Vouched, Holds, LastPath
<1>2. CASE Recreate
  <2>1. AllIdle /\ UNCHANGED <<cache, pc>> BY <1>0, <1>2 DEF Recreate
  <2>2. cid \in Nat /\ cid' = cid + 1 BY <1>2 DEF Recreate, TypeOK
  <2>3. \A k \in Seeds : Vouched(k, cache[k]) BY <2>1 DEF TurnInv, Truthful, Copying, AllIdle
  <2>4. \A k \in Seeds : cache[k] \in Entries \cup {NoFile} BY DEF TypeOK, Caches
  <2>5. Truthful' BY <2>1, <2>2, <2>3, <2>4 DEF Truthful, Vouched, Entries
  <2>6. \A p \in Procs : pc'[p] = "idle" BY <2>1 DEF AllIdle
  <2>7. \A p \in Procs : UpToDate(p)' BY <2>6 DEF UpToDate
  <2> QED BY <2>5, <2>6, <2>7 DEF TurnInv
<1>3. ASSUME NEW p \in Procs, LoadOther(p) \/ SaveOther(p) \/ MarkLoad(p) PROVE TurnInv'
  <2> USE <1>3 DEF LoadOther, SaveOther, MarkLoad
  <2>1. UNCHANGED <<cid, file, cache, seed, target, val, at>>
    BY DEF TurnInv, UpToDate, procVars
  <2>2. pc[p] # "idle" \/ AllIdle BY <1>0
  <2>3. \A q \in Procs \ {p} : pc'[q] = pc[q] BY DEF TypeOK
  <2>4. \A q \in Procs : Copying(q)' <=> Copying(q) BY DEF Copying, TypeOK
  <2>5. Truthful' BY <2>1, <2>4 DEF TurnInv, Truthful, Vouched, Holds
  <2>6. UpToDate(p)' BY <2>1 DEF TurnInv, UpToDate, Reaches, Holds, TypeOK
  <2> QED BY <2>2, <2>3, <2>5, <2>6, TurnKeeps
<1>4. ASSUME NEW p \in Procs,
             BeginSeeding(p) \/ ReadSource(p) \/ BeginCopy(p) \/ OpenTmp(p) \/ FillTmp(p)
      PROVE  TurnInv'
  <2> USE <1>4 DEF BeginSeeding, ReadSource, BeginCopy, OpenTmp, FillTmp
  <2>1. UNCHANGED <<cid, file, cache>> BY DEF hostVars
  <2>2. pc[p] # "idle" \/ AllIdle BY <1>0
  <2>3. \A q \in Procs \ {p} : pc'[q] = pc[q] /\ seed'[q] = seed[q] BY DEF TypeOK
  <2>4. \A q \in Procs : Copying(q) => Copying(q)' /\ seed'[q] = seed[q] BY DEF Copying, TypeOK
  <2>5. Truthful' BY <2>1, <2>4 DEF TurnInv, Truthful, Vouched, Holds
  <2>6. UpToDate(p)' BY <2>1 DEF TurnInv, UpToDate, Reaches, Holds, TypeOK, procVars
  <2> QED BY <2>2, <2>3, <2>5, <2>6, TurnKeeps
<1>5. ASSUME NEW p \in Procs, NothingToSeed(p) \/ SkipCopy(p) \/ CopyFails(p) \/ Killed(p)
      PROVE  TurnInv'
  <2>1. NothingToSeed(p) \/ SkipCopy(p)
    BY <1>0, <1>5 DEF CopyFails, Killed, TurnInv, UpToDate
  <2> USE <2>1 DEF NothingToSeed, SkipCopy
  <2>2. UNCHANGED <<cid, file, cache, copy, target, val, at>> BY DEF hostVars
  <2>3. Proceed(p) /\ pc[p] \in {"read", "check"} OBVIOUS
  <2>4. \A q \in Procs : Copying(q) => Copying(q)' /\ seed'[q] = seed[q]
    BY <2>3, ProceedType DEF Copying
  <2>5. Truthful' BY <2>2, <2>4 DEF TurnInv, Truthful, Vouched, Holds
  <2>6. UpToDate(p)' BY <2>2, <2>3, ProceedType DEF TurnInv, UpToDate, Reaches
  <2> QED BY <2>3, <2>5, <2>6, ProceedType, TurnKeeps
<1>6. ASSUME NEW p \in Procs, MoveTmp(p) PROVE TurnInv'
  <2> USE <1>6 DEF MoveTmp
  <2>1. UNCHANGED <<cid, cache, seed, target, val>> BY DEF hostVars
  <2>2. tmp[p] = val[p] /\ seed[p] \in Seeds /\ at[p] \in 1..LastPath(seed[p])
    BY DEF TypeOK, LastPath
  <2>3. <<seed[p], at[p]>> \in Targets BY <2>2, PathIsTarget
  <2>4. /\ file'[<<seed[p], at[p]>>] = val[p]
        /\ \A t \in Targets : t # <<seed[p], at[p]>> => file'[t] = file[t]
    BY <2>2, <2>3 DEF TypeOK
  <2>5. \A q \in Procs \ {p} : pc'[q] = pc[q] BY DEF TypeOK
  <2>6. pc'[p] \in {"open", "markLoad"} BY DEF TypeOK
  <2>7. \A q \in Procs : Copying(q)' <=> Copying(q) BY <2>5, <2>6 DEF Copying
  <2>8. Truthful'
    <3> SUFFICES ASSUME NEW k \in Seeds, \A q \in Procs : Copying(q) => seed[q] # k
                 PROVE  Vouched(k, cache[k])'
      BY <2>1, <2>7 DEF Truthful
    <3>1. Vouched(k, cache[k]) BY DEF TurnInv, Truthful
    <3>2. k # seed[p] BY DEF Copying
    <3>3. \A i \in 1..LastPath(k) : file'[<<k, i>>] = file[<<k, i>>]
      BY <2>4, <3>2, PathIsTarget
    <3> QED BY <2>1, <3>1, <3>3 DEF Vouched, Holds, LastPath
  <2>9. \A i \in 1..LastPath(seed[p]) : i <= at[p] => file'[<<seed[p], i>>] = val[p]
    <3>1. \A i \in 1..LastPath(seed[p]) : i < at[p] => file[<<seed[p], i>>] = val[p]
      BY DEF TurnInv, UpToDate
    <3>2. \A i \in 1..LastPath(seed[p]) : i < at[p] => file'[<<seed[p], i>>] = val[p]
      BY <2>2, <2>4, <3>1, PathIsTarget
    <3>3. at[p] \in Nat /\ \A i \in 1..LastPath(seed[p]) : i \in Nat
      BY <2>2, SeedAssumption DEF LastPath
    <3> QED BY <2>2, <2>4, <3>2, <3>3
  <2>10. UpToDate(p)'
    <3>1. Reaches(p)' BY <2>1 DEF Reaches
    <3>2. CASE at[p] < LastPath(seed[p])
      <4>1. at'[p] = at[p] + 1 /\ pc'[p] = "open" BY <3>2 DEF TypeOK
      <4> QED BY <2>1, <2>2, <2>9, <3>1, <4>1 DEF UpToDate, LastPath, TypeOK
    <3>3. CASE ~(at[p] < LastPath(seed[p]))
      <4>1. pc'[p] = "markLoad" BY <3>3 DEF TypeOK
      <4>2. \A i \in 1..LastPath(seed[p]) : i <= at[p]
        BY <2>2, <3>3, SeedAssumption DEF LastPath
      <4> QED BY <2>1, <2>9, <3>1, <4>1, <4>2 DEF UpToDate, Holds, LastPath
    <3> QED BY <3>2, <3>3
  <2> QED BY <2>5, <2>8, <2>10, TurnKeeps
<1>7. ASSUME NEW p \in Procs, MarkSave(p) PROVE TurnInv'
  <2> USE <1>7 DEF MarkSave
  <2>1. UNCHANGED <<cid, file, target, val, at>> BY DEF hostVars
  <2>2. Proceed(p) OBVIOUS
  <2>3. seed[p] \in Seeds BY DEF TypeOK
  <2>4. Vouched(seed[p], <<target[p], val[p]>>)
    BY DEF Vouched, TurnInv, UpToDate, Reaches, TypeOK
  <2>5. \A q \in Procs \ {p} : pc[q] = "idle" BY DEF TurnInv
  <2>6. \A k \in Seeds \ {seed[p]} : Vouched(k, cache[k])
    BY <2>5 DEF TurnInv, Truthful, Copying
  <2>7. /\ cache'[seed[p]] = <<target[p], val[p]>>
        /\ \A k \in Seeds \ {seed[p]} : cache'[k] = cache[k]
    BY <2>3 DEF TurnInv, UpToDate, TypeOK, Caches
  <2>8. Truthful' BY <2>1, <2>3, <2>4, <2>6, <2>7 DEF Truthful, Vouched, Holds
  <2>9. pc'[p] = "idle" \/ (pc'[p] = "read" /\ Reaches(p)')
    BY <2>1, <2>2, ProceedType DEF TurnInv, UpToDate, Reaches
  <2>10. UpToDate(p)' BY <2>9 DEF UpToDate
  <2> QED BY <2>2, <2>8, <2>10, ProceedType, TurnKeeps
<1>8. CASE UNCHANGED vars
  BY <1>8 DEF vars, hostVars, procVars, TurnInv, Truthful, UpToDate, Reaches, Copying, Vouched,
     Holds, LastPath
<1> QED BY <1>1, <1>2, <1>3, <1>4, <1>5, <1>6, <1>7, <1>8 DEF Next

LEMMA InitTurn == Init => TurnInv
BY DEF Init, TurnInv, Truthful, UpToDate, Vouched

\* When only edits disturb, an entry is false at most while its seed is copied.
THEOREM TurnInvariant == Spec => [](TypeOK /\ (world = {"edits"} => TurnInv))
<1> DEFINE Inv == TypeOK /\ (world = {"edits"} => TurnInv)
<1>1. Inv /\ [Next]_vars => Inv' BY TypeStep, TurnStep, WorldStays
<1>2. Init => Inv BY InitType, InitTurn
<1> QED BY <1>1, <1>2, PTL DEF Spec

\* So a seeding that skips its copy or reports it as done leaves what it read in
\* every path, unless edits come together with overlaps or failures.
THEOREM SeedingIsCurrent ==
  ASSUME \A w \in Worlds : "edits" \in w => w = {"edits"}
  PROVE  Spec => SeededIsCurrent
<1> DEFINE Inv1 == TypeOK /\ ("edits" \notin world => SeedInv)
           Inv2 == TypeOK /\ (world = {"edits"} => TurnInv)
<1>1. Inv1 /\ Inv2 /\ [Next]_vars
      => [\A p \in Procs :
            (SkipCopy(p) \/ MarkSave(p)) /\ Reaches(p) => Holds(seed[p], val[p])]_vars
  <2> SUFFICES ASSUME Inv1, Inv2, NEW p \in Procs, Reaches(p), SkipCopy(p) \/ MarkSave(p)
               PROVE  Holds(seed[p], val[p])
    OBVIOUS
  <2>1. "edits" \notin world \/ world = {"edits"} BY DEF TypeOK
  <2>2. CASE SkipCopy(p)
    <3>1. seed[p] \in Seeds /\ val[p] \in Versions BY <2>2 DEF SkipCopy, TypeOK
    <3>2. cache[seed[p]] = <<cid, val[p]>> BY <2>2 DEF SkipCopy, Current, Reaches
    <3>3. <<cid, val[p]>> # NoFile BY <3>1, SeedAssumption DEF TypeOK
    <3>4. CASE "edits" \notin world
      <4>1. Vouched(seed[p], cache[seed[p]]) BY <3>1, <3>4 DEF SeedInv, CachesVouched
      <4> QED BY <3>2, <3>3, <4>1 DEF Vouched
    <3>5. CASE world = {"edits"}
      <4>1. \A q \in Procs : ~Copying(q)
        BY <2>2, <3>5 DEF SkipCopy, TurnInv, Copying
      <4>2. Vouched(seed[p], cache[seed[p]]) BY <3>1, <3>5, <4>1 DEF TurnInv, Truthful
      <4> QED BY <3>2, <3>3, <4>2 DEF Vouched
    <3> QED BY <2>1, <3>4, <3>5
  <2>3. CASE MarkSave(p) BY <2>1, <2>3 DEF MarkSave, SeedInv, Written, TurnInv, UpToDate
  <2> QED BY <2>2, <2>3
<1> QED BY SeedInvariant, TurnInvariant, <1>1, PTL DEF Spec, SeededIsCurrent
=============================================================================

-------------------------- MODULE StateStoreProofs --------------------------
(***************************************************************************)
(* Proofs about StateStore when saves do not overlap ("saves" \notin       *)
(* Overlap): crashes at any point leave a state.json that parses, and the  *)
(* store is a register of dicts.                                           *)
(***************************************************************************)
EXTENDS StateStore, TLAPS

LEMMA TypeStep ==
  ASSUME TypeOK, [Next]_vars
  PROVE  TypeOK'
<1> USE StoreAssumption DEF TypeOK, Dicts, Values, Fresh
<1>1. ASSUME NEW p \in Procs, LoadState(p) PROVE TypeOK'
  <2>1. Read(json) \in Dicts BY DEF Read, Contents
  <2> QED BY <1>1, <2>1 DEF LoadState
<1>2. ASSUME NEW p \in Procs, OpenTmp(p) PROVE TypeOK'
  BY <1>2 DEF OpenTmp, Unused, Empty, Contents
<1>3. ASSUME NEW p \in Procs, WriteTmp(p) PROVE TypeOK'
  <2>1. fd[p] \in Inodes BY <1>3 DEF WriteTmp
  <2>2. NewText(p) \in Contents BY DEF NewText, Text, Contents
  <2>3. Garbage \in Contents BY DEF Garbage, Contents
  <2> QED BY <1>3, <2>1, <2>2, <2>3 DEF WriteTmp
<1>4. ASSUME NEW p \in Procs, Replace(p) PROVE TypeOK'
  BY <1>4 DEF Replace
<1>5. ASSUME NEW p \in Procs, Crash(p) PROVE TypeOK'
  BY <1>5 DEF Crash
<1>6. CASE UNCHANGED vars
  BY <1>6 DEF vars
<1> QED BY <1>1, <1>2, <1>3, <1>4, <1>5, <1>6 DEF Next

LEMMA InitType == Init => TypeOK
<1> SUFFICES ASSUME Init PROVE TypeOK OBVIOUS
<1>1. Fresh \in Dicts BY DEF Fresh, Dicts, Values
<1>2. Empty \in Contents BY <1>1 DEF Empty, Contents
<1> QED BY <1>1, <1>2 DEF Init, TypeOK

\* TypeOK holds of every reachable state, however saves overlap.
THEOREM TypeInvariant == Spec => []TypeOK
<1>1. TypeOK /\ [Next]_vars => TypeOK' BY TypeStep
<1> QED BY InitType, <1>1, PTL DEF Spec

-----------------------------------------------------------------------------
(***************************************************************************)
(* One saver at a time owns state.tmp, and state.tmp is never state.json.  *)
(***************************************************************************)
OneSaver == \A p, q \in Procs : Saving(p) /\ Saving(q) => p = q

TmpOwned ==
  \A p \in Procs :
    /\ pc[p] = "write" => tmp # NoInode /\ fd[p] = tmp /\ content[tmp] = Empty
    /\ pc[p] = "replace" => tmp # NoInode /\ content[tmp] = NewText(p)

TmpApart == tmp # NoInode => tmp # json

StoreFacts == OneSaver /\ TmpOwned /\ TmpApart /\ StateParses /\ NoSaveFails

StoreInv == TypeOK /\ StoreFacts

LEMMA InitStore == Init => StoreInv
BY InitType DEF Init, StoreInv, StoreFacts, OneSaver, Saving, TmpOwned, TmpApart,
                StateParses, NoSaveFails

LEMMA NewTextReads ==
  ASSUME NEW p \in Procs
  PROVE  NewText(p).kind = "text" /\ NewText(p).data = [dict[p] EXCEPT ![field[p]] = p]
BY DEF NewText, Text

LEMMA StoreStep ==
  ASSUME "saves" \notin Overlap, StoreInv, [Next]_vars
  PROVE  StoreInv'
<1> USE StoreAssumption DEF StoreInv, StoreFacts, TypeOK, OneSaver, Saving, TmpOwned, TmpApart,
          StateParses, NoSaveFails
<1>1. TypeOK' BY TypeStep
<1>2. ASSUME NEW p \in Procs, LoadState(p) PROVE StoreFacts'
  BY <1>2 DEF LoadState, NewText
<1>3. ASSUME NEW p \in Procs, OpenTmp(p) PROVE StoreFacts'
  BY <1>3 DEF OpenTmp, Unused, NewText
<1>4. ASSUME NEW p \in Procs, WriteTmp(p) PROVE StoreFacts'
  BY <1>4 DEF WriteTmp, NewText
<1>5. ASSUME NEW p \in Procs, Replace(p) PROVE StoreFacts'
  <2>1. tmp # NoInode BY <1>5 DEF Replace
  <2>2. (OneSaver /\ TmpOwned /\ TmpApart /\ NoSaveFails)' BY <1>5, <2>1 DEF Replace
  <2>3. content'[json'] = NewText(p) BY <1>5, <2>1 DEF Replace
  <2>4. NewText(p).kind = "text" BY NewTextReads
  <2> QED BY <2>2, <2>3, <2>4
<1>6. ASSUME NEW p \in Procs, Crash(p) PROVE StoreFacts'
  BY <1>6 DEF Crash, NewText
<1>7. ASSUME UNCHANGED vars PROVE StoreFacts'
  BY <1>7 DEF vars, NewText
<1> QED BY <1>1, <1>2, <1>3, <1>4, <1>5, <1>6, <1>7 DEF Next

\* While saves do not overlap, the saver's temporary file is its own until the
\* rename, and never the file that holds the state.
THEOREM StoreInvariant ==
  ASSUME "saves" \notin Overlap PROVE Spec => []StoreInv
<1>1. StoreInv /\ [Next]_vars => StoreInv' BY StoreStep
<1> QED BY InitStore, <1>1, PTL DEF Spec

\* While saves do not overlap, a crash at any point leaves a state.json that
\* parses.
THEOREM AtomicRename ==
  ASSUME "saves" \notin Overlap PROVE Spec => []StateParses
<1>1. StoreInv => StateParses BY DEF StoreInv, StoreFacts
<1> QED BY StoreInvariant, <1>1, PTL

\* ... and no save finds its temporary file gone.
THEOREM SavesSucceed ==
  ASSUME "saves" \notin Overlap PROVE Spec => []NoSaveFails
<1>1. StoreInv => NoSaveFails BY DEF StoreInv, StoreFacts
<1> QED BY StoreInvariant, <1>1, PTL

-----------------------------------------------------------------------------
(***************************************************************************)
(* The store implements the register.  Only the rename changes what        *)
(* state.json holds, and it installs the renaming process's own text.      *)
(***************************************************************************)
LEMMA RegisterInit == Init => Register!Init
<1> SUFFICES ASSUME Init PROVE Register!Init OBVIOUS
<1>1. Read(json) = Register!Fresh
  BY DEF Init, Read, Fresh, Register!Fresh, Values
<1>2. dict = [p \in Procs |-> Register!Fresh]
  BY DEF Init, Fresh, Register!Fresh
<1>3. {p \in Procs : Modifying(p)} = {}
  BY DEF Init, Modifying, Saving
<1> QED BY <1>1, <1>2, <1>3 DEF Register!Init

LEMMA RegisterStep ==
  ASSUME "saves" \notin Overlap, StoreInv, [Next]_vars
  PROVE  [Register!Next]_(Register!vars)
<1> USE StoreAssumption DEF StoreInv, StoreFacts, TypeOK, Modifying, Saving
<1>1. ASSUME NEW p \in Procs, LoadState(p) PROVE Register!Load(p)
  <2>1. Read(json)' = Read(json) BY <1>1 DEF LoadState, Read
  <2>2. {q \in Procs : Modifying(q)}' = {q \in Procs : Modifying(q)} \cup {p}
    BY <1>1 DEF LoadState
  <2> QED BY <1>1, <2>1, <2>2 DEF LoadState, Register!Load
<1>2. ASSUME NEW p \in Procs, OpenTmp(p) PROVE UNCHANGED Register!vars
  <2>1. Read(json)' = Read(json) BY <1>2 DEF OpenTmp, Read, TmpApart, Unused
  <2>2. {q \in Procs : Modifying(q)}' = {q \in Procs : Modifying(q)}
    BY <1>2 DEF OpenTmp
  <2> QED BY <1>2, <2>1, <2>2 DEF OpenTmp, Register!vars
<1>3. ASSUME NEW p \in Procs, WriteTmp(p) PROVE UNCHANGED Register!vars
  <2>1. Read(json)' = Read(json) BY <1>3 DEF WriteTmp, Read, TmpApart, TmpOwned
  <2>2. {q \in Procs : Modifying(q)}' = {q \in Procs : Modifying(q)}
    BY <1>3 DEF WriteTmp
  <2> QED BY <1>3, <2>1, <2>2 DEF WriteTmp, Register!vars
<1>4. ASSUME NEW p \in Procs, Replace(p) PROVE Register!Save(p)
  <2>1. Read(json)' = [dict[p] EXCEPT ![field[p]] = p]
    <3>1. json' = tmp /\ tmp # NoInode BY <1>4 DEF Replace, TmpOwned
    <3>2. content'[json'] = NewText(p) BY <1>4, <3>1 DEF Replace, TmpOwned
    <3> QED BY <3>1, <3>2, NewTextReads DEF Read
  <2>2. {q \in Procs : Modifying(q)}' = {q \in Procs : Modifying(q)} \ {p}
    BY <1>4 DEF Replace
  <2>3. field[p] \in Keys OBVIOUS
  <2>4. p \in {q \in Procs : Modifying(q)} BY <1>4 DEF Replace
  <2> QED BY <1>4, <2>1, <2>2, <2>3, <2>4 DEF Replace, Register!Save, Register!Fresh, Fresh,
                Values, Register!Values
<1>5. ASSUME NEW p \in Procs, Crash(p) PROVE Register!Drop(p)
  <2>1. Read(json)' = Read(json) BY <1>5 DEF Crash, Read
  <2>2. {q \in Procs : Modifying(q)}' = {q \in Procs : Modifying(q)} \ {p}
    BY <1>5 DEF Crash
  <2> QED BY <1>5, <2>1, <2>2 DEF Crash, Register!Drop, Register!Fresh, Fresh,
                Values, Register!Values
<1>6. ASSUME UNCHANGED vars PROVE UNCHANGED Register!vars
  BY <1>6 DEF vars, Register!vars, Read
<1> QED BY <1>1, <1>2, <1>3, <1>4, <1>5, <1>6 DEF Next, Register!Next

\* While saves do not overlap, state.json is a register of whole dicts: a load
\* returns the last saved one, and a save replaces it in one step.
THEOREM StoreIsRegister ==
  ASSUME "saves" \notin Overlap PROVE Spec => RefinesRegister
<1>1. StoreInv /\ [Next]_vars => [Register!Next]_(Register!vars) BY RegisterStep
<1> QED BY RegisterInit, StoreInvariant, <1>1, PTL DEF Spec, RefinesRegister, Register!Spec

-----------------------------------------------------------------------------
(***************************************************************************)
(* Without overlap of any kind, the dict a process is changing is the one  *)
(* in the store until its rename.                                          *)
(***************************************************************************)
OneModifier == \A p, q \in Procs : Modifying(p) /\ Modifying(q) => p = q

CopyCurrent == \A p \in Procs : Modifying(p) => dict[p] = Read(json)

TurnInv == StoreInv /\ OneModifier /\ CopyCurrent

LEMMA InitTurn == Init => TurnInv
BY InitStore DEF TurnInv, OneModifier, CopyCurrent, Modifying, Saving, Init

LEMMA TurnStep ==
  ASSUME Overlap = {}, TurnInv, [Next]_vars
  PROVE  TurnInv'
<1>1. StoreInv /\ StoreInv' BY StoreStep DEF TurnInv
<1>2. TypeOK /\ StoreFacts BY <1>1 DEF StoreInv
<1> USE StoreAssumption DEF TurnInv, OneModifier, CopyCurrent, Modifying, Saving
<1>3. ASSUME NEW p \in Procs, LoadState(p) PROVE (OneModifier /\ CopyCurrent)'
  <2>1. Read(json)' = Read(json) BY <1>3 DEF LoadState, Read
  <2> QED BY <1>2, <1>3, <2>1 DEF LoadState, TypeOK
<1>4. ASSUME NEW p \in Procs, OpenTmp(p) PROVE (OneModifier /\ CopyCurrent)'
  <2>1. Read(json)' = Read(json) BY <1>2, <1>4 DEF OpenTmp, Read, StoreFacts, TmpApart, Unused, TypeOK
  <2> QED BY <1>2, <1>4, <2>1 DEF OpenTmp, TypeOK
<1>5. ASSUME NEW p \in Procs, WriteTmp(p) PROVE (OneModifier /\ CopyCurrent)'
  <2>1. Read(json)' = Read(json)
    BY <1>2, <1>5 DEF WriteTmp, Read, StoreFacts, TmpApart, TmpOwned, TypeOK
  <2> QED BY <1>2, <1>5, <2>1 DEF WriteTmp, TypeOK
<1>6. ASSUME NEW p \in Procs, Replace(p) PROVE (OneModifier /\ CopyCurrent)'
  BY <1>2, <1>6 DEF Replace, TypeOK
<1>7. ASSUME NEW p \in Procs, Crash(p) PROVE (OneModifier /\ CopyCurrent)'
  <2>1. Read(json)' = Read(json) BY <1>7 DEF Crash, Read
  <2> QED BY <1>2, <1>7, <2>1 DEF Crash, TypeOK
<1>8. ASSUME UNCHANGED vars PROVE (OneModifier /\ CopyCurrent)'
  BY <1>8 DEF vars, Read
<1> QED BY <1>1, <1>3, <1>4, <1>5, <1>6, <1>7, <1>8 DEF Next

LEMMA RenameKeeps ==
  ASSUME TurnInv, NEW p \in Procs, Replace(p), NEW k \in Keys \ {field[p]}
  PROVE  Read(json)[k] = Read(json)'[k]
<1>1. TypeOK /\ StoreFacts BY DEF TurnInv, StoreInv
<1>2. pc[p] = "replace" BY DEF Replace
<1>3. json' = tmp /\ tmp # NoInode /\ content' = content /\ content[tmp] = NewText(p)
  BY <1>1, <1>2 DEF Replace, StoreFacts, TmpOwned
<1>4. Read(json)' = [dict[p] EXCEPT ![field[p]] = p] BY <1>3, NewTextReads DEF Read
<1>5. dict[p] = Read(json) BY <1>2 DEF TurnInv, CopyCurrent, Modifying, Saving
<1>6. dict[p] \in Dicts BY <1>1 DEF TypeOK
<1> QED BY <1>4, <1>5, <1>6 DEF Dicts

\* While load-modify-saves do not overlap, a save leaves the fields its process did
\* not set as they are (state.py:58-75; its callers, e.g. state.py:110-121).
THEOREM SavesKeepOtherFields ==
  ASSUME Overlap = {} PROVE Spec => KeepsOtherFields
<1>1. TurnInv /\ [Next]_vars => TurnInv' BY TurnStep
<1>2. TurnInv /\ [Next]_vars =>
        [\A p \in Procs : Replace(p) =>
           \A k \in Keys \ {field[p]} : Read(json)[k] = Read(json)'[k]]_vars
  BY RenameKeeps
<1> QED BY InitTurn, <1>1, <1>2, PTL DEF Spec, KeepsOtherFields
=============================================================================

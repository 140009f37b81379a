---------------------------- MODULE BinFileSaveProofs --------------------------
(***************************************************************************)
(* Theorems about the files of the binary storage, for any set of names    *)
(* and any number of edits.  What Save is about to do depends on what its  *)
(* earlier steps have done, and Progress says what that is at each step;   *)
(* with the types it is inductive, and the action properties follow from   *)
(* it one action at a time.                                                *)
(***************************************************************************)
EXTENDS BinFileSave, TLAPS

(* A call of Save has a storage with open files and a target; once it has  *)
(* written no transaction is open; once the new file is closed it holds    *)
(* the store, first under its temporary name and then under its own, where *)
(* it counts as saved.                                                     *)
Progress ==
  /\ pc # "idle" => filename \in Path /\ filesOpen /\ saveAs \in Path
  /\ pc \in {"remove", "close", "rename", "scratch", "load"} => base = store
  /\ pc = "rename" => temporary[saveAs] = store
  /\ pc = "scratch" => scratchName \in Path
  /\ pc \in {"scratch", "load"} => project[filename] = store /\ saved[filename] = store

IInv == TypeOK /\ Progress

LEMMA InitIInv == Init => IInv
<1> SUFFICES ASSUME Init PROVE IInv
  OBVIOUS
<1> USE ConstantsAssumption
<1>1. TypeOK
  <2>1. project \in [Path -> Nat \cup {None, Torn}] /\ saved \in [Path -> Nat \cup {None}]
    BY DEF Init, Old
  <2>2. temporary \in [Path -> Nat \cup {None, Torn}] /\ scratch \subseteq Path
    BY DEF Init
  <2>3. store \in Nat /\ base \in Nat /\ edits \in Nat
    BY DEF Init, Empty, Old
  <2>4. filesOpen \in BOOLEAN /\ inTransaction \in BOOLEAN /\ pc \in Steps \cup {"idle"}
    BY DEF Init
  <2> QED
    BY <2>1, <2>2, <2>3, <2>4 DEF Init, TypeOK
<1>2. Progress
  BY DEF Init, Progress
<1> QED
  BY <1>1, <1>2 DEF IInv

(* The calls made while Save is not running. *)
LEMMA CallsKeepIInv ==
  ASSUME IInv,
         \/ \E p \in Path : Create(p)
         \/ \E p \in Path : Open(p)
         \/ Close
         \/ Die
         \/ BeginTransaction
         \/ Edit
         \/ CommitTransaction
         \/ AbortTransaction
         \/ \E p \in Path, force \in BOOLEAN : SaveStart(p, force),
         filename = None => pc = "idle"
  PROVE  IInv'
<1> USE ConstantsAssumption
<1>1. ASSUME NEW p \in Path, Create(p) PROVE IInv'
  <2>1. pc = "idle" /\ pc' = "idle" /\ saveAs' = saveAs /\ scratchName' = scratchName
    BY <1>1 DEF Create, NoStorage, save
  <2>2. Progress'
    BY <2>1 DEF Progress
  <2>3. project' \in [Path -> Nat \cup {None, Torn}] /\ saved' \in [Path -> Nat \cup {None}]
    BY <1>1 DEF Create, IInv, TypeOK
  <2>4. scratch' \subseteq Path /\ filename' \in Path \cup {None} /\ filesOpen' \in BOOLEAN
    BY <1>1 DEF Create, IInv, TypeOK
  <2>5. store' \in Nat /\ base' \in Nat
    BY <1>1 DEF Create, Holds, New, IInv, TypeOK
  <2>6. TypeOK'
    BY <1>1, <2>1, <2>3, <2>4, <2>5 DEF Create, IInv, TypeOK
  <2> QED
    BY <2>2, <2>6 DEF IInv
<1>2. ASSUME NEW p \in Path, Open(p) PROVE IInv'
  BY <1>2 DEF Open, NoStorage, Holds, save, storage, IInv, TypeOK, Progress
<1>3. CASE Close
  BY <1>3 DEF Close, Gone, Holds, Empty, save, IInv, TypeOK, Progress
<1>4. CASE Die
  BY <1>4 DEF Die, Gone, Holds, Empty, disk, IInv, TypeOK, Progress
<1>5. CASE BeginTransaction
  BY <1>5 DEF BeginTransaction, Ready, disk, save, IInv, TypeOK, Progress
<1>6. CASE Edit
  BY <1>6 DEF Edit, Ready, disk, save, IInv, TypeOK, Progress
<1>7. CASE CommitTransaction
  BY <1>7 DEF CommitTransaction, Ready, Holds, disk, save, IInv, TypeOK, Progress
<1>8. CASE AbortTransaction
  BY <1>8 DEF AbortTransaction, Ready, Holds, disk, save, IInv, TypeOK, Progress
<1>9. ASSUME NEW p \in Path, NEW force \in BOOLEAN, SaveStart(p, force) PROVE IInv'
  BY <1>9 DEF SaveStart, Ready, GoTo, Steps, storage, IInv, TypeOK, Progress
<1> QED
  BY <1>1, <1>2, <1>3, <1>4, <1>5, <1>6, <1>7, <1>8, <1>9

(* The steps of Save. *)
LEMMA SaveKeepsIInv ==
  ASSUME IInv, SaveStep
  PROVE  IInv'
<1> USE ConstantsAssumption DEF At, GoTo, Steps, IInv, Progress
<1>1. CASE SaveOpen
  BY <1>1 DEF SaveOpen, storage, TypeOK
<1>2. CASE SaveWrite
  BY <1>2 DEF SaveWrite, Holds, disk, TypeOK
<1>3. CASE SaveRemove
  BY <1>3 DEF SaveRemove, storage, TypeOK
<1>4. CASE SaveClose
  BY <1>4 DEF SaveClose, storage, TypeOK
<1>5. CASE SaveRename
  BY <1>5 DEF SaveRename, TypeOK
<1>6. CASE SaveRemoveScratch
  BY <1>6 DEF SaveRemoveScratch, storage, TypeOK
<1>7. CASE SaveLoad
  <2>1. project[filename] = store /\ store \in Nat
    BY <1>7 DEF SaveLoad, TypeOK
  <2>2. store' \in Nat /\ base' \in Nat
    <3>1. Holds(store) \/ Holds(Empty)
      BY <1>7, <2>1 DEF SaveLoad
    <3> QED
      BY <2>1, <3>1 DEF Holds, Empty
  <2>3. scratch' \subseteq Path /\ filesOpen' \in BOOLEAN
    BY <1>7 DEF SaveLoad, TypeOK
  <2>4. TypeOK'
    BY <1>7, <2>2, <2>3 DEF SaveLoad, TypeOK
  <2>5. Progress'
    BY <1>7 DEF SaveLoad
  <2> QED
    BY <2>4, <2>5
<1> QED
  BY <1>1, <1>2, <1>3, <1>4, <1>5, <1>6, <1>7 DEF SaveStep

LEMMA StutterKeepsIInv ==
  ASSUME IInv, UNCHANGED vars
  PROVE  IInv'
BY DEF vars, disk, storage, save, IInv, TypeOK, Progress

LEMMA NextIInv == IInv /\ [Next]_vars => IInv'
<1> SUFFICES ASSUME IInv, [Next]_vars PROVE IInv'
  OBVIOUS
<1>1. filename = None => pc = "idle"
  BY ConstantsAssumption DEF IInv, Progress
<1>2. CASE SaveStep
  BY <1>2, SaveKeepsIInv
<1>3. CASE Next /\ ~SaveStep
  BY <1>1, <1>3, CallsKeepIInv DEF Next
<1>4. CASE UNCHANGED vars
  BY <1>4, StutterKeepsIInv
<1> QED
  BY <1>2, <1>3, <1>4

(* The files, the storage and the progress of Save have their types, and   *)
(* what Save has done is there when its next step relies on it.            *)
THEOREM SaveTypeCorrect == Spec => [](TypeOK /\ Progress)
BY InitIInv, NextIInv, PTL DEF Spec, IInv

--------------------------------------------------------------------------------
(* Save is the only call that gives a file its name, and what it names is  *)
(* whole.                                                                  *)
LEMMA RenameNamesStore ==
  ASSUME IInv, SaveRename
  PROVE  /\ saveAs \in Path
         /\ project' = [project EXCEPT ![saveAs] = store]
         /\ saved' = [saved EXCEPT ![saveAs] = store]
BY DEF SaveRename, At, IInv, Progress

LEMMA StepNamesWhole ==
  ASSUME IInv, [Next]_vars, NEW p \in Path, project'[p] = Torn
  PROVE  project[p] = Torn \/ NoStorage
<1> USE ConstantsAssumption
<1>1. ASSUME NEW q \in Path, Create(q) PROVE NoStorage
  BY <1>1 DEF Create
<1>2. ASSUME NEW q \in Path, NEW force \in BOOLEAN, SaveStart(q, force)
      PROVE  project[p] = Torn
  BY <1>2 DEF SaveStart, IInv, TypeOK
<1>3. CASE SaveRemove
  BY <1>3 DEF SaveRemove, IInv, TypeOK
<1>4. CASE SaveRename
  BY <1>4, RenameNamesStore DEF IInv, TypeOK
<1>5. CASE UNCHANGED project
  BY <1>5
<1>6. \/ UNCHANGED project
      \/ \E q \in Path : Create(q)
      \/ \E q \in Path, force \in BOOLEAN : SaveStart(q, force)
      \/ SaveRemove
      \/ SaveRename
  BY DEF Next, SaveStep, Open, Close, Die, BeginTransaction, Edit, CommitTransaction,
         AbortTransaction, SaveOpen, SaveWrite, SaveClose, SaveRemoveScratch, SaveLoad,
         disk, vars
<1> QED
  BY <1>1, <1>2, <1>3, <1>4, <1>5, <1>6

(* A name never comes to hold a file that is not a whole project, except   *)
(* when Create starts afresh.                                              *)
THEOREM WholeProjectsNamed == Spec => NamesHoldWholeProjects
<1>1. IInv /\ [Next]_vars => [\A p \in Path : project'[p] = Torn => project[p] = Torn \/ NoStorage]_vars
  BY StepNamesWhole
<1> QED
  BY <1>1, InitIInv, NextIInv, PTL DEF Spec, NamesHoldWholeProjects

--------------------------------------------------------------------------------
(* Save reloads what it has written.                                       *)

(* What SaveKeepsContent allows a step of Save. *)
ContentLeft ==
  \/ store' = store
  \/ /\ store' = Empty /\ ~filesOpen'
     /\ project'[filename] = store /\ saved'[filename] = store

LEMMA SaveStepKeepsContent ==
  ASSUME IInv, SaveStep
  PROVE  ContentLeft
<1>1. CASE SaveLoad
  BY <1>1 DEF SaveLoad, ContentLeft, At, Holds, IInv, Progress
<1>2. CASE SaveWrite
  BY <1>2 DEF SaveWrite, Holds, ContentLeft
<1>3. CASE UNCHANGED store
  BY <1>3 DEF ContentLeft
<1> QED
  BY <1>1, <1>2, <1>3 DEF SaveStep, SaveOpen, SaveRemove, SaveClose, SaveRename,
     SaveRemoveScratch, storage

(* A call of Save leaves in the storage what it held, or, when Load fails, *)
(* an empty storage and all of the content in the file just saved.         *)
THEOREM ContentKept == Spec => SaveKeepsContent
<1>1. IInv /\ [Next]_vars
        => [SaveStep => \/ store' = store
                        \/ /\ store' = Empty /\ ~filesOpen'
                           /\ project'[filename] = store /\ saved'[filename] = store]_vars
  BY SaveStepKeepsContent DEF ContentLeft
<1> QED
  BY <1>1, InitIInv, NextIInv, PTL DEF Spec, SaveKeepsContent

--------------------------------------------------------------------------------
(* What was saved stays on disk.  Away from Save nothing but Create touches*)
(* a project's file; a forced Save removes one and is then replacing it;   *)
(* inside Save, each step hands the project on to the next.                *)

LEMMA CallsKeepSaved ==
  ASSUME IInv, NEW p \in Path, OnDisk(p),
         \/ \E q \in Path : Create(q)
         \/ \E q \in Path : Open(q)
         \/ Close
         \/ BeginTransaction
         \/ Edit
         \/ CommitTransaction
         \/ AbortTransaction
         \/ \E q \in Path, force \in BOOLEAN : SaveStart(q, force),
         pc = "idle"
  PROVE  OnDisk(p)' \/ Loses(p)
<1> USE ConstantsAssumption DEF OnDisk, Replacing
<1>1. saved[p] # None => project[p] = saved[p]
  OBVIOUS
<1>2. ASSUME NEW q \in Path, Create(q) PROVE OnDisk(p)' \/ Loses(p)
  <2>1. CASE q = p
    BY <1>2, <2>1 DEF Loses
  <2>2. CASE q # p
    BY <1>1, <1>2, <2>2 DEF Create, IInv, TypeOK
  <2> QED
    BY <2>1, <2>2
<1>3. ASSUME NEW q \in Path, NEW force \in BOOLEAN, SaveStart(q, force) PROVE OnDisk(p)'
  <2>1. saved' = saved /\ saveAs' = q /\ pc' = "open"
    BY <1>3 DEF SaveStart, GoTo
  <2>2. CASE UNCHANGED project
    BY <1>1, <2>1, <2>2
  <2>3. CASE project' = [project EXCEPT ![q] = None]
    <3>1. CASE p = q
      BY <2>1, <2>3, <3>1 DEF IInv, TypeOK
    <3>2. CASE p # q
      BY <1>1, <2>1, <2>3, <3>2 DEF IInv, TypeOK
    <3> QED
      BY <3>1, <3>2
  <2> QED
    BY <1>3, <2>2, <2>3 DEF SaveStart
<1>4. CASE UNCHANGED <<project, saved>>
  BY <1>1, <1>4
<1> QED
  BY <1>2, <1>3, <1>4 DEF Open, Close, BeginTransaction, Edit, CommitTransaction,
     AbortTransaction, disk

LEMMA SaveKeepsSaved ==
  ASSUME IInv, NEW p \in Path, OnDisk(p), SaveStep
  PROVE  OnDisk(p)' \/ Loses(p)
<1> USE ConstantsAssumption DEF At, GoTo
<1>1. CASE SaveOpen
  <2>1. CASE pc' = "write" /\ UNCHANGED saveAs
    BY <1>1, <2>1 DEF SaveOpen, OnDisk, Replacing, storage
  <2>2. CASE pc' = "idle" /\ ~Replacing(p)
    BY <1>1, <2>2 DEF SaveOpen, OnDisk
  <2>3. CASE pc' = "idle" /\ Replacing(p)
    BY <1>1, <2>3 DEF Loses
  <2> QED
    BY <1>1, <2>1, <2>2, <2>3 DEF SaveOpen
<1> USE DEF OnDisk, Replacing
<1>2. CASE SaveWrite
  BY <1>2 DEF SaveWrite, disk
<1>3. CASE SaveRemove
  BY <1>3 DEF SaveRemove, storage, IInv, TypeOK
<1>4. CASE SaveClose
  BY <1>4 DEF SaveClose, storage, IInv, TypeOK, Progress
<1>5. CASE SaveRename
  BY <1>5, RenameNamesStore DEF SaveRename, IInv, TypeOK
<1>6. CASE SaveRemoveScratch
  BY <1>6 DEF SaveRemoveScratch, storage
<1>7. CASE SaveLoad
  BY <1>7 DEF SaveLoad
<1> QED
  BY <1>1, <1>2, <1>3, <1>4, <1>5, <1>6, <1>7 DEF SaveStep

LEMMA StepKeepsSaved ==
  ASSUME IInv, [Next]_vars, NEW p \in Path, OnDisk(p)
  PROVE  OnDisk(p)' \/ UNCHANGED vars \/ Loses(p)
<1>1. CASE SaveStep
  BY <1>1, SaveKeepsSaved
<1>2. CASE Die
  <2>1. CASE Replacing(p)
    BY <1>2, <2>1 DEF Loses
  <2>2. CASE ~Replacing(p)
    BY <1>2, <2>2 DEF Die, disk, OnDisk
  <2> QED
    BY <2>1, <2>2
<1>3. CASE UNCHANGED vars
  BY <1>3
<1>4. CASE Next /\ ~SaveStep /\ ~Die
  <2>1. pc = "idle"
    BY <1>4, ConstantsAssumption
    DEF Next, Create, Open, Close, BeginTransaction, Edit, CommitTransaction, AbortTransaction,
        SaveStart, Ready, NoStorage, IInv, Progress
  <2> QED
    BY <1>4, <2>1, CallsKeepSaved DEF Next
<1> QED
  BY <1>1, <1>2, <1>3, <1>4

(* What was last saved under a name is lost only when Create starts afresh *)
(* there, or while Save is replacing that very file: by the death of the   *)
(* process, or because Save gives up after a forced removal.               *)
THEOREM SavedSurvives == Spec => SavedIsOnDisk
<1>1. IInv /\ [Next]_vars => [\A p \in Path : OnDisk(p) => OnDisk(p)' \/ Loses(p)]_vars
  BY StepKeepsSaved
<1> QED
  BY <1>1, InitIInv, NextIInv, PTL DEF Spec, SavedIsOnDisk

--------------------------------------------------------------------------------
(* Files that are not projects.  A name is given up by the storage, or by  *)
(* the running call, only together with the file.                          *)

StrayScratch == scratch \ InUse
StrayTemporary == {p \in Path : temporary[p] # None} \ BeingWritten

(* What a step other than Die may leave: nothing more than was left before,*)
(* but for the scratch file of a project that is refused.                  *)
Tidy ==
  /\ StrayTemporary' \subseteq StrayTemporary
  /\ \A p \in StrayScratch' : p \in StrayScratch \/ project[p] = Torn

LEMMA CallsTidy ==
  ASSUME IInv,
         \/ \E p \in Path : Create(p)
         \/ \E p \in Path : Open(p)
         \/ Close
         \/ BeginTransaction
         \/ Edit
         \/ CommitTransaction
         \/ AbortTransaction
         \/ \E p \in Path, force \in BOOLEAN : SaveStart(p, force),
         pc = "idle"
  PROVE  Tidy
<1> USE ConstantsAssumption DEF Tidy, StrayScratch, StrayTemporary, InUse, BeingWritten
<1>a. NoStorage => StrayScratch = scratch
  BY DEF NoStorage, IInv, TypeOK
<1>1. ASSUME NEW p \in Path, Create(p) PROVE Tidy
  <2>1. StrayScratch' \subseteq scratch
    BY <1>1 DEF Create, save
  <2>2. StrayTemporary' = StrayTemporary
    BY <1>1 DEF Create, save
  <2> QED
    BY <1>1, <1>a, <2>1, <2>2 DEF Create
<1>2. ASSUME NEW p \in Path, Open(p) PROVE Tidy
  <2>1. \A q \in StrayScratch' : q \in scratch \/ project[q] = Torn
    BY <1>2 DEF Open, save
  <2>2. StrayTemporary' = StrayTemporary
    BY <1>2 DEF Open, save
  <2> QED
    BY <1>2, <1>a, <2>1, <2>2 DEF Open
<1>3. CASE Close
  BY <1>3 DEF Close, Gone, save
<1>4. CASE BeginTransaction \/ Edit \/ CommitTransaction \/ AbortTransaction
  BY <1>4 DEF BeginTransaction, Edit, CommitTransaction, AbortTransaction, disk, save
<1>5. ASSUME NEW p \in Path, NEW force \in BOOLEAN, SaveStart(p, force) PROVE Tidy
  BY <1>5 DEF SaveStart, GoTo, storage
<1> QED
  BY <1>1, <1>2, <1>3, <1>4, <1>5

LEMMA SaveTidies ==
  ASSUME IInv, SaveStep
  PROVE  Tidy
<1> USE ConstantsAssumption DEF Tidy, StrayScratch, StrayTemporary, InUse, BeingWritten
<1> USE DEF At, GoTo, IInv, TypeOK, Progress
<1>1. CASE SaveOpen
  BY <1>1 DEF SaveOpen, storage
<1>2. CASE SaveWrite
  BY <1>2 DEF SaveWrite, disk
<1>3. CASE SaveRemove
  BY <1>3 DEF SaveRemove, storage
<1>4. CASE SaveClose
  BY <1>4 DEF SaveClose, storage
<1>5. CASE SaveRename
  BY <1>5 DEF SaveRename
<1>6. CASE SaveRemoveScratch
  BY <1>6 DEF SaveRemoveScratch, storage
<1>7. CASE SaveLoad
  BY <1>7 DEF SaveLoad
<1> QED
  BY <1>1, <1>2, <1>3, <1>4, <1>5, <1>6, <1>7 DEF SaveStep

LEMMA StepTidies ==
  ASSUME IInv, [Next]_vars
  PROVE  Die \/ Tidy \/ UNCHANGED vars
<1>1. CASE SaveStep
  BY <1>1, SaveTidies
<1>2. CASE Next /\ ~SaveStep /\ ~Die
  <2>1. pc = "idle"
    BY <1>2, ConstantsAssumption
    DEF Next, Create, Open, Close, BeginTransaction, Edit, CommitTransaction, AbortTransaction,
        SaveStart, Ready, NoStorage, IInv, Progress
  <2> QED
    BY <1>2, <2>1, CallsTidy DEF Next
<1> QED
  BY <1>1, <1>2

(* A call that returns leaves no scratch or temporary file behind, except  *)
(* the scratch file of a project that Open refuses.                        *)
THEOREM FilesTidied == Spec => NoFilesLeftBehind
<1>1. IInv /\ [Next]_vars
        => [\/ Die
            \/ /\ LeftBehind.temporary' \subseteq LeftBehind.temporary
               /\ \A p \in LeftBehind.scratch' : p \in LeftBehind.scratch \/ project[p] = Torn]_vars
  BY StepTidies DEF Tidy, StrayScratch, StrayTemporary, LeftBehind
<1> QED
  BY <1>1, InitIInv, NextIInv, PTL DEF Spec, NoFilesLeftBehind

================================================================================

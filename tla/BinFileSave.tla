------------------------------- MODULE BinFileSave -----------------------------
(***************************************************************************)
(* The files of the binary storage: BinFile::Create, Open, Save and the    *)
(* destructor (Core/BinFile.cpp), one action per call on the file system,  *)
(* in a process that can die between any two of them.                      *)
(*                                                                         *)
(* A project is kept under its name; "~" before the name is the scratch    *)
(* file of the storage that has it open, and "~_" the file Save writes.    *)
(* The content of a project is a number: each edit makes a new one.  An   *)
(* asserted call that fails aborts the process, which is what Die is for;  *)
(* what was written to a stream that was not closed may not be on disk.    *)
(*                                                                         *)
(* Left out: names that are a "~" or "~_" name of another project, two     *)
(* names of one file, other processes, and the loss of data the operating  *)
(* system has accepted.                                                    *)
(***************************************************************************)
EXTENDS Integers

CONSTANTS
  Path,       \* names of projects
  None,       \* no file, no project
  Torn,       \* a file that is not a whole project; an empty one, for example
  MaxEdits    \* bound of the model: the content the last edit makes

(* The steps of Save, named after what they do first. *)
Steps == {"open", "write", "remove", "close", "rename", "scratch", "load"}

ASSUME ConstantsAssumption ==
  /\ None \notin Path \cup Nat
  /\ Torn \notin Nat \cup {None}
  /\ MaxEdits \in Nat \ {0}

VARIABLES
  project,        \* path -> the file of that name: None, Torn or a content
  temporary,      \* path -> the "~_" file
  scratch,        \* the paths that have a "~" file
  filename,       \* _filename of the storage; None if there is no storage
  filesOpen,      \* whether _inputFile and _scratchFile are open
  store,          \* what the storage holds
  base,           \* the same, without the open transaction
  inTransaction,  \* _inTransaction
  pc,             \* "idle", or the step of Save to be taken next
  saveAs,         \* the path Save writes
  scratchName,    \* the path whose scratch file Save has still to remove
  edits,          \* the content the last edit made
  saved           \* path -> what was last saved under that name, None if nothing

disk == <<project, temporary, scratch>>
storage == <<filename, filesOpen, store, base, inTransaction>>
save == <<pc, saveAs, scratchName>>
vars == <<disk, storage, save, edits, saved>>

TypeOK ==
  /\ project \in [Path -> Nat \cup {None, Torn}]
  /\ temporary \in [Path -> Nat \cup {None, Torn}]
  /\ scratch \subseteq Path
  /\ filename \in Path \cup {None}
  /\ filesOpen \in BOOLEAN
  /\ store \in Nat
  /\ base \in Nat
  /\ inTransaction \in BOOLEAN
  /\ pc \in Steps \cup {"idle"}
  /\ saveAs \in Path \cup {None}
  /\ scratchName \in Path \cup {None}
  /\ edits \in Nat
  /\ saved \in [Path -> Nat \cup {None}]

(* Nothing at all; what a project holds that was just created, and what one *)
(* that was there.                                                         *)
Empty == 0
New == 1
Old == 2

Init ==
  /\ project \in [Path -> {None, Old}]
  /\ temporary = [p \in Path |-> None]
  /\ scratch = {}
  /\ filename = None
  /\ filesOpen = FALSE
  /\ store = Empty
  /\ base = Empty
  /\ inTransaction = FALSE
  /\ pc = "idle"
  /\ saveAs = None
  /\ scratchName = None
  /\ edits = Old
  /\ saved = project

--------------------------------------------------------------------------------
(* Create, Open, and the destructor.                                       *)

NoStorage == filename = None

(* There is a storage and no call is running.  Its files may be closed,    *)
(* after a Load that failed: only Save and reading from them need them.    *)
Ready == filename # None /\ pc = "idle"

Holds(content) ==
  /\ store' = content
  /\ base' = content

(* The file of that name, if there is one, is emptied; then, if there can  *)
(* be a scratch file, there is a storage with the root object in memory.   *)
Create(p) ==
  /\ NoStorage
  /\ project' = [project EXCEPT ![p] = Torn]
  /\ \/ /\ scratch' = scratch \cup {p}
        /\ filename' = p
        /\ filesOpen' = TRUE
        /\ Holds(New)
     \/ UNCHANGED <<scratch, filename, filesOpen, store, base>>
  /\ UNCHANGED <<temporary, inTransaction, save, edits, saved>>

(* Mutant: the uuid of the metaproject is not compared. *)
OpenAnything(p) ==
  /\ NoStorage
  /\ project[p] # None
  /\ scratch' = scratch \cup {p}
  /\ filename' = p
  /\ filesOpen' = TRUE
  /\ Holds(project[p])
  /\ UNCHANGED <<inTransaction, project, temporary, save, edits, saved>>

(* A file that is not a project is refused after the scratch file has been *)
(* made, which stays behind.                                               *)
Open(p) ==
  /\ NoStorage
  /\ project[p] # None
  /\ scratch' = scratch \cup {p}
  /\ IF project[p] = Torn THEN UNCHANGED storage
     ELSE /\ filename' = p
          /\ filesOpen' = TRUE
          /\ Holds(project[p])
          /\ UNCHANGED inTransaction
  /\ UNCHANGED <<project, temporary, save, edits, saved>>

(* The destructor aborts the open transaction. *)
Gone ==
  /\ filename' = None
  /\ filesOpen' = FALSE
  /\ Holds(Empty)
  /\ inTransaction' = FALSE

Close ==
  /\ filename # None
  /\ pc = "idle"
  /\ Gone
  /\ scratch' = IF filesOpen THEN scratch \ {filename} ELSE scratch
  /\ UNCHANGED <<project, temporary, save, edits, saved>>

Die ==
  /\ filename # None
  /\ Gone
  /\ pc' = "idle"
  /\ saveAs' = None
  /\ scratchName' = None
  /\ UNCHANGED <<disk, edits, saved>>

--------------------------------------------------------------------------------
(* Transactions, as far as Save has to do with them.                       *)

BeginTransaction ==
  /\ Ready
  /\ ~inTransaction
  /\ inTransaction' = TRUE
  /\ UNCHANGED <<disk, filename, filesOpen, store, base, save, edits, saved>>

Edit ==
  /\ Ready
  /\ inTransaction
  /\ edits < MaxEdits
  /\ edits' = edits + 1
  /\ store' = edits'
  /\ UNCHANGED <<disk, filename, filesOpen, base, inTransaction, save, saved>>

CommitTransaction ==
  /\ Ready
  /\ inTransaction
  /\ inTransaction' = FALSE
  /\ Holds(store)
  /\ UNCHANGED <<disk, filename, filesOpen, save, edits, saved>>

AbortTransaction ==
  /\ Ready
  /\ inTransaction
  /\ inTransaction' = FALSE
  /\ Holds(base)
  /\ UNCHANGED <<disk, filename, filesOpen, save, edits, saved>>

--------------------------------------------------------------------------------
(* Save, step by step.                                                     *)

At(step) == pc = step
GoTo(step) == pc' = step

(* Another file of the name is removed if that is forced; else Save refuses*)
(* to go on.  Without open files its first assertions fail, which is Die.  *)
SaveStart(p, forceOverwrite) ==
  /\ Ready
  /\ filesOpen
  /\ saveAs' = p
  /\ GoTo("open")
  /\ \/ /\ p = filename \/ project[p] = None
        /\ UNCHANGED project
     \/ /\ p # filename /\ project[p] # None /\ forceOverwrite
        /\ project' = [project EXCEPT ![p] = None]
  /\ UNCHANGED <<temporary, scratch, storage, scratchName, edits, saved>>

SaveOpen ==
  /\ At("open")
  /\ \/ /\ temporary' = [temporary EXCEPT ![saveAs] = Torn]
        /\ GoTo("write")
        /\ UNCHANGED saveAs
     \/ /\ GoTo("idle")
        /\ saveAs' = None
        /\ UNCHANGED temporary
  /\ UNCHANGED <<project, scratch, storage, scratchName, edits, saved>>

(* Mutant: the open transaction is aborted. *)
SaveWriteBase ==
  /\ At("write")
  /\ inTransaction' = FALSE
  /\ Holds(base)
  /\ GoTo("remove")
  /\ UNCHANGED <<disk, filename, filesOpen, saveAs, scratchName, edits, saved>>

(* The open transaction is committed; then everything is written.  What is *)
(* written is taken out of memory on the way, index and journal included;  *)
(* nobody looks at the storage before Load, which puts it back or not.     *)
SaveWrite ==
  /\ At("write")
  /\ inTransaction' = FALSE
  /\ Holds(store)
  /\ GoTo("remove")
  /\ UNCHANGED <<disk, filename, filesOpen, saveAs, scratchName, edits, saved>>

(* Mutant: the original is removed whatever the name of the new file. *)
SaveRemoveAlways ==
  /\ At("remove")
  /\ project' = [project EXCEPT ![filename] = None]
  /\ GoTo("close")
  /\ UNCHANGED <<temporary, scratch, storage, saveAs, scratchName, edits, saved>>

(* The original is removed only if the new file is to have its name. *)
SaveRemove ==
  /\ At("remove")
  /\ project' = IF saveAs = filename THEN [project EXCEPT ![filename] = None] ELSE project
  /\ GoTo("close")
  /\ UNCHANGED <<temporary, scratch, storage, saveAs, scratchName, edits, saved>>

(* Mutant: the file is renamed while it is still open. *)
SaveUnclosed ==
  /\ At("close")
  /\ GoTo("rename")
  /\ UNCHANGED <<disk, storage, saveAs, scratchName, edits, saved>>

SaveClose ==
  /\ At("close")
  /\ temporary' = [temporary EXCEPT ![saveAs] = store]
  /\ GoTo("rename")
  /\ UNCHANGED <<project, scratch, storage, saveAs, scratchName, edits, saved>>

SaveRename ==
  /\ At("rename")
  /\ scratchName' = filename
  /\ filename' = saveAs
  /\ project' = [project EXCEPT ![saveAs] = temporary[saveAs]]
  /\ temporary' = [temporary EXCEPT ![saveAs] = None]
  /\ saved' = [saved EXCEPT ![saveAs] = store]
  /\ GoTo("scratch")
  /\ UNCHANGED <<scratch, filesOpen, store, base, inTransaction, saveAs, edits>>

(* Mutant: the name of the scratch file is made from the new file name. *)
SaveRemoveNewScratch ==
  /\ At("scratch")
  /\ scratch' = scratch \ {filename}
  /\ scratchName' = None
  /\ GoTo("load")
  /\ UNCHANGED <<project, temporary, storage, saveAs, edits, saved>>

SaveRemoveScratch ==
  /\ At("scratch")
  /\ scratch' = scratch \ {scratchName}
  /\ scratchName' = None
  /\ GoTo("load")
  /\ UNCHANGED <<project, temporary, storage, saveAs, edits, saved>>

(* Load fails if it cannot open one of the files.  Then the storage has no *)
(* files and is empty: writing has cleared cache, index and journal.       *)
SaveLoad ==
  /\ At("load")
  /\ GoTo("idle")
  /\ saveAs' = None
  /\ \/ /\ project[filename] \notin {None, Torn}
        /\ scratch' = scratch \cup {filename}
        /\ Holds(project[filename])
        /\ UNCHANGED filesOpen
     \/ /\ filesOpen' = FALSE
        /\ Holds(Empty)
        /\ UNCHANGED scratch
  /\ UNCHANGED <<project, temporary, filename, inTransaction, scratchName, edits, saved>>

SaveStep ==
  \/ SaveOpen
  \/ SaveWrite
  \/ SaveRemove
  \/ SaveClose
  \/ SaveRename
  \/ SaveRemoveScratch
  \/ SaveLoad

Next ==
  \/ \E p \in Path : Create(p)
  \/ \E p \in Path : Open(p)
  \/ Close
  \/ Die
  \/ BeginTransaction
  \/ Edit
  \/ CommitTransaction
  \/ AbortTransaction
  \/ \E p \in Path, force \in BOOLEAN : SaveStart(p, force)
  \/ SaveStep

Spec == Init /\ [][Next]_vars

--------------------------------------------------------------------------------
(* Properties.                                                             *)

(* The part of Save in which the name it writes has no file, because it has *)
(* removed the one that was there or there was none.                       *)
Replacing(p) ==
  /\ p = saveAs
  /\ pc \in {"open", "write", "remove", "close", "rename"}
  /\ project[p] = None

(* What was last saved under a name is in a whole file: the one of that    *)
(* name, or, while Save replaces it, the new one as soon as it is closed.  *)
OnDisk(p) ==
  saved[p] # None =>
    \/ project[p] = saved[p]
    \/ Replacing(p) /\ (pc = "rename" => temporary[p] = store)

(* The steps that lose it: Create, which empties the file it finds; while  *)
(* Save has removed the old file and not yet named the new one, the death  *)
(* of the process, or Save giving up because it cannot open its temporary  *)
(* file (only a forced Save has removed anything by then).                 *)
Loses(p) ==
  \/ Create(p)
  \/ Replacing(p) /\ Die
  \/ Replacing(p) /\ SaveOpen /\ pc' = "idle"

(* No other step, and no death of the process at another place, takes what *)
(* was saved from the disk (Create, Open, Save, Load and the destructor of *)
(* BinFile, in any order).                                                 *)
SavedIsOnDisk == [][\A p \in Path : OnDisk(p) => OnDisk(p)' \/ Loses(p)]_vars

(* Save never gives a project's name to a file that is not whole.          *)
NamesHoldWholeProjects ==
  [][\A p \in Path : project'[p] = Torn => project[p] = Torn \/ NoStorage]_vars

(* Save leaves in the storage what was in it, since the file it loads is   *)
(* the one it has written; or, when Load cannot open its files, nothing,   *)
(* and then the whole content is in the file it has saved.                 *)
SaveKeepsContent ==
  [][SaveStep => \/ store' = store
                 \/ /\ store' = Empty /\ ~filesOpen'
                    /\ project'[filename] = store /\ saved'[filename] = store]_vars

(* The scratch file the storage is using, and the file Save is writing.    *)
InUse ==
  CASE pc = "scratch" -> {scratchName}
    [] pc = "load"    -> {}
    [] OTHER          -> IF filesOpen THEN {filename} ELSE {}

BeingWritten == IF pc \in {"write", "remove", "close", "rename"} THEN {saveAs} ELSE {}

(* No "~" or "~_" file is left behind by a call that returns, except the   *)
(* "~" file of a project that Open refuses; and by a process that dies.    *)
LeftBehind ==
  [scratch |-> scratch \ InUse,
   temporary |-> {p \in Path : temporary[p] # None} \ BeingWritten]

NoFilesLeftBehind ==
  [][\/ Die
     \/ /\ LeftBehind.temporary' \subseteq LeftBehind.temporary
        /\ \A p \in LeftBehind.scratch' : p \in LeftBehind.scratch \/ project[p] = Torn]_vars

================================================================================

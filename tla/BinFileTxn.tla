------------------------------- MODULE BinFileTxn ------------------------------
(***************************************************************************)
(* Transactions, pointers and the undo/redo journal of the binary storage  *)
(* (class BinFile, Core/BinFile.h and Core/BinFile.cpp).                   *)
(*                                                                         *)
(* Each public call is one action; a call that the code refuses before     *)
(* touching anything is a stutter and has no action.  Where an object      *)
(* lives (memory, input file, scratch file) is the business of             *)
(* BinFileCache: this module is the storage with its default, unlimited    *)
(* cache, in which every object stays in memory.                           *)
(*                                                                         *)
(* Left out: the MetaObject of an object (all objects have the same        *)
(* attributes), the order inside a back-pointer list, transaction tags.    *)
(* The code walks _changedAttributes in hash order; a record touches its   *)
(* own attribute and its own entry in back-pointer lists, so the walk has  *)
(* one outcome whatever the order, and it is written here as one function. *)
(***************************************************************************)
EXTENDS Integers, SequencesExt

CONSTANTS
  Uuid,         \* identities of objects
  Root,         \* the root object, made when the file is created
  Null,         \* Uuid::Null(), the pointer to nothing
  ValueAttr,    \* attributes holding plain values: long, real, string, ...
  PointerAttr,  \* attributes holding a pointer with a back-pointer list
  Value,        \* contents of plain attributes
  Zero,         \* what a plain attribute of a new object holds
  Malformed,    \* the values Set refuses: strings that are not UTF-8
  MaxUndo,      \* _maxUndoSize
  MaxEdits,     \* bound of the model: entries in the lists of a transaction
  MayDangle,    \* whether clients delete objects that others point to
  MayRedo       \* whether clients call Redo

Attr == ValueAttr \cup PointerAttr
Content(a) == IF a \in PointerAttr THEN Uuid \cup {Null} ELSE Value

ASSUME ConstantsAssumption ==
  /\ Root \in Uuid
  /\ Null \notin Uuid
  /\ ValueAttr \cap PointerAttr = {}
  /\ Value \cap (Uuid \cup {Null}) = {}
  /\ Zero \in Value
  /\ Malformed \subseteq Value \ {Zero}
  /\ MaxUndo \in Nat \ {0}
  /\ MaxEdits \in Nat \ {0}
  /\ MayDangle \in BOOLEAN
  /\ MayRedo \in BOOLEAN

VARIABLES
  indexHash,          \* live objects: uuid -> [attr, coll]
  usedUuids,          \* uuids handed out so far: a new Uuid is never one of them
  openedObject,       \* the cursor; Null when it is at _indexHash.end()
  inTransaction,      \* _inTransaction
  createdObjects,     \* uuids created in the transaction
  changedAttributes,  \* <<uuid, attribute>> -> [old, new]
  deletedObjects,     \* uuid -> object as it was when it was deleted
  isJournaling,       \* _isJournaling
  undoList,           \* committed transactions, oldest first
  redoList,           \* undone transactions, the one to redo last
  isDirty,            \* _isDirty of the storage
  fault               \* "none", or how the process died

lists == <<createdObjects, changedAttributes, deletedObjects>>
journal == <<isJournaling, undoList, redoList>>
cursor == <<openedObject, inTransaction>>
vars == <<indexHash, usedUuids, cursor, lists, journal, isDirty, fault>>

--------------------------------------------------------------------------------
(* Objects, change records and journal entries.                            *)

NoFunction == [x \in {} |-> x]

(* The functions f and g together; f counts where both say something. *)
Joined(f, g) == [x \in DOMAIN f \cup DOMAIN g |-> IF x \in DOMAIN f THEN f[x] ELSE g[x]]

Blank == [attr |-> [a \in Attr |-> IF a \in PointerAttr THEN Null ELSE Zero],
          coll |-> [a \in PointerAttr |-> {}]]

(* What an attribute can hold: a malformed string never gets in. *)
Stored(a) == Content(a) \ Malformed

Object ==
  {o \in [attr : [Attr -> Value \cup Uuid \cup {Null}],
          coll : [PointerAttr -> SUBSET Uuid]] :
      \A a \in Attr : o.attr[a] \in Stored(a)}

Store == UNION {[D -> Object] : D \in SUBSET Uuid}

Change(a) == [old : Stored(a), new : Content(a)]

Changes ==
  UNION {{c \in [D -> UNION {Change(a) : a \in Attr}] :
            \A k \in D : c[k] \in Change(k[2])} : D \in SUBSET (Uuid \X Attr)}

Entry == [created : SUBSET Uuid, changed : Changes, deleted : Store]

(* The three lists of the open transaction, as a journal entry.            *)
Transaction ==
  [created |-> createdObjects, changed |-> changedAttributes,
   deleted |-> deletedObjects]

TypeOK ==
  /\ indexHash \in Store
  /\ usedUuids \subseteq Uuid
  /\ openedObject \in DOMAIN indexHash \cup {Null}
  /\ inTransaction \in BOOLEAN
  /\ Transaction \in Entry
  /\ isJournaling \in BOOLEAN
  /\ undoList \in Seq(Entry)
  /\ redoList \in Seq(Entry)
  /\ isDirty \in BOOLEAN
  /\ fault \in {"none", "assert", "crash"}

--------------------------------------------------------------------------------
(* PointerUpdate, for a set of pointers moving at once: moves takes        *)
(* <<source, attribute>> to the object the pointer leaves and the one it   *)
(* goes to.  A move to an object that is not in the index is rejected      *)
(* before anything is changed (E_NOTFOUND); leaving an object that is not  *)
(* in the index dereferences _indexHash.end().                             *)

Accepted(store, m) == m.to \in DOMAIN store \cup {Null}
Dangles(store, m) == m.from \notin DOMAIN store \cup {Null}

PointerCrash(store, moves) ==
  \E k \in DOMAIN moves : Accepted(store, moves[k]) /\ Dangles(store, moves[k])

(* Mutant: the object the pointer leaves keeps its back-pointer. *)
LinkedTwice(store, moves, t, a, s) ==
  \/ s \in store[t].coll[a]
  \/ /\ <<s, a>> \in DOMAIN moves
     /\ Accepted(store, moves[<<s, a>>])
     /\ moves[<<s, a>>].to = t

Linked(store, moves, t, a, s) ==
  LET k == <<s, a>>
  IN  IF k \in DOMAIN moves /\ Accepted(store, moves[k])
      THEN \/ moves[k].to = t
           \/ moves[k].from # t /\ s \in store[t].coll[a]
      ELSE s \in store[t].coll[a]

PointerUpdate(store, moves) ==
  [t \in DOMAIN store |->
    [attr |-> store[t].attr,
     coll |-> [a \in PointerAttr |-> {s \in Uuid : Linked(store, moves, t, a, s)}]]]

(* The moves that bring pointers to their new contents.  Contents are      *)
(* given as a function on <<uuid, attribute>> pairs, here and below.       *)
Moves(store, contents) ==
  [k \in {k \in DOMAIN contents : k[2] \in PointerAttr} |->
     [from |-> store[k[1]].attr[k[2]], to |-> contents[k]]]

(* Set on every attribute that is given; a string that is not UTF-8 is     *)
(* refused and leaves the attribute alone.                                 *)
SetAll(store, contents) ==
  [u \in DOMAIN store |->
    [attr |-> [a \in Attr |->
                IF <<u, a>> \in DOMAIN contents /\ contents[<<u, a>>] \notin Malformed
                THEN contents[<<u, a>>] ELSE store[u].attr[a]],
     coll |-> store[u].coll]]

--------------------------------------------------------------------------------
(* TryAbortTransaction: put the deleted objects back, set every changed    *)
(* attribute to its old value, then delete the created objects.            *)

(* Mutant: the two values of a change record are confused. *)
SwappedContents(e) == [k \in DOMAIN e.changed |-> e.changed[k].new]

OldContents(e) == [k \in DOMAIN e.changed |-> e.changed[k].old]
NewContents(e) == [k \in DOMAIN e.changed |-> e.changed[k].new]

(* Mutant: the created objects stay. *)
RollbackKeepingCreated(store, e) ==
  LET whole == Joined(store, e.deleted)
      linked == PointerUpdate(whole, Moves(whole, OldContents(e)))
  IN  SetAll(linked, OldContents(e))

Rollback(store, e) ==
  LET whole == Joined(store, e.deleted)
      linked == PointerUpdate(whole, Moves(whole, OldContents(e)))
  IN  Restrict(SetAll(linked, OldContents(e)), DOMAIN whole \ e.created)

(* How it ends: the asserted lookups and the insertion fail, a pointer is  *)
(* taken off an object that is gone, or it succeeds.                       *)
RollbackOutcome(store, e) ==
  LET whole == Joined(store, e.deleted)
  IN  IF \/ DOMAIN store \cap DOMAIN e.deleted # {}
         \/ \E k \in DOMAIN e.changed : k[1] \notin DOMAIN whole
         \/ ~(e.created \subseteq DOMAIN whole)
      THEN "assert"
      ELSE IF PointerCrash(whole, Moves(whole, OldContents(e)))
           THEN "crash" ELSE "none"

(* Redo: create the created objects anew, set every changed attribute to   *)
(* its new value, then drop the deleted objects.  The back-pointers are    *)
(* moved to the OLD value of the pointer.                                  *)
Replayed(store, e) == Joined(store, [u \in e.created |-> Blank])

Replay(store, e) ==
  LET whole == Replayed(store, e)
      linked == PointerUpdate(whole, Moves(whole, OldContents(e)))
  IN  Restrict(SetAll(linked, NewContents(e)), DOMAIN whole \ DOMAIN e.deleted)

ReplayOutcome(store, e) ==
  LET whole == Replayed(store, e)
  IN  IF \/ DOMAIN store \cap e.created # {}
         \/ \E k \in DOMAIN e.changed : k[1] \notin DOMAIN whole
      THEN "assert"
      ELSE IF PointerCrash(whole, Moves(whole, OldContents(e)))
           THEN "crash" ELSE "none"

IsEmpty(e) == e.created = {} /\ DOMAIN e.changed = {} /\ DOMAIN e.deleted = {}

--------------------------------------------------------------------------------
(* The storage starts as Create leaves it, with the root object made in a  *)
(* transaction that is not journaled, or as Open finds that project again. *)
Init ==
  /\ indexHash = [u \in {Root} |-> Blank]
  /\ usedUuids = {Root}
  /\ openedObject = Null
  /\ inTransaction = FALSE
  /\ createdObjects = {}
  /\ changedAttributes = NoFunction
  /\ deletedObjects = NoFunction
  /\ isJournaling = TRUE
  /\ undoList = << >>
  /\ redoList = << >>
  /\ isDirty \in BOOLEAN
  /\ fault = "none"

Running == fault = "none"

(* The process dies inside a call. *)
Die(how) ==
  /\ fault' = how
  /\ UNCHANGED <<indexHash, usedUuids, cursor, lists, journal, isDirty>>

(* Mutant: the list of deleted objects is forgotten. *)
ClearTwoLists ==
  /\ createdObjects' = {}
  /\ changedAttributes' = NoFunction
  /\ UNCHANGED deletedObjects

ClearLists ==
  /\ createdObjects' = {}
  /\ changedAttributes' = NoFunction
  /\ deletedObjects' = NoFunction

BeginTransaction ==
  /\ Running
  /\ ~inTransaction
  /\ inTransaction' = TRUE
  /\ openedObject' = Null
  /\ UNCHANGED <<indexHash, usedUuids, lists, journal, isDirty, fault>>

(* Mutant: only the redo list is dropped. *)
FlushRedo(n) ==
  /\ UNCHANGED undoList
  /\ redoList' = << >>

(* FlushUndoRedo: drop the oldest entries, and always the whole redo list. *)
FlushUndoRedo(n) ==
  /\ undoList' = SubSeq(undoList, n + 1, Len(undoList))
  /\ redoList' = << >>

(* Mutant: the undo list is not trimmed. *)
JournalUntrimmed(e) ==
  /\ undoList' = Append(undoList, e)
  /\ redoList' = << >>

(* Mutant: what was undone can still be redone. *)
JournalKeepingRedo(e) ==
  LET n == IF Len(undoList) = MaxUndo THEN 1 ELSE 0
  IN  /\ undoList' = Append(SubSeq(undoList, n + 1, Len(undoList)), e)
      /\ UNCHANGED redoList

(* FlushUndoRedo, then PickleTransaction at the back of the undo list.     *)
Journal(e) ==
  LET n == IF Len(undoList) = MaxUndo THEN 1 ELSE 0
  IN  /\ undoList' = Append(SubSeq(undoList, n + 1, Len(undoList)), e)
      /\ redoList' = << >>

CommitTransaction ==
  /\ Running
  /\ inTransaction
  /\ IF IsEmpty(Transaction)
     THEN UNCHANGED <<undoList, redoList, isDirty>>
     ELSE /\ isDirty' = TRUE
          /\ IF isJournaling THEN Journal(Transaction)
             ELSE UNCHANGED <<undoList, redoList>>
  /\ ClearLists
  /\ openedObject' = Null
  /\ inTransaction' = FALSE
  /\ UNCHANGED <<indexHash, usedUuids, isJournaling, fault>>

AbortTransaction ==
  /\ Running
  /\ inTransaction
  /\ LET outcome == RollbackOutcome(indexHash, Transaction)
     IN  IF outcome # "none" THEN Die(outcome)
         ELSE /\ indexHash' = Rollback(indexHash, Transaction)
              /\ ClearLists
              /\ openedObject' = Null
              /\ inTransaction' = FALSE
              /\ UNCHANGED <<usedUuids, journal, isDirty, fault>>

--------------------------------------------------------------------------------
(* The cursor.                                                             *)

(* Mutant: the result of the lookup is not looked at. *)
OpenUnknown(u) ==
  /\ Running
  /\ inTransaction
  /\ openedObject' = u
  /\ UNCHANGED <<indexHash, usedUuids, inTransaction, lists, journal, isDirty, fault>>

(* An unknown uuid closes the open object and answers E_NOTFOUND. *)
OpenObject(u) ==
  /\ Running
  /\ inTransaction
  /\ openedObject' = IF u \in DOMAIN indexHash THEN u ELSE Null
  /\ UNCHANGED <<indexHash, usedUuids, inTransaction, lists, journal, isDirty, fault>>

CloseObject ==
  /\ Running
  /\ inTransaction
  /\ openedObject' = Null
  /\ UNCHANGED <<indexHash, usedUuids, inTransaction, lists, journal, isDirty, fault>>

TxnHasRoom ==
  Cardinality(createdObjects) + Cardinality(DOMAIN changedAttributes)
    + Cardinality(DOMAIN deletedObjects) < MaxEdits

CreateObject(u) ==
  /\ Running
  /\ inTransaction
  /\ u \notin usedUuids
  /\ TxnHasRoom
  /\ indexHash' = Joined([x \in {u} |-> Blank], indexHash)
  /\ usedUuids' = usedUuids \cup {u}
  /\ createdObjects' = createdObjects \cup {u}
  /\ openedObject' = u
  /\ UNCHANGED <<inTransaction, changedAttributes, deletedObjects, journal, isDirty, fault>>

(* Mutant: a later record forgets the value before the transaction. *)
RecordedLast(A, c) ==
  Joined([k \in {openedObject} \X A |->
            [old |-> indexHash[openedObject].attr[k[2]], new |-> c]],
         changedAttributes)

(* The change list after the opened object's attributes A take content c:  *)
(* a first record keeps the value before, a later one only the value after.*)
Recorded(A, c) ==
  Joined([k \in {openedObject} \X A |->
            [old |-> IF k \in DOMAIN changedAttributes THEN changedAttributes[k].old
                     ELSE indexHash[openedObject].attr[k[2]],
             new |-> c]],
         changedAttributes)

(* A value of the type of the attribute, other than the current one.  The  *)
(* new value is recorded, and the answer is S_OK, even when Set refuses it.*)
SetAttributeValue(a, v) ==
  /\ Running
  /\ inTransaction
  /\ openedObject # Null
  /\ indexHash[openedObject].attr[a] # v
  /\ TxnHasRoom \/ <<openedObject, a>> \in DOMAIN changedAttributes
  /\ indexHash' = SetAll(indexHash, [k \in {<<openedObject, a>>} |-> v])
  /\ changedAttributes' = Recorded({a}, v)
  /\ isDirty' = TRUE
  /\ UNCHANGED <<usedUuids, cursor, createdObjects, deletedObjects, journal, fault>>

SetPointerValue(a, t) ==
  /\ Running
  /\ inTransaction
  /\ openedObject # Null
  /\ indexHash[openedObject].attr[a] # t
  /\ TxnHasRoom \/ <<openedObject, a>> \in DOMAIN changedAttributes
  /\ t \in DOMAIN indexHash \cup {Null}
  /\ LET target == [k \in {<<openedObject, a>>} |-> t]
         moves == Moves(indexHash, target)
     IN  IF PointerCrash(indexHash, moves) THEN Die("crash")
         ELSE /\ indexHash' = SetAll(PointerUpdate(indexHash, moves), target)
              /\ changedAttributes' = Recorded({a}, t)
              /\ isDirty' = TRUE
              /\ UNCHANGED <<usedUuids, cursor, createdObjects, deletedObjects, journal, fault>>

(* The pointers of a deleted object are first set to Null, like any change;*)
(* pointers of other objects to it, and its back-pointer lists, stay.      *)
PointedTo(u) ==
  \E s \in DOMAIN indexHash \ {u}, a \in PointerAttr : indexHash[s].attr[a] = u

DeleteObject ==
  LET u == openedObject
      A == {a \in PointerAttr : indexHash[u].attr[a] # Null}
      nulls == [k \in {u} \X A |-> Null]
      moves == Moves(indexHash, nulls)
      nulled == SetAll(PointerUpdate(indexHash, moves), nulls)
  IN  /\ Running
      /\ inTransaction
      /\ u \notin {Null, Root}
      /\ TxnHasRoom
      /\ MayDangle \/ ~PointedTo(u)
      /\ IF PointerCrash(indexHash, moves) THEN Die("crash")
         ELSE /\ indexHash' = Restrict(nulled, DOMAIN indexHash \ {u})
              /\ deletedObjects' = Joined([x \in {u} |-> nulled[u]], deletedObjects)
              /\ changedAttributes' = Recorded(A, Null)
              /\ isDirty' = (isDirty \/ A # {})
              /\ openedObject' = Null
              /\ UNCHANGED <<usedUuids, inTransaction, createdObjects, journal, fault>>

--------------------------------------------------------------------------------
(* The journal.                                                            *)

Undo ==
  /\ Running
  /\ ~inTransaction
  /\ undoList # << >>
  /\ LET e == Last(undoList)
         outcome == RollbackOutcome(indexHash, e)
     IN  IF outcome # "none" THEN Die(outcome)
         ELSE /\ indexHash' = Rollback(indexHash, e)
              /\ undoList' = Front(undoList)
              /\ redoList' = Append(redoList, e)
              /\ isDirty' = TRUE
              /\ UNCHANGED <<usedUuids, cursor, lists, isJournaling, fault>>

Redo ==
  /\ Running
  /\ MayRedo
  /\ ~inTransaction
  /\ redoList # << >>
  /\ LET e == Last(redoList)
         outcome == ReplayOutcome(indexHash, e)
     IN  IF outcome # "none" THEN Die(outcome)
         ELSE /\ indexHash' = Replay(indexHash, e)
              /\ redoList' = Front(redoList)
              /\ undoList' = Append(undoList, e)
              /\ isDirty' = TRUE
              /\ UNCHANGED <<usedUuids, cursor, lists, isJournaling, fault>>

(* Save commits the open transaction, writes the objects and the undo list *)
(* to a file and loads it again: the redo list is not written.  The steps  *)
(* of writing the file are in BinFileSave.                                 *)
Save ==
  /\ Running
  /\ IF inTransaction /\ isJournaling /\ ~IsEmpty(Transaction)
     THEN Journal(Transaction)
     ELSE UNCHANGED undoList /\ redoList' = << >>
  /\ isDirty' = (isDirty \/ ~IsEmpty(Transaction))
  /\ ClearLists
  /\ openedObject' = Null
  /\ inTransaction' = FALSE
  /\ UNCHANGED <<indexHash, usedUuids, isJournaling, fault>>

(* Journaling can be turned on and off at any time, inside a transaction too. *)
EnableJournaling ==
  /\ Running
  /\ isJournaling' = TRUE
  /\ UNCHANGED <<indexHash, usedUuids, cursor, lists, undoList, redoList, isDirty, fault>>

DisableJournaling ==
  /\ Running
  /\ isJournaling
  /\ isJournaling' = FALSE
  /\ FlushUndoRedo(Len(undoList))
  /\ UNCHANGED <<indexHash, usedUuids, cursor, lists, isDirty, fault>>

Next ==
  \/ BeginTransaction
  \/ CommitTransaction
  \/ AbortTransaction
  \/ \E u \in Uuid : OpenObject(u)
  \/ \E u \in Uuid : CreateObject(u)
  \/ CloseObject
  \/ DeleteObject
  \/ \E a \in ValueAttr, v \in Value : SetAttributeValue(a, v)
  \/ \E a \in PointerAttr, t \in Uuid \cup {Null} : SetPointerValue(a, t)
  \/ Undo
  \/ Redo
  \/ Save
  \/ EnableJournaling
  \/ DisableJournaling

Spec == Init /\ [][Next]_vars

--------------------------------------------------------------------------------
(* Properties.                                                             *)

(* What a client can read: the attributes of every live object.            *)
View == [u \in DOMAIN indexHash |-> indexHash[u].attr]

(* A view with the transaction e taken back, and with it done again.       *)
Backward(v, e) ==
  LET whole == Joined(v, [u \in DOMAIN e.deleted |-> e.deleted[u].attr])
  IN  [u \in DOMAIN whole \ e.created |->
        [a \in Attr |-> IF <<u, a>> \in DOMAIN e.changed
                        THEN e.changed[<<u, a>>].old ELSE whole[u][a]]]

Forward(v, e) ==
  LET whole == Joined(v, [u \in e.created |-> Blank.attr])
  IN  [u \in DOMAIN whole \ DOMAIN e.deleted |->
        [a \in Attr |-> IF <<u, a>> \in DOMAIN e.changed
                        THEN e.changed[<<u, a>>].new ELSE whole[u][a]]]

(* What the client would read had the open transaction never been started. *)
Committed == Backward(View, Transaction)

(* Taking the journal back entry by entry, and the redo list forward.      *)
Past ==
  LET n == Len(undoList)
      P[i \in 1..n] == Backward(IF i = n THEN Committed ELSE P[i + 1], undoList[i])
  IN  P

Future ==
  LET n == Len(redoList)
      F[i \in 1..n] == Forward(IF i = n THEN Committed ELSE F[i + 1], redoList[i])
  IN  F

Storage == INSTANCE CoreStorage WITH
  Contents <- Value \cup Uuid \cup {Null},
  Blank <- Blank.attr,
  store <- View,
  base <- Committed,
  past <- Past,
  future <- Future

(* BinFile keeps the promise of ICoreStorage: change lists and pickled     *)
(* journal entries stand for the store at BeginTransaction and for the     *)
(* whole line of stores that Undo and Redo step through, in whatever order *)
(* calls come, with journaling switched on and off in between.             *)
ImplementsCoreStorage == Storage!Spec

(* The back-pointer list of an object names exactly the live objects that  *)
(* point to it (PointerUpdate keeps both ends together, also in abort and  *)
(* undo).                                                                  *)
BackPointersMatch ==
  \A t \in DOMAIN indexHash, a \in PointerAttr :
    indexHash[t].coll[a] = {s \in DOMAIN indexHash : indexHash[s].attr[a] = t}

(* The pointers to objects that are not there.                             *)
DanglingPointers ==
  {k \in (DOMAIN indexHash) \X PointerAttr :
     indexHash[k[1]].attr[k[2]] \notin DOMAIN indexHash \cup {Null}}

(* Pointers come to dangle only because what they lead to is deleted.  Its *)
(* comment says that DeleteObject cleans up the pointers to the object; it *)
(* does not, and neither does Redo, which deletes it again.  But no abort, *)
(* undo, Save or change of another object ever takes away an object and    *)
(* leaves a pointer to it, or brings back a pointer to what is gone.       *)
OnlyDeletionDangles ==
  [][\A k \in DanglingPointers' \ DanglingPointers :
       LET gone == indexHash'[k[1]].attr[k[2]]
       IN  \/ DeleteObject /\ gone = openedObject
           \/ Redo /\ gone \in DOMAIN Last(redoList).deleted]_vars

(* The change lists describe the store: what was deleted is gone, and what *)
(* was created or changed is either there or among the deleted; between    *)
(* transactions the lists are empty and no object is open.                 *)
ListsMatchStore ==
  /\ DOMAIN indexHash \cap DOMAIN deletedObjects = {}
  /\ createdObjects \subseteq DOMAIN indexHash \cup DOMAIN deletedObjects
  /\ \A k \in DOMAIN changedAttributes : k[1] \in DOMAIN indexHash \cup DOMAIN deletedObjects
  /\ ~inTransaction => IsEmpty(Transaction) /\ openedObject = Null

(* Every uuid in the store, the change lists and the journal was handed    *)
(* out, so a new one is foreign to all of them.                            *)
UuidsAreUsed ==
  /\ DOMAIN indexHash \cup DOMAIN deletedObjects \cup createdObjects \subseteq usedUuids
  /\ \A list \in {undoList, redoList} : \A i \in 1..Len(list) :
       list[i].created \cup DOMAIN list[i].deleted \subseteq usedUuids

(* No ASSERT of TryAbortTransaction or Redo fails: whatever the order of   *)
(* calls, the objects an entry needs are there when it is taken back or    *)
(* redone, and those it puts back are not.                                 *)
AssertionsHold == fault # "assert"

(* No call ever goes through a pointer to an object that is gone.          *)
NeverDies == fault = "none"

(* Undo, redo and trimming together never remember more than MaxUndo       *)
(* transactions (redo pushes on the undo list without trimming it).        *)
JournalBounded == Len(undoList) + Len(redoList) <= MaxUndo

(* Transactions are atomic: nothing done in one changes what an abort      *)
(* would go back to, and an abort does go back to it, with deleted objects *)
(* returned, created ones gone and first old values restored.              *)
TransactionsAreAtomic ==
  [][/\ inTransaction /\ inTransaction' => Committed' = Committed
     /\ AbortTransaction /\ fault' = "none" => View' = Committed
     /\ BeginTransaction => Committed' = View]_vars

================================================================================

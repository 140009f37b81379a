---------------------------- MODULE BinFileTxnProofs ---------------------------
(***************************************************************************)
(* Proofs about BinFileTxn, for every set of objects, attributes and       *)
(* values, every length of the undo list and every bound on a transaction: *)
(* the types and the change lists (IInv), atomicity, the journal as a line *)
(* of sets of objects (Lines), pointers along that line (SoundInv), and    *)
(* the implementation of CoreStorage, with the journal as a line of stores *)
(* (StoryInv).                                                             *)
(***************************************************************************)
EXTENDS BinFileTxn, FoldLemmas, SequenceTheorems, TLAPS

--------------------------------------------------------------------------------
(* Stores, contents and entries.                                           *)

(* A store is a function from a set of uuids to objects. *)
LEMMA StoreElim ==
  ASSUME NEW s \in Store
  PROVE  s \in [DOMAIN s -> Object] /\ DOMAIN s \subseteq Uuid
BY DEF Store

LEMMA StoreIntro ==
  ASSUME NEW D \in SUBSET Uuid, NEW s \in [D -> Object]
  PROVE  s \in Store
BY DEF Store

(* The parts of an object. *)
LEMMA ObjectElim ==
  ASSUME NEW o \in Object
  PROVE  /\ o.attr \in [Attr -> Value \cup Uuid \cup {Null}]
         /\ o.coll \in [PointerAttr -> SUBSET Uuid]
         /\ \A a \in Attr : o.attr[a] \in Stored(a)
BY DEF Object

LEMMA ObjectIntro ==
  ASSUME NEW f, NEW g,
         f = [a \in Attr |-> f[a]],
         \A a \in Attr : f[a] \in Stored(a),
         g \in [PointerAttr -> SUBSET Uuid]
  PROVE  [attr |-> f, coll |-> g] \in Object
<1>1. \A a \in Attr : Stored(a) \subseteq Value \cup Uuid \cup {Null}
  BY DEF Stored, Content
<1>2. f \in [Attr -> Value \cup Uuid \cup {Null}]
  BY <1>1
<1> QED
  BY <1>2 DEF Object

(* A new object is one, and restricting or joining stores gives stores. *)
LEMMA BlankIsObject == Blank \in Object
<1>1. \A a \in Attr : (IF a \in PointerAttr THEN Null ELSE Zero) \in Stored(a)
  BY ConstantsAssumption DEF Stored, Content, Attr
<1> QED
  BY <1>1, ObjectIntro DEF Blank

LEMMA RestrictIsStore ==
  ASSUME NEW s \in Store, NEW D \in SUBSET DOMAIN s
  PROVE  Restrict(s, D) \in Store /\ DOMAIN Restrict(s, D) = D
BY StoreElim, StoreIntro DEF Restrict

LEMMA JoinIsStore ==
  ASSUME NEW s \in Store, NEW t \in Store
  PROVE  /\ Joined(s, t) \in Store
         /\ DOMAIN Joined(s, t) = DOMAIN s \cup DOMAIN t
         /\ \A u \in DOMAIN s : Joined(s, t)[u] = s[u]
         /\ \A u \in DOMAIN t \ DOMAIN s : Joined(s, t)[u] = t[u]
<1>1. Joined(s, t) \in [DOMAIN s \cup DOMAIN t -> Object]
  BY StoreElim DEF Joined
<1>2. DOMAIN s \cup DOMAIN t \subseteq Uuid
  BY StoreElim
<1>3. Joined(s, t) \in Store
  BY <1>1, <1>2, StoreIntro
<1> QED
  BY <1>3 DEF Joined

LEMMA SingletonIsStore ==
  ASSUME NEW u \in Uuid, NEW o \in Object
  PROVE  [x \in {u} |-> o] \in Store
BY StoreIntro

(* PointerUpdate changes back-pointer lists only. *)
LEMMA PointerUpdateKeepsAttributes ==
  ASSUME NEW s \in Store, NEW m
  PROVE  /\ PointerUpdate(s, m) \in Store
         /\ DOMAIN PointerUpdate(s, m) = DOMAIN s
         /\ \A u \in DOMAIN s : PointerUpdate(s, m)[u].attr = s[u].attr
<1> DEFINE coll(t) == [a \in PointerAttr |-> {x \in Uuid : Linked(s, m, t, a, x)}]
<1>1. ASSUME NEW t \in DOMAIN s
      PROVE  [attr |-> s[t].attr, coll |-> coll(t)] \in Object
  <2>1. s[t] \in Object
    BY StoreElim
  <2>2. s[t].attr = [a \in Attr |-> s[t].attr[a]] /\ \A a \in Attr : s[t].attr[a] \in Stored(a)
    BY <2>1, ObjectElim
  <2>3. coll(t) \in [PointerAttr -> SUBSET Uuid]
    OBVIOUS
  <2> QED
    BY <2>2, <2>3, ObjectIntro
<1>2. PointerUpdate(s, m) = [t \in DOMAIN s |-> [attr |-> s[t].attr, coll |-> coll(t)]]
  BY DEF PointerUpdate
<1> HIDE DEF coll
<1>3. PointerUpdate(s, m) \in [DOMAIN s -> Object]
  BY <1>1, <1>2
<1>4. DOMAIN s \in SUBSET Uuid
  BY StoreElim
<1> QED
  BY <1>2, <1>3, <1>4, StoreIntro

(* SetAll sets what it is given, where it is given. *)
LEMMA SetAllSets ==
  ASSUME NEW s \in Store, NEW c,
         DOMAIN c \subseteq Uuid \X Attr,
         \A k \in DOMAIN c : c[k] \in Content(k[2])
  PROVE  /\ SetAll(s, c) \in Store
         /\ DOMAIN SetAll(s, c) = DOMAIN s
         /\ \A u \in DOMAIN s, a \in Attr :
              SetAll(s, c)[u].attr[a] =
                IF <<u, a>> \in DOMAIN c /\ c[<<u, a>>] \notin Malformed
                THEN c[<<u, a>>] ELSE s[u].attr[a]
<1> DEFINE attr(u) == [a \in Attr |->
                         IF <<u, a>> \in DOMAIN c /\ c[<<u, a>>] \notin Malformed
                         THEN c[<<u, a>>] ELSE s[u].attr[a]]
<1>1. ASSUME NEW u \in DOMAIN s
      PROVE  [attr |-> attr(u), coll |-> s[u].coll] \in Object
  <2>1. s[u] \in Object
    BY StoreElim
  <2>2. ASSUME NEW a \in Attr, <<u, a>> \in DOMAIN c, c[<<u, a>>] \notin Malformed
        PROVE  c[<<u, a>>] \in Stored(a)
    BY <2>2 DEF Stored
  <2>3. \A a \in Attr : attr(u)[a] \in Stored(a)
    BY <2>1, <2>2, ObjectElim
  <2>4. s[u].coll \in [PointerAttr -> SUBSET Uuid]
    BY <2>1, ObjectElim
  <2> HIDE DEF attr
  <2>5. attr(u) = [a \in Attr |-> attr(u)[a]]
    BY DEF attr
  <2> QED
    BY <2>3, <2>4, <2>5, ObjectIntro
<1>2. SetAll(s, c) = [u \in DOMAIN s |-> [attr |-> attr(u), coll |-> s[u].coll]]
  BY DEF SetAll
<1>3. SetAll(s, c) \in [DOMAIN s -> Object]
  <2> HIDE DEF attr
  <2> QED
    BY <1>1, <1>2
<1>4. SetAll(s, c) \in Store
  <2>1. DOMAIN s \in SUBSET Uuid
    BY StoreElim
  <2> QED
    BY <1>3, <2>1, StoreIntro
<1>5. \A u \in DOMAIN s : SetAll(s, c)[u].attr = attr(u)
  <2> HIDE DEF attr
  <2> QED
    BY <1>2
<1>6. DOMAIN SetAll(s, c) = DOMAIN s
  BY DEF SetAll
<1> QED
  BY <1>4, <1>5, <1>6

LEMMA SetAllElsewhere ==
  ASSUME NEW s \in Store, NEW c,
         DOMAIN c \subseteq Uuid \X Attr,
         \A k \in DOMAIN c : c[k] \in Content(k[2]),
         NEW u \in DOMAIN s, NEW a \in Attr, <<u, a>> \notin DOMAIN c
  PROVE  SetAll(s, c)[u].attr[a] = s[u].attr[a]
BY SetAllSets

(* Change lists and journal entries. *)
LEMMA ChangesElim ==
  ASSUME NEW c \in Changes
  PROVE  /\ DOMAIN c \subseteq Uuid \X Attr
         /\ c = [k \in DOMAIN c |-> c[k]]
         /\ \A k \in DOMAIN c : c[k] \in Change(k[2])
         /\ \A k \in DOMAIN c : c[k].old \in Stored(k[2]) /\ c[k].new \in Content(k[2])
<1>1. /\ DOMAIN c \subseteq Uuid \X Attr
      /\ c = [k \in DOMAIN c |-> c[k]]
      /\ \A k \in DOMAIN c : c[k] \in Change(k[2])
  BY DEF Changes
<1> QED
  BY <1>1 DEF Change

LEMMA ChangesIntro ==
  ASSUME NEW D \in SUBSET (Uuid \X Attr), NEW c,
         c = [k \in D |-> c[k]],
         \A k \in D : c[k] \in Change(k[2])
  PROVE  c \in Changes
<1>1. \A k \in D : k[2] \in Attr
  OBVIOUS
<1>2. c \in [D -> UNION {Change(a) : a \in Attr}]
  BY <1>1
<1> QED
  BY <1>2 DEF Changes

LEMMA EntryElim ==
  ASSUME NEW e \in Entry
  PROVE  e.created \subseteq Uuid /\ e.changed \in Changes /\ e.deleted \in Store
BY DEF Entry

LEMMA ContentsOfEntry ==
  ASSUME NEW e \in Entry
  PROVE  /\ DOMAIN OldContents(e) = DOMAIN e.changed
         /\ DOMAIN NewContents(e) = DOMAIN e.changed
         /\ DOMAIN e.changed \subseteq Uuid \X Attr
         /\ \A k \in DOMAIN e.changed : OldContents(e)[k] = e.changed[k].old
         /\ \A k \in DOMAIN e.changed : OldContents(e)[k] \in Stored(k[2])
         /\ \A k \in DOMAIN e.changed : OldContents(e)[k] \in Content(k[2])
         /\ \A k \in DOMAIN e.changed : NewContents(e)[k] \in Content(k[2])
<1>1. e.changed \in Changes
  BY EntryElim
<1>2. /\ DOMAIN e.changed \subseteq Uuid \X Attr
      /\ \A k \in DOMAIN e.changed :
           e.changed[k].old \in Stored(k[2]) /\ e.changed[k].new \in Content(k[2])
  BY <1>1, ChangesElim
<1>3. \A a : Stored(a) \subseteq Content(a)
  BY DEF Stored
<1> QED
  BY <1>2, <1>3 DEF OldContents, NewContents

(* What TryAbortTransaction leaves: every object that was there or had     *)
(* been deleted, without the created ones, with the old contents back.     *)
LEMMA RollbackRestores ==
  ASSUME NEW s \in Store, NEW e \in Entry
  PROVE  /\ Rollback(s, e) \in Store
         /\ DOMAIN Rollback(s, e) = (DOMAIN s \cup DOMAIN e.deleted) \ e.created
         /\ \A u \in DOMAIN Rollback(s, e), a \in Attr :
              Rollback(s, e)[u].attr[a] =
                IF <<u, a>> \in DOMAIN e.changed THEN e.changed[<<u, a>>].old
                ELSE Joined(s, e.deleted)[u].attr[a]
<1> DEFINE whole == Joined(s, e.deleted)
           linked == PointerUpdate(whole, Moves(whole, OldContents(e)))
           set == SetAll(linked, OldContents(e))
<1>1. whole \in Store /\ DOMAIN whole = DOMAIN s \cup DOMAIN e.deleted
  BY EntryElim, JoinIsStore
<1> HIDE DEF whole
<1>2. /\ linked \in Store
      /\ DOMAIN linked = DOMAIN whole
      /\ \A u \in DOMAIN whole : linked[u].attr = whole[u].attr
  BY <1>1, PointerUpdateKeepsAttributes
<1> HIDE DEF linked
<1>3. /\ set \in Store
      /\ DOMAIN set = DOMAIN linked
      /\ \A u \in DOMAIN linked, a \in Attr :
           set[u].attr[a] =
             IF <<u, a>> \in DOMAIN OldContents(e) /\ OldContents(e)[<<u, a>>] \notin Malformed
             THEN OldContents(e)[<<u, a>>] ELSE linked[u].attr[a]
  <2> HIDE DEF set
  <2>1. /\ DOMAIN OldContents(e) \subseteq Uuid \X Attr
        /\ \A k \in DOMAIN OldContents(e) : OldContents(e)[k] \in Content(k[2])
    BY ContentsOfEntry
  <2> QED
    BY <1>2, <2>1, SetAllSets DEF set
<1>4. \A k \in DOMAIN e.changed : OldContents(e)[k] \notin Malformed
  BY ContentsOfEntry DEF Stored
<1> HIDE DEF set
<1>5. Rollback(s, e) = Restrict(set, DOMAIN whole \ e.created)
  BY DEF Rollback, set, linked, whole
<1>6. Rollback(s, e) \in Store /\ DOMAIN Rollback(s, e) = DOMAIN whole \ e.created
  BY <1>2, <1>3, <1>5, RestrictIsStore
<1>7. ASSUME NEW u \in DOMAIN whole \ e.created, NEW a \in Attr
      PROVE  Rollback(s, e)[u].attr[a] =
               IF <<u, a>> \in DOMAIN e.changed THEN e.changed[<<u, a>>].old
               ELSE whole[u].attr[a]
  <2>1. Rollback(s, e)[u] = set[u]
    BY <1>5 DEF Restrict
  <2>2. linked[u].attr = whole[u].attr
    BY <1>2
  <2> QED
    BY <2>1, <2>2, <1>2, <1>3, <1>4, ContentsOfEntry
<1> QED
  BY <1>1, <1>6, <1>7 DEF whole

(* Redo leaves a store: the objects that were there or are created anew,   *)
(* without the deleted ones.                                               *)
LEMMA ReplayIsStore ==
  ASSUME NEW s \in Store, NEW e \in Entry
  PROVE  /\ Replay(s, e) \in Store
         /\ DOMAIN Replay(s, e) = (DOMAIN s \cup e.created) \ DOMAIN e.deleted
<1> DEFINE whole == Replayed(s, e)
           linked == PointerUpdate(whole, Moves(whole, OldContents(e)))
           set == SetAll(linked, NewContents(e))
<1>1. whole \in Store /\ DOMAIN whole = DOMAIN s \cup e.created
  <2>1. [u \in e.created |-> Blank] \in Store
    BY BlankIsObject, EntryElim, StoreIntro
  <2> QED
    BY <2>1, JoinIsStore DEF Replayed
<1> HIDE DEF whole
<1>2. linked \in Store /\ DOMAIN linked = DOMAIN whole
  BY <1>1, PointerUpdateKeepsAttributes
<1> HIDE DEF linked
<1>3. set \in Store /\ DOMAIN set = DOMAIN linked
  BY <1>2, ContentsOfEntry, SetAllSets
<1> HIDE DEF set
<1>4. Replay(s, e) = Restrict(set, DOMAIN whole \ DOMAIN e.deleted)
  BY DEF Replay, set, linked, whole
<1> QED
  BY <1>1, <1>2, <1>3, <1>4, RestrictIsStore

--------------------------------------------------------------------------------
(* The inductive invariant.                                                *)

IInv == TypeOK /\ ListsMatchStore /\ UuidsAreUsed

LEMMA EmptyLists ==
  /\ NoFunction \in Changes /\ DOMAIN NoFunction = {}
  /\ NoFunction \in Store
<1>1. DOMAIN NoFunction = {}
  BY DEF NoFunction
<1>2. NoFunction \in Store
  <2>1. NoFunction \in [{} -> Object]
    BY DEF NoFunction
  <2>2. {} \in SUBSET Uuid
    OBVIOUS
  <2> QED
    BY <2>1, <2>2 DEF Store
<1>3. NoFunction \in Changes
  <2>1. {} \in SUBSET (Uuid \X Attr)
    OBVIOUS
  <2>2. NoFunction = [k \in {} |-> NoFunction[k]]
    BY DEF NoFunction
  <2> QED
    BY <2>1, <2>2, ChangesIntro
<1> QED
  BY <1>1, <1>2, <1>3

LEMMA InitIInv == Init => IInv
<1> SUFFICES ASSUME Init PROVE IInv
  OBVIOUS
<1> USE DEF Init
<1>1. indexHash \in Store /\ DOMAIN indexHash = {Root}
  BY ConstantsAssumption, BlankIsObject, SingletonIsStore
<1>2. Transaction \in Entry
  BY EmptyLists DEF Transaction, Entry
<1>3. undoList \in Seq(Entry) /\ redoList \in Seq(Entry)
  OBVIOUS
<1>4. TypeOK
  <2>1. isDirty \in BOOLEAN /\ isJournaling \in BOOLEAN /\ inTransaction \in BOOLEAN
    OBVIOUS
  <2>2. usedUuids \subseteq Uuid
    BY ConstantsAssumption
  <2>3. openedObject \in DOMAIN indexHash \cup {Null} /\ fault \in {"none", "assert", "crash"}
    OBVIOUS
  <2> HIDE DEF Init
  <2> QED
    BY <1>1, <1>2, <1>3, <2>1, <2>2, <2>3 DEF TypeOK
<1>5. ListsMatchStore
  BY EmptyLists DEF ListsMatchStore, IsEmpty, Transaction
<1>6. UuidsAreUsed
  BY <1>1, EmptyLists DEF UuidsAreUsed
<1> QED
  BY <1>4, <1>5, <1>6 DEF IInv

LEMMA TransactionElim ==
  ASSUME TypeOK
  PROVE  /\ createdObjects \subseteq Uuid
         /\ changedAttributes \in Changes
         /\ deletedObjects \in Store
BY DEF TypeOK, Transaction, Entry

(* What SetAttributeValue records about the open object. *)
LEMMA RecordedIsChanges ==
  ASSUME TypeOK, openedObject \in DOMAIN indexHash,
         NEW A \in SUBSET Attr, NEW c, \A a \in A : c \in Content(a)
  PROVE  /\ Recorded(A, c) \in Changes
         /\ DOMAIN Recorded(A, c) = ({openedObject} \X A) \cup DOMAIN changedAttributes
         /\ \A k \in DOMAIN Recorded(A, c) :
              Recorded(A, c)[k].old =
                IF k \in DOMAIN changedAttributes THEN changedAttributes[k].old
                ELSE indexHash[openedObject].attr[k[2]]
<1> DEFINE K == {openedObject} \X A
           D == K \cup DOMAIN changedAttributes
           old(k) == IF k \in DOMAIN changedAttributes THEN changedAttributes[k].old
                     ELSE indexHash[openedObject].attr[k[2]]
<1>1. Recorded(A, c) = [k \in D |-> IF k \in K THEN [old |-> old(k), new |-> c]
                                                ELSE changedAttributes[k]]
  BY DEF Recorded, Joined
<1>2. openedObject \in Uuid /\ indexHash[openedObject] \in Object
  BY StoreElim DEF TypeOK
<1>3. changedAttributes \in Changes
  BY TransactionElim
<1>4. D \in SUBSET (Uuid \X Attr)
  BY <1>2, <1>3, ChangesElim
<1>5. ASSUME NEW k \in K
      PROVE  old(k) \in Stored(k[2]) /\ c \in Content(k[2])
  <2>1. k[2] \in A /\ k[2] \in Attr
    OBVIOUS
  <2>2. indexHash[openedObject].attr[k[2]] \in Stored(k[2])
    BY <1>2, <2>1, ObjectElim
  <2> QED
    BY <1>3, <2>1, <2>2, ChangesElim
<1>6. \A k \in D : Recorded(A, c)[k] \in Change(k[2]) /\ Recorded(A, c)[k].old = old(k)
  <2> HIDE DEF D, K
  <2>1. ASSUME NEW k \in D, k \in K
        PROVE  Recorded(A, c)[k] \in Change(k[2]) /\ Recorded(A, c)[k].old = old(k)
    BY <1>1, <1>5, <2>1 DEF Change
  <2>2. ASSUME NEW k \in D, k \notin K
        PROVE  Recorded(A, c)[k] \in Change(k[2]) /\ Recorded(A, c)[k].old = old(k)
    <3>1. k \in DOMAIN changedAttributes
      BY <2>2 DEF D
    <3> QED
      BY <1>1, <1>3, <2>2, <3>1, ChangesElim
  <2> QED
    BY <2>1, <2>2
<1> HIDE DEF D, K, old
<1>7. DOMAIN Recorded(A, c) = D /\ Recorded(A, c) = [k \in D |-> Recorded(A, c)[k]]
  BY <1>1
<1>8. Recorded(A, c) \in Changes
  BY <1>4, <1>6, <1>7, ChangesIntro
<1> QED
  BY <1>6, <1>7, <1>8 DEF D, K, old

--------------------------------------------------------------------------------
(* Each action preserves the inductive invariant.                          *)

(* A step that leaves the store, the cursor, the lists and the journal. *)
LEMMA StutterIInv ==
  ASSUME IInv, UNCHANGED <<indexHash, usedUuids, cursor, lists, journal>>,
         isDirty' \in BOOLEAN, fault' \in {"none", "assert", "crash"}
  PROVE  IInv'
<1>1. UNCHANGED <<indexHash, usedUuids, openedObject, inTransaction, createdObjects,
                  changedAttributes, deletedObjects, isJournaling, undoList, redoList>>
  BY DEF cursor, lists, journal
<1>2. TypeOK'
  BY <1>1 DEF IInv, TypeOK, Transaction
<1>3. ListsMatchStore' /\ UuidsAreUsed'
  BY <1>1 DEF IInv, ListsMatchStore, UuidsAreUsed, IsEmpty, Transaction
<1> QED
  BY <1>2, <1>3 DEF IInv

LEMMA DieIInv ==
  ASSUME IInv, NEW how \in {"assert", "crash"}, Die(how)
  PROVE  IInv'
<1>1. isDirty' \in BOOLEAN /\ fault' \in {"none", "assert", "crash"}
  BY DEF Die, IInv, TypeOK
<1> QED
  BY <1>1, StutterIInv DEF Die

(* A step of the open transaction that moves only the cursor. *)
LEMMA CursorIInv ==
  ASSUME IInv, inTransaction', openedObject' \in DOMAIN indexHash \cup {Null},
         inTransaction' \in BOOLEAN,
         UNCHANGED <<indexHash, usedUuids, lists, journal, isDirty, fault>>
  PROVE  IInv'
<1>1. UNCHANGED <<indexHash, usedUuids, createdObjects, changedAttributes, deletedObjects,
                  isJournaling, undoList, redoList, isDirty, fault>>
  BY DEF lists, journal
<1>2. TypeOK'
  BY <1>1 DEF IInv, TypeOK, Transaction
<1>3. ListsMatchStore' /\ UuidsAreUsed'
  BY <1>1 DEF IInv, ListsMatchStore, UuidsAreUsed
<1> QED
  BY <1>2, <1>3 DEF IInv

(* The lists after a commit or an abort. *)
LEMMA ClearListsEmpties ==
  ASSUME ClearLists
  PROVE  /\ Transaction' \in Entry /\ IsEmpty(Transaction)'
         /\ createdObjects' = {} /\ DOMAIN changedAttributes' = {} /\ DOMAIN deletedObjects' = {}
BY EmptyLists DEF ClearLists, Transaction, Entry, IsEmpty

(* The journal after a transaction has been pickled. *)
LEMMA JournalExtends ==
  ASSUME undoList \in Seq(Entry), NEW e \in Entry, Journal(e)
  PROVE  /\ undoList' \in Seq(Entry)
         /\ redoList' = << >>
         /\ Len(undoList') \in 1..Len(undoList) + 1
         /\ undoList'[Len(undoList')] = e
         /\ \A i \in 1..Len(undoList') - 1 : \E j \in 1..Len(undoList) : undoList'[i] = undoList[j]
         /\ Len(undoList) < MaxUndo => Len(undoList') = Len(undoList) + 1
         /\ Len(undoList) = MaxUndo => Len(undoList') = Len(undoList)
<1> DEFINE n == IF Len(undoList) = MaxUndo THEN 1 ELSE 0
           kept == SubSeq(undoList, n + 1, Len(undoList))
<1>1. undoList' = Append(kept, e) /\ redoList' = << >>
  BY DEF Journal
<1>2. MaxUndo \in Nat \ {0} /\ Len(undoList) \in Nat
  BY ConstantsAssumption
<1>3. n \in {0, 1} /\ n <= Len(undoList)
  BY <1>2
<1>4. /\ kept \in Seq(Entry)
      /\ Len(kept) = Len(undoList) - n
      /\ \A i \in 1..Len(kept) : kept[i] = undoList[i + n]
  <2> HIDE DEF n
  <2>1. n + 1 \in 1..Len(undoList) + 1 /\ Len(undoList) \in n + 1 - 1..Len(undoList)
    BY <1>2, <1>3
  <2> QED
    BY <1>2, <1>3, <2>1, SubSeqProperties
<1> HIDE DEF kept
<1>5. /\ undoList' \in Seq(Entry)
      /\ Len(undoList') = Len(undoList) - n + 1
      /\ undoList'[Len(undoList')] = e
      /\ \A i \in 1..Len(undoList') - 1 : undoList'[i] = undoList[i + n]
  BY <1>1, <1>2, <1>3, <1>4
<1>6. \A i \in 1..Len(undoList') - 1 : i + n \in 1..Len(undoList)
  BY <1>2, <1>3, <1>5
<1>7. Len(undoList) < MaxUndo => n = 0
  BY <1>2
<1>8. Len(undoList) = MaxUndo => n = 1
  BY <1>2
<1> HIDE DEF n
<1> QED
  BY <1>1, <1>2, <1>3, <1>5, <1>6, <1>7, <1>8

(* CommitTransaction and Save: the transaction ends, and its entry is      *)
(* journaled or not.                                                       *)
LEMMA CommitIInv ==
  ASSUME IInv,
         UNCHANGED <<indexHash, usedUuids, isJournaling, fault>>,
         openedObject' = Null, inTransaction' = FALSE,
         ClearLists,
         \/ Journal(Transaction)
         \/ undoList' = undoList /\ redoList' \in {redoList, << >>},
         isDirty' \in BOOLEAN
  PROVE  IInv'
<1>1. /\ indexHash' = indexHash /\ usedUuids' = usedUuids
      /\ openedObject' = Null /\ inTransaction' = FALSE
      /\ isJournaling' = isJournaling /\ fault' = fault
      /\ ClearLists
  OBVIOUS
<1>2. /\ \/ Journal(Transaction)
         \/ undoList' = undoList /\ redoList' \in {redoList, << >>}
      /\ isDirty' \in BOOLEAN
  OBVIOUS
<1>3. Transaction \in Entry /\ undoList \in Seq(Entry) /\ redoList \in Seq(Entry)
  BY DEF IInv, TypeOK
<1>4. undoList' \in Seq(Entry) /\ redoList' \in Seq(Entry)
  <2>1. << >> \in Seq(Entry)
    OBVIOUS
  <2>2. CASE Journal(Transaction)
    BY <1>3, <2>1, <2>2, JournalExtends
  <2>3. CASE undoList' = undoList /\ redoList' \in {redoList, << >>}
    BY <1>3, <2>1, <2>3
  <2> QED
    BY <1>2, <2>2, <2>3
<1>5. TypeOK'
  BY <1>1, <1>2, <1>4, ClearListsEmpties DEF IInv, TypeOK
<1>6. ListsMatchStore'
  BY <1>1, ClearListsEmpties DEF ListsMatchStore
<1>7. UuidsAreUsed'
  <2>1. DOMAIN indexHash' \cup DOMAIN deletedObjects' \cup createdObjects' \subseteq usedUuids'
    BY <1>1, ClearListsEmpties DEF IInv, UuidsAreUsed
  <2>2. \A i \in 1..Len(redoList') :
          redoList'[i].created \cup DOMAIN redoList'[i].deleted \subseteq usedUuids'
    <3>1. redoList' = redoList \/ redoList' = << >>
      BY <1>2, <1>3, JournalExtends
    <3> QED
      BY <1>1, <3>1 DEF IInv, UuidsAreUsed
  <2>3. \A i \in 1..Len(undoList') :
          undoList'[i].created \cup DOMAIN undoList'[i].deleted \subseteq usedUuids'
    <3>1. CASE Journal(Transaction)
      <4>1. Transaction.created \cup DOMAIN Transaction.deleted \subseteq usedUuids
        BY DEF IInv, UuidsAreUsed, Transaction
      <4>2. \A i \in 1..Len(undoList) :
              undoList[i].created \cup DOMAIN undoList[i].deleted \subseteq usedUuids
        BY DEF IInv, UuidsAreUsed
      <4>3. /\ Len(undoList') \in Nat
            /\ undoList'[Len(undoList')] = Transaction
            /\ \A i \in 1..Len(undoList') - 1 :
                 \E j \in 1..Len(undoList) : undoList'[i] = undoList[j]
        BY <1>3, <3>1, JournalExtends
      <4>4. \A i \in 1..Len(undoList') : i = Len(undoList') \/ i \in 1..Len(undoList') - 1
        BY <4>3
      <4> QED
        BY <1>1, <4>1, <4>2, <4>3, <4>4
    <3>2. CASE undoList' = undoList /\ redoList' \in {redoList, << >>}
      BY <1>1, <3>2 DEF IInv, UuidsAreUsed
    <3> QED
      BY <1>2, <3>1, <3>2
  <2> QED
    BY <2>1, <2>2, <2>3 DEF UuidsAreUsed
<1> QED
  BY <1>5, <1>6, <1>7 DEF IInv

LEMMA AbortIInv ==
  ASSUME IInv, AbortTransaction
  PROVE  IInv'
<1>1. CASE RollbackOutcome(indexHash, Transaction) # "none"
  <2>1. Die(RollbackOutcome(indexHash, Transaction))
    BY <1>1 DEF AbortTransaction
  <2>2. RollbackOutcome(indexHash, Transaction) \in {"assert", "crash"}
    BY <1>1 DEF RollbackOutcome
  <2> QED
    BY <2>1, <2>2, DieIInv
<1>2. CASE RollbackOutcome(indexHash, Transaction) = "none"
  <2>1. /\ indexHash' = Rollback(indexHash, Transaction)
        /\ openedObject' = Null /\ inTransaction' = FALSE
        /\ ClearLists
        /\ UNCHANGED <<usedUuids, isJournaling, undoList, redoList, isDirty, fault>>
    BY <1>2 DEF AbortTransaction, journal
  <2>2. indexHash \in Store /\ Transaction \in Entry
    BY DEF IInv, TypeOK
  <2>3. /\ indexHash' \in Store
        /\ DOMAIN indexHash' \subseteq DOMAIN indexHash \cup DOMAIN deletedObjects
    BY <2>1, <2>2, RollbackRestores DEF Transaction
  <2>4. TypeOK'
    BY <2>1, <2>3, ClearListsEmpties DEF IInv, TypeOK
  <2>5. ListsMatchStore'
    BY <2>1, ClearListsEmpties DEF ListsMatchStore
  <2>6. UuidsAreUsed'
    BY <2>1, <2>3, ClearListsEmpties DEF IInv, UuidsAreUsed
  <2> QED
    BY <2>4, <2>5, <2>6 DEF IInv
<1> QED
  BY <1>1, <1>2

LEMMA CreateIInv ==
  ASSUME IInv, NEW u \in Uuid, CreateObject(u)
  PROVE  IInv'
<1>1. /\ u \notin usedUuids
      /\ indexHash' = Joined([x \in {u} |-> Blank], indexHash)
      /\ usedUuids' = usedUuids \cup {u}
      /\ createdObjects' = createdObjects \cup {u}
      /\ openedObject' = u
      /\ UNCHANGED <<inTransaction, changedAttributes, deletedObjects, isJournaling,
                     undoList, redoList, isDirty, fault>>
      /\ inTransaction
  BY DEF CreateObject, journal
<1>2. indexHash' \in Store /\ DOMAIN indexHash' = {u} \cup DOMAIN indexHash
  <2>1. indexHash \in Store /\ [x \in {u} |-> Blank] \in Store
    BY BlankIsObject, SingletonIsStore DEF IInv, TypeOK
  <2>2. DOMAIN [x \in {u} |-> Blank] = {u}
    OBVIOUS
  <2> QED
    BY <1>1, <2>1, <2>2, JoinIsStore
<1>3. Transaction' \in Entry
  BY <1>1 DEF IInv, TypeOK, Transaction, Entry
<1>4. TypeOK'
  BY <1>1, <1>2, <1>3 DEF IInv, TypeOK
<1>5. ListsMatchStore'
  BY <1>1, <1>2 DEF IInv, ListsMatchStore, UuidsAreUsed
<1>6. UuidsAreUsed'
  BY <1>1, <1>2 DEF IInv, UuidsAreUsed
<1> QED
  BY <1>4, <1>5, <1>6 DEF IInv

(* A change of attributes of the open object that is recorded. *)
LEMMA ChangeIInv ==
  ASSUME IInv, openedObject # Null,
         indexHash' \in Store, DOMAIN indexHash' = DOMAIN indexHash,
         NEW A \in SUBSET Attr, NEW c, \A a \in A : c \in Content(a),
         changedAttributes' = Recorded(A, c), isDirty' \in BOOLEAN,
         UNCHANGED <<usedUuids, cursor, createdObjects, deletedObjects, journal, fault>>
  PROVE  IInv'
<1>1. UNCHANGED <<usedUuids, openedObject, inTransaction, createdObjects, deletedObjects,
                  isJournaling, undoList, redoList, fault>>
  BY DEF cursor, journal
<1>2. openedObject \in DOMAIN indexHash /\ inTransaction
  BY DEF IInv, TypeOK, ListsMatchStore
<1>3. /\ changedAttributes' \in Changes
      /\ DOMAIN changedAttributes' = ({openedObject} \X A) \cup DOMAIN changedAttributes
  BY <1>2, RecordedIsChanges DEF IInv
<1>4. Transaction' \in Entry
  BY <1>1, <1>3 DEF IInv, TypeOK, Transaction, Entry
<1>5. TypeOK'
  BY <1>1, <1>4 DEF IInv, TypeOK
<1>6. ListsMatchStore'
  <2>1. \A k \in DOMAIN changedAttributes' : k[1] \in DOMAIN indexHash \cup DOMAIN deletedObjects
    BY <1>2, <1>3 DEF IInv, ListsMatchStore
  <2> QED
    BY <1>1, <1>2, <2>1 DEF IInv, ListsMatchStore
<1>7. UuidsAreUsed'
  BY <1>1 DEF IInv, UuidsAreUsed
<1> QED
  BY <1>5, <1>6, <1>7 DEF IInv

LEMMA SetAttributeIInv ==
  ASSUME IInv, NEW a \in ValueAttr, NEW v \in Value, SetAttributeValue(a, v)
  PROVE  IInv'
<1>1. /\ openedObject # Null
      /\ indexHash' = SetAll(indexHash, [k \in {<<openedObject, a>>} |-> v])
      /\ changedAttributes' = Recorded({a}, v)
      /\ isDirty' = TRUE
      /\ UNCHANGED <<usedUuids, cursor, createdObjects, deletedObjects, journal, fault>>
  BY DEF SetAttributeValue
<1>2. a \in Attr /\ v \in Content(a)
  BY ConstantsAssumption DEF Attr, Content
<1>3. openedObject \in Uuid /\ indexHash \in Store
  BY <1>1, StoreElim DEF IInv, TypeOK
<1>4. indexHash' \in Store /\ DOMAIN indexHash' = DOMAIN indexHash
  BY <1>1, <1>2, <1>3, SetAllSets
<1>5. {a} \in SUBSET Attr /\ \A b \in {a} : v \in Content(b)
  BY <1>2
<1> QED
  BY <1>1, <1>4, <1>5, ChangeIInv

LEMMA SetPointerIInv ==
  ASSUME IInv, NEW a \in PointerAttr, NEW t \in Uuid \cup {Null}, SetPointerValue(a, t)
  PROVE  IInv'
<1> DEFINE target == [k \in {<<openedObject, a>>} |-> t]
           moves == Moves(indexHash, target)
<1>1. CASE PointerCrash(indexHash, moves)
  BY <1>1, DieIInv DEF SetPointerValue
<1>2. CASE ~PointerCrash(indexHash, moves)
  <2>1. /\ openedObject # Null
        /\ indexHash' = SetAll(PointerUpdate(indexHash, moves), target)
        /\ changedAttributes' = Recorded({a}, t)
        /\ isDirty' = TRUE
        /\ UNCHANGED <<usedUuids, cursor, createdObjects, deletedObjects, journal, fault>>
    BY <1>2 DEF SetPointerValue
  <2>2. a \in Attr /\ t \in Content(a)
    BY DEF Attr, Content
  <2>3. openedObject \in Uuid /\ indexHash \in Store
    BY <2>1, StoreElim DEF IInv, TypeOK
  <2> HIDE DEF moves
  <2>4. /\ PointerUpdate(indexHash, moves) \in Store
        /\ DOMAIN PointerUpdate(indexHash, moves) = DOMAIN indexHash
    BY <2>3, PointerUpdateKeepsAttributes
  <2>5. DOMAIN target \subseteq Uuid \X Attr /\ \A k \in DOMAIN target : target[k] \in Content(k[2])
    BY <2>2, <2>3
  <2> HIDE DEF target
  <2>6. indexHash' \in Store /\ DOMAIN indexHash' = DOMAIN indexHash
    BY <2>1, <2>4, <2>5, SetAllSets
  <2>7. {a} \in SUBSET Attr /\ \A b \in {a} : t \in Content(b)
    BY <2>2
  <2> QED
    BY <2>1, <2>6, <2>7, ChangeIInv
<1> QED
  BY <1>1, <1>2

(* The store DeleteObject makes of the current one before it drops u: only *)
(* the pointers of u that pointed somewhere have changed.                  *)
Nulled(s, u, A, moves) == SetAll(PointerUpdate(s, moves), [k \in {u} \X A |-> Null])

LEMMA NulledPointers ==
  ASSUME NEW s \in Store, NEW u \in DOMAIN s, NEW A \in SUBSET PointerAttr, NEW m
  PROVE  /\ Nulled(s, u, A, m) \in Store
         /\ DOMAIN Nulled(s, u, A, m) = DOMAIN s
         /\ \A x \in DOMAIN s, a \in Attr :
              Nulled(s, u, A, m)[x].attr[a] = IF x = u /\ a \in A THEN Null ELSE s[x].attr[a]
<1> DEFINE nulls == [k \in {u} \X A |-> Null]
           linked == PointerUpdate(s, m)
<1>1. /\ linked \in Store /\ DOMAIN linked = DOMAIN s
      /\ \A x \in DOMAIN s : linked[x].attr = s[x].attr
  BY PointerUpdateKeepsAttributes
<1>2. u \in Uuid
  BY StoreElim
<1>3. DOMAIN nulls \subseteq Uuid \X Attr
  BY <1>2 DEF Attr
<1>4. \A k \in DOMAIN nulls : nulls[k] \in Content(k[2])
  BY DEF Content
<1>5. Null \notin Malformed
  BY ConstantsAssumption
<1> HIDE DEF linked
<1>6. /\ SetAll(linked, nulls) \in Store
      /\ DOMAIN SetAll(linked, nulls) = DOMAIN linked
      /\ \A x \in DOMAIN linked, a \in Attr :
           SetAll(linked, nulls)[x].attr[a] =
             IF <<x, a>> \in DOMAIN nulls /\ nulls[<<x, a>>] \notin Malformed
             THEN nulls[<<x, a>>] ELSE linked[x].attr[a]
  <2> HIDE DEF nulls
  <2> QED
    BY <1>1, <1>3, <1>4, SetAllSets
<1>7. \A x, a : <<x, a>> \in DOMAIN nulls <=> x = u /\ a \in A
  OBVIOUS
<1>8. \A k \in DOMAIN nulls : nulls[k] = Null
  OBVIOUS
<1> HIDE DEF nulls
<1>9. Nulled(s, u, A, m) = SetAll(linked, nulls)
  BY DEF Nulled, linked, nulls
<1>10. ASSUME NEW x \in DOMAIN s, NEW a \in Attr
       PROVE  Nulled(s, u, A, m)[x].attr[a] = IF x = u /\ a \in A THEN Null ELSE s[x].attr[a]
  <2>1. CASE x = u /\ a \in A
    <3>1. <<x, a>> \in DOMAIN nulls /\ nulls[<<x, a>>] = Null
      BY <1>7, <1>8, <2>1
    <3> QED
      BY <1>1, <1>5, <1>6, <1>9, <2>1, <3>1
  <2>2. CASE ~(x = u /\ a \in A)
    <3>1. <<x, a>> \notin DOMAIN nulls
      BY <1>7, <2>2
    <3>2. linked[x].attr = s[x].attr
      BY <1>1
    <3> QED
      BY <1>1, <1>6, <1>9, <2>2, <3>1, <3>2
  <2> QED
    BY <2>1, <2>2
<1> QED
  BY <1>1, <1>6, <1>9, <1>10

(* DeleteObject in terms of the nulled store. *)
LEMMA DeleteElim ==
  ASSUME IInv, DeleteObject, fault' = "none"
  PROVE  LET u == openedObject
             A == {a \in PointerAttr : indexHash[u].attr[a] # Null}
             nulled == Nulled(indexHash, u, A, Moves(indexHash, [k \in {u} \X A |-> Null]))
         IN  /\ indexHash' = Restrict(nulled, DOMAIN indexHash \ {u})
             /\ deletedObjects' = Joined([x \in {u} |-> nulled[u]], deletedObjects)
             /\ changedAttributes' = Recorded(A, Null)
             /\ isDirty' = (isDirty \/ A # {})
             /\ openedObject' = Null
             /\ u \in DOMAIN indexHash
             /\ UNCHANGED <<usedUuids, inTransaction, createdObjects, isJournaling,
                            undoList, redoList, fault>>
<1> DEFINE A == {a \in PointerAttr : indexHash[openedObject].attr[a] # Null}
           moves == Moves(indexHash, [k \in {openedObject} \X A |-> Null])
<1>1. ~PointerCrash(indexHash, moves)
  BY DEF DeleteObject, Die
<1>2. openedObject \in DOMAIN indexHash
  BY DEF DeleteObject, IInv, TypeOK
<1> QED
  BY <1>1, <1>2 DEF DeleteObject, journal, Nulled

LEMMA DeleteIInv ==
  ASSUME IInv, DeleteObject
  PROVE  IInv'
<1> DEFINE A == {a \in PointerAttr : indexHash[openedObject].attr[a] # Null}
           nulls == [k \in {openedObject} \X A |-> Null]
           nulled == Nulled(indexHash, openedObject, A, Moves(indexHash, nulls))
<1>1. CASE PointerCrash(indexHash, Moves(indexHash, nulls))
  BY <1>1, DieIInv DEF DeleteObject
<1>2. CASE ~PointerCrash(indexHash, Moves(indexHash, nulls))
  <2>1. fault' = "none"
    BY <1>2 DEF DeleteObject, Running
  <2>2. /\ indexHash' = Restrict(nulled, DOMAIN indexHash \ {openedObject})
        /\ deletedObjects' = Joined([x \in {openedObject} |-> nulled[openedObject]], deletedObjects)
        /\ changedAttributes' = Recorded(A, Null)
        /\ isDirty' \in BOOLEAN
        /\ openedObject' = Null
        /\ openedObject \in DOMAIN indexHash
        /\ UNCHANGED <<usedUuids, inTransaction, createdObjects, isJournaling,
                       undoList, redoList, fault>>
    BY <2>1, DeleteElim
  <2>3. A \in SUBSET PointerAttr /\ indexHash \in Store
    BY DEF IInv, TypeOK
  <2>4. nulled \in Store /\ DOMAIN nulled = DOMAIN indexHash
    <3> HIDE DEF A, nulls
    <3> QED
      BY <2>2, <2>3, NulledPointers
  <2>5. A \in SUBSET Attr /\ \A a \in A : Null \in Content(a)
    BY DEF Attr, Content
  <2> HIDE DEF A, nulled
  <2>6. indexHash' \in Store /\ DOMAIN indexHash' = DOMAIN indexHash \ {openedObject}
    BY <2>2, <2>4, RestrictIsStore
  <2>7. /\ deletedObjects' \in Store
        /\ DOMAIN deletedObjects' = {openedObject} \cup DOMAIN deletedObjects
    <3>1. nulled[openedObject] \in Object /\ openedObject \in Uuid
      BY <2>2, <2>4, StoreElim
    <3>2. [x \in {openedObject} |-> nulled[openedObject]] \in Store
      BY <3>1, SingletonIsStore
    <3>3. DOMAIN [x \in {openedObject} |-> nulled[openedObject]] = {openedObject}
      OBVIOUS
    <3>4. deletedObjects \in Store
      BY TransactionElim DEF IInv
    <3> QED
      BY <2>2, <3>2, <3>3, <3>4, JoinIsStore
  <2>8. /\ changedAttributes' \in Changes
        /\ DOMAIN changedAttributes' = ({openedObject} \X A) \cup DOMAIN changedAttributes
    BY <2>2, <2>5, RecordedIsChanges DEF IInv
  <2>9. TypeOK'
    <3>1. Transaction' \in Entry
      BY <2>2, <2>7, <2>8, TransactionElim DEF IInv, Transaction, Entry
    <3> QED
      BY <2>2, <2>6, <3>1 DEF IInv, TypeOK
  <2>10. inTransaction
    BY DEF DeleteObject
  <2>11. ListsMatchStore'
    <3>1. DOMAIN indexHash' \cup DOMAIN deletedObjects' = DOMAIN indexHash \cup DOMAIN deletedObjects
      BY <2>2, <2>6, <2>7
    <3>2. \A k \in DOMAIN changedAttributes' : k[1] \in DOMAIN indexHash' \cup DOMAIN deletedObjects'
      BY <2>2, <2>8, <3>1 DEF IInv, ListsMatchStore
    <3> QED
      BY <2>2, <2>6, <2>7, <2>10, <3>1, <3>2 DEF IInv, ListsMatchStore
  <2>12. UuidsAreUsed'
    BY <2>2, <2>6, <2>7 DEF IInv, UuidsAreUsed
  <2> QED
    BY <2>9, <2>11, <2>12 DEF IInv
<1> QED
  BY <1>1, <1>2

(* A list without its last entry. *)
LEMMA FrontShortens ==
  ASSUME NEW list \in Seq(Entry), list # << >>
  PROVE  /\ Last(list) \in Entry
         /\ Last(list) = list[Len(list)] /\ Len(list) \in 1..Len(list)
         /\ Front(list) \in Seq(Entry)
         /\ Len(Front(list)) = Len(list) - 1
         /\ \A i \in 1..Len(Front(list)) : Front(list)[i] = list[i] /\ i \in 1..Len(list)
<1>1. Len(list) \in Nat \ {0}
  OBVIOUS
<1>2. Last(list) = list[Len(list)] /\ Last(list) \in Entry
  BY <1>1 DEF Last
<1>3. Front(list) = SubSeq(list, 1, Len(list) - 1)
  BY DEF Front
<1>4. /\ Front(list) \in Seq(Entry)
      /\ Len(Front(list)) = Len(list) - 1
      /\ \A i \in 1..Len(list) - 1 : Front(list)[i] = list[i]
  <2> DEFINE n == Len(list) - 1
  <2>1. 1 \in Int /\ n \in Nat /\ n \in Int /\ \A i \in 1..n : list[i] \in Entry
    BY <1>1
  <2>2. /\ SubSeq(list, 1, n) \in Seq(Entry)
        /\ Len(SubSeq(list, 1, n)) = IF 1 <= n THEN n - 1 + 1 ELSE 0
        /\ \A i \in 1..n - 1 + 1 : SubSeq(list, 1, n)[i] = list[1 + i - 1]
    <3> HIDE DEF n
    <3> QED
      BY <2>1, SubSeqProperties
  <2>3. n - 1 + 1 = n /\ \A i \in 1..n : 1 + i - 1 = i
    BY <2>1
  <2> HIDE DEF n
  <2>4. /\ Len(SubSeq(list, 1, n)) = n
        /\ \A i \in 1..n : SubSeq(list, 1, n)[i] = list[i]
    BY <2>1, <2>2, <2>3
  <2> QED
    BY <1>3, <2>2, <2>4 DEF n
<1> QED
  BY <1>1, <1>2, <1>4

(* A list with one entry more. *)
LEMMA AppendExtends ==
  ASSUME NEW list \in Seq(Entry), NEW e \in Entry
  PROVE  /\ Append(list, e) \in Seq(Entry)
         /\ Len(Append(list, e)) = Len(list) + 1
         /\ \A i \in 1..Len(Append(list, e)) :
              Append(list, e)[i] = e \/ (i \in 1..Len(list) /\ Append(list, e)[i] = list[i])
OBVIOUS

(* Undo and Redo move one entry from the end of a list to the other, and   *)
(* leave a store of objects whose uuids have been handed out.              *)
LEMMA StepIInv ==
  ASSUME IInv, ~inTransaction,
         indexHash' \in Store, DOMAIN indexHash' \subseteq usedUuids,
         \/ /\ undoList # << >> /\ undoList' = Front(undoList)
            /\ redoList' = Append(redoList, Last(undoList))
         \/ /\ redoList # << >> /\ redoList' = Front(redoList)
            /\ undoList' = Append(undoList, Last(redoList)),
         isDirty' = TRUE,
         UNCHANGED <<usedUuids, cursor, lists, isJournaling, fault>>
  PROVE  IInv'
<1>1. UNCHANGED <<usedUuids, openedObject, inTransaction, createdObjects, changedAttributes,
                  deletedObjects, isJournaling, fault>>
  BY DEF cursor, lists
<1>2. undoList \in Seq(Entry) /\ redoList \in Seq(Entry)
  BY DEF IInv, TypeOK
<1> DEFINE Known(e) == e.created \cup DOMAIN e.deleted \subseteq usedUuids
<1>3. /\ \A i \in 1..Len(undoList) : Known(undoList[i])
      /\ \A i \in 1..Len(redoList) : Known(redoList[i])
  BY DEF IInv, UuidsAreUsed
<1> HIDE DEF Known
<1>4. /\ undoList' \in Seq(Entry) /\ redoList' \in Seq(Entry)
      /\ \A i \in 1..Len(undoList') : Known(undoList'[i])
      /\ \A i \in 1..Len(redoList') : Known(redoList'[i])
  <2>1. CASE /\ undoList # << >> /\ undoList' = Front(undoList)
             /\ redoList' = Append(redoList, Last(undoList))
    <3>1. /\ undoList' \in Seq(Entry) /\ Last(undoList) \in Entry /\ Known(Last(undoList))
          /\ \A i \in 1..Len(undoList') : Known(undoList'[i])
      BY <1>2, <1>3, <2>1, FrontShortens
    <3>2. redoList' \in Seq(Entry) /\ \A i \in 1..Len(redoList') : Known(redoList'[i])
      BY <1>2, <1>3, <2>1, <3>1, AppendExtends
    <3> QED
      BY <3>1, <3>2
  <2>2. CASE /\ redoList # << >> /\ redoList' = Front(redoList)
             /\ undoList' = Append(undoList, Last(redoList))
    <3>1. /\ redoList' \in Seq(Entry) /\ Last(redoList) \in Entry /\ Known(Last(redoList))
          /\ \A i \in 1..Len(redoList') : Known(redoList'[i])
      BY <1>2, <1>3, <2>2, FrontShortens
    <3>2. undoList' \in Seq(Entry) /\ \A i \in 1..Len(undoList') : Known(undoList'[i])
      BY <1>2, <1>3, <2>2, <3>1, AppendExtends
    <3> QED
      BY <3>1, <3>2
  <2> QED
    BY <2>1, <2>2
<1>5. openedObject = Null /\ IsEmpty(Transaction) /\ IsEmpty(Transaction)'
  BY <1>1 DEF IInv, ListsMatchStore, IsEmpty, Transaction
<1>6. Transaction' \in Entry
  BY <1>1 DEF IInv, TypeOK, Transaction
<1>7. TypeOK'
  BY <1>1, <1>4, <1>5, <1>6 DEF IInv, TypeOK
<1>8. createdObjects = {} /\ DOMAIN changedAttributes = {} /\ DOMAIN deletedObjects = {}
  BY <1>5 DEF IsEmpty, Transaction
<1>9. ListsMatchStore'
  BY <1>1, <1>5, <1>8 DEF ListsMatchStore
<1>10. UuidsAreUsed'
  BY <1>1, <1>4, <1>8 DEF UuidsAreUsed, Known
<1> QED
  BY <1>7, <1>9, <1>10 DEF IInv

LEMMA UndoIInv ==
  ASSUME IInv, Undo
  PROVE  IInv'
<1> DEFINE e == Last(undoList)
<1>1. CASE RollbackOutcome(indexHash, e) # "none"
  <2>1. RollbackOutcome(indexHash, e) \in {"assert", "crash"}
    BY <1>1 DEF RollbackOutcome
  <2>2. Die(RollbackOutcome(indexHash, e))
    BY <1>1 DEF Undo
  <2> QED
    BY <2>1, <2>2, DieIInv
<1>2. CASE RollbackOutcome(indexHash, e) = "none"
  <2>1. /\ ~inTransaction /\ undoList # << >>
        /\ indexHash' = Rollback(indexHash, e)
        /\ undoList' = Front(undoList) /\ redoList' = Append(redoList, e)
        /\ isDirty' = TRUE
        /\ UNCHANGED <<usedUuids, cursor, lists, isJournaling, fault>>
    BY <1>2 DEF Undo
  <2>2. indexHash \in Store /\ undoList \in Seq(Entry) /\ DOMAIN indexHash \subseteq usedUuids
    BY DEF IInv, TypeOK, UuidsAreUsed
  <2>3. e \in Entry /\ DOMAIN e.deleted \subseteq usedUuids
    BY <2>1, <2>2, FrontShortens DEF IInv, UuidsAreUsed
  <2> HIDE DEF e
  <2>4. indexHash' \in Store /\ DOMAIN indexHash' \subseteq usedUuids
    BY <2>1, <2>2, <2>3, RollbackRestores
  <2> QED
    BY <2>1, <2>4, StepIInv DEF e
<1> QED
  BY <1>1, <1>2

LEMMA RedoIInv ==
  ASSUME IInv, Redo
  PROVE  IInv'
<1> DEFINE e == Last(redoList)
<1>1. CASE ReplayOutcome(indexHash, e) # "none"
  <2>1. ReplayOutcome(indexHash, e) \in {"assert", "crash"}
    BY <1>1 DEF ReplayOutcome
  <2>2. Die(ReplayOutcome(indexHash, e))
    BY <1>1 DEF Redo
  <2> QED
    BY <2>1, <2>2, DieIInv
<1>2. CASE ReplayOutcome(indexHash, e) = "none"
  <2>1. /\ ~inTransaction /\ redoList # << >>
        /\ indexHash' = Replay(indexHash, e)
        /\ redoList' = Front(redoList) /\ undoList' = Append(undoList, e)
        /\ isDirty' = TRUE
        /\ UNCHANGED <<usedUuids, cursor, lists, isJournaling, fault>>
    BY <1>2 DEF Redo
  <2>2. indexHash \in Store /\ redoList \in Seq(Entry) /\ DOMAIN indexHash \subseteq usedUuids
    BY DEF IInv, TypeOK, UuidsAreUsed
  <2>3. e \in Entry /\ e.created \subseteq usedUuids
    BY <2>1, <2>2, FrontShortens DEF IInv, UuidsAreUsed
  <2> HIDE DEF e
  <2>4. indexHash' \in Store /\ DOMAIN indexHash' \subseteq usedUuids
    BY <2>1, <2>2, <2>3, ReplayIsStore
  <2> QED
    BY <2>1, <2>4, StepIInv DEF e
<1> QED
  BY <1>1, <1>2

LEMMA DisableJournalingIInv ==
  ASSUME IInv, DisableJournaling
  PROVE  IInv'
<1>1. /\ isJournaling' = FALSE
      /\ UNCHANGED <<indexHash, usedUuids, openedObject, inTransaction, createdObjects,
                     changedAttributes, deletedObjects, isDirty, fault>>
      /\ undoList' = SubSeq(undoList, Len(undoList) + 1, Len(undoList))
      /\ redoList' = << >>
  BY DEF DisableJournaling, FlushUndoRedo, cursor, lists
<1>2. Len(undoList) \in Nat
  BY DEF IInv, TypeOK
<1>3. undoList' = << >>
  BY <1>1, <1>2, SubSeqEmpty
<1>4. << >> \in Seq(Entry)
  OBVIOUS
<1>5. TypeOK'
  BY <1>1, <1>3, <1>4 DEF IInv, TypeOK, Transaction
<1>6. ListsMatchStore' /\ UuidsAreUsed'
  BY <1>1, <1>3 DEF IInv, ListsMatchStore, UuidsAreUsed, IsEmpty, Transaction
<1> QED
  BY <1>5, <1>6 DEF IInv

LEMMA NextIInv ==
  ASSUME IInv, [Next]_vars
  PROVE  IInv'
<1>1. CASE BeginTransaction
  <2>1. /\ inTransaction' /\ inTransaction' \in BOOLEAN /\ openedObject' = Null
        /\ UNCHANGED <<indexHash, usedUuids, lists, journal, isDirty, fault>>
    BY <1>1 DEF BeginTransaction
  <2> QED
    BY <2>1, CursorIInv
<1>2. CASE CommitTransaction \/ Save
  <2>1. /\ \/ Journal(Transaction)
           \/ undoList' = undoList /\ redoList' \in {redoList, << >>}
        /\ isDirty' \in BOOLEAN
    BY <1>2 DEF CommitTransaction, Save, IInv, TypeOK
  <2>2. /\ UNCHANGED <<indexHash, usedUuids, isJournaling, fault>>
        /\ openedObject' = Null /\ inTransaction' = FALSE
        /\ ClearLists
    BY <1>2 DEF CommitTransaction, Save
  <2> QED
    BY <2>1, <2>2, CommitIInv
<1>3. CASE AbortTransaction
  BY <1>3, AbortIInv
<1>4. ASSUME NEW u \in Uuid, OpenObject(u)
      PROVE  IInv'
  <2>1. /\ inTransaction' /\ inTransaction' \in BOOLEAN
        /\ openedObject' \in DOMAIN indexHash \cup {Null}
        /\ UNCHANGED <<indexHash, usedUuids, lists, journal, isDirty, fault>>
    BY <1>4 DEF OpenObject, IInv, TypeOK
  <2> QED
    BY <2>1, CursorIInv
<1>5. ASSUME NEW u \in Uuid, CreateObject(u)
      PROVE  IInv'
  BY <1>5, CreateIInv
<1>6. CASE CloseObject
  <2>1. /\ inTransaction' /\ inTransaction' \in BOOLEAN /\ openedObject' = Null
        /\ UNCHANGED <<indexHash, usedUuids, lists, journal, isDirty, fault>>
    BY <1>6 DEF CloseObject, IInv, TypeOK
  <2> QED
    BY <2>1, CursorIInv
<1>7. CASE DeleteObject
  BY <1>7, DeleteIInv
<1>8. ASSUME NEW a \in ValueAttr, NEW v \in Value, SetAttributeValue(a, v)
      PROVE  IInv'
  BY <1>8, SetAttributeIInv
<1>9. ASSUME NEW a \in PointerAttr, NEW t \in Uuid \cup {Null}, SetPointerValue(a, t)
      PROVE  IInv'
  BY <1>9, SetPointerIInv
<1>10. CASE Undo
  BY <1>10, UndoIInv
<1>11. CASE Redo
  BY <1>11, RedoIInv
<1>12. CASE EnableJournaling
  <2>1. /\ isJournaling' = TRUE
        /\ UNCHANGED <<indexHash, usedUuids, openedObject, inTransaction, createdObjects,
                       changedAttributes, deletedObjects, undoList, redoList, isDirty, fault>>
    BY <1>12 DEF EnableJournaling, cursor, lists
  <2>2. TypeOK'
    BY <2>1 DEF IInv, TypeOK, Transaction
  <2>3. ListsMatchStore' /\ UuidsAreUsed'
    BY <2>1 DEF IInv, ListsMatchStore, UuidsAreUsed, IsEmpty, Transaction
  <2> QED
    BY <2>2, <2>3 DEF IInv
<1>13. CASE DisableJournaling
  BY <1>13, DisableJournalingIInv
<1>14. CASE UNCHANGED vars
  <2>1. UNCHANGED <<indexHash, usedUuids, cursor, lists, journal, isDirty, fault>>
    BY <1>14 DEF vars
  <2>2. isDirty' \in BOOLEAN /\ fault' \in {"none", "assert", "crash"}
    BY <2>1 DEF IInv, TypeOK
  <2> QED
    BY <2>1, <2>2, StutterIInv
<1> QED
  BY <1>1, <1>2, <1>3, <1>4, <1>5, <1>6, <1>7, <1>8, <1>9, <1>10, <1>11, <1>12, <1>13, <1>14
  DEF Next

--------------------------------------------------------------------------------
(* The store the open transaction started from.                            *)

(* Committed, spelled out for a store and the lists of a transaction. *)
Before(store, created, deleted, changed) ==
  [u \in (DOMAIN store \cup DOMAIN deleted) \ created |->
    [a \in Attr |-> IF <<u, a>> \in DOMAIN changed THEN changed[<<u, a>>].old
                    ELSE Joined(store, deleted)[u].attr[a]]]

LEMMA CommittedIsBefore ==
  /\ Committed = Before(indexHash, createdObjects, deletedObjects, changedAttributes)
  /\ Committed' = Before(indexHash', createdObjects', deletedObjects', changedAttributes')
<1>1. ASSUME NEW s, NEW c, NEW d, NEW x
      PROVE  Backward([u \in DOMAIN s |-> s[u].attr],
                      [created |-> c, changed |-> x, deleted |-> d]) = Before(s, c, d, x)
  <2> DEFINE whole == Joined([u \in DOMAIN s |-> s[u].attr], [u \in DOMAIN d |-> d[u].attr])
  <2>1. DOMAIN whole = DOMAIN s \cup DOMAIN d
    BY DEF Joined
  <2>2. \A u \in DOMAIN whole : whole[u] = Joined(s, d)[u].attr
    BY DEF Joined
  <2> HIDE DEF whole
  <2>3. Backward([u \in DOMAIN s |-> s[u].attr],
                 [created |-> c, changed |-> x, deleted |-> d])
          = [u \in DOMAIN whole \ c |->
              [a \in Attr |-> IF <<u, a>> \in DOMAIN x THEN x[<<u, a>>].old ELSE whole[u][a]]]
    BY DEF Backward, whole
  <2> QED
    BY <2>1, <2>2, <2>3 DEF Before
<1>2. Committed = Before(indexHash, createdObjects, deletedObjects, changedAttributes)
  BY <1>1 DEF Committed, View, Transaction
<1>3. Committed' = Before(indexHash', createdObjects', deletedObjects', changedAttributes')
  BY <1>1 DEF Committed, View, Transaction
<1> QED
  BY <1>2, <1>3

(* The same with the objects that the transaction created. *)
Unwound == Before(indexHash, {}, deletedObjects, changedAttributes)

(* Recording a change of the open object, before it is made, keeps what    *)
(* the transaction started from: only recorded contents change.            *)
LEMMA RecordingKeepsBefore ==
  ASSUME IInv, openedObject \in DOMAIN indexHash,
         NEW A \in SUBSET Attr, NEW c, \A a \in A : c \in Content(a),
         NEW store, NEW deleted, NEW created,
         DOMAIN store \cup DOMAIN deleted = DOMAIN indexHash \cup DOMAIN deletedObjects,
         \A u \in DOMAIN store \cup DOMAIN deleted, a \in Attr :
           ~(u = openedObject /\ a \in A) =>
             Joined(store, deleted)[u].attr[a] = Joined(indexHash, deletedObjects)[u].attr[a]
  PROVE  Before(store, created, deleted, Recorded(A, c))
           = Before(indexHash, created, deletedObjects, changedAttributes)
<1> DEFINE D == (DOMAIN store \cup DOMAIN deleted) \ created
           now(u, a) == IF <<u, a>> \in DOMAIN Recorded(A, c) THEN Recorded(A, c)[<<u, a>>].old
                        ELSE Joined(store, deleted)[u].attr[a]
           was(u, a) == IF <<u, a>> \in DOMAIN changedAttributes
                        THEN changedAttributes[<<u, a>>].old
                        ELSE Joined(indexHash, deletedObjects)[u].attr[a]
<1>1. /\ DOMAIN Recorded(A, c) = ({openedObject} \X A) \cup DOMAIN changedAttributes
      /\ \A k \in DOMAIN Recorded(A, c) :
           Recorded(A, c)[k].old =
             IF k \in DOMAIN changedAttributes THEN changedAttributes[k].old
             ELSE indexHash[openedObject].attr[k[2]]
  BY RecordedIsChanges, ZenonT(40) DEF IInv
<1>2. Joined(indexHash, deletedObjects)[openedObject] = indexHash[openedObject]
  BY DEF Joined
<1>3. ASSUME NEW u \in D, NEW a \in Attr
      PROVE  now(u, a) = was(u, a)
  <2>1. CASE <<u, a>> \in DOMAIN changedAttributes
    BY <1>1, <2>1
  <2>2. CASE <<u, a>> \notin DOMAIN changedAttributes /\ u = openedObject /\ a \in A
    <3>1. <<u, a>> \in DOMAIN Recorded(A, c)
      BY <1>1, <2>2
    <3>2. Recorded(A, c)[<<u, a>>].old = indexHash[openedObject].attr[a]
      BY <1>1, <2>2, <3>1
    <3> QED
      BY <1>2, <2>2, <3>1, <3>2
  <2>3. CASE <<u, a>> \notin DOMAIN changedAttributes /\ ~(u = openedObject /\ a \in A)
    <3>1. <<u, a>> \notin DOMAIN Recorded(A, c)
      BY <1>1, <2>3
    <3> QED
      BY <2>3, <3>1
  <2> QED
    BY <2>1, <2>2, <2>3
<1>4. Before(store, created, deleted, Recorded(A, c))
        = [u \in D |-> [a \in Attr |-> now(u, a)]]
  BY DEF Before
<1>5. Before(indexHash, created, deletedObjects, changedAttributes)
        = [u \in D |-> [a \in Attr |-> was(u, a)]]
  BY DEF Before
<1> HIDE DEF now, was, D
<1> QED
  BY <1>3, <1>4, <1>5

(* A new object is foreign to what the transaction started from. *)
LEMMA CreateKeepsCommitted ==
  ASSUME IInv, NEW u \in Uuid, CreateObject(u)
  PROVE  Committed' = Committed
<1>1. /\ u \notin usedUuids
      /\ indexHash' = Joined([x \in {u} |-> Blank], indexHash)
      /\ createdObjects' = createdObjects \cup {u}
      /\ changedAttributes' = changedAttributes /\ deletedObjects' = deletedObjects
  BY DEF CreateObject
<1>2. u \notin DOMAIN indexHash /\ u \notin DOMAIN deletedObjects
  BY <1>1 DEF IInv, UuidsAreUsed
<1>3. DOMAIN indexHash' = {u} \cup DOMAIN indexHash
      /\ \A w \in DOMAIN indexHash : indexHash'[w] = indexHash[w]
  BY <1>1, <1>2 DEF Joined
<1>4. (DOMAIN indexHash' \cup DOMAIN deletedObjects') \ createdObjects'
        = (DOMAIN indexHash \cup DOMAIN deletedObjects) \ createdObjects
  BY <1>1, <1>2, <1>3
<1>5. \A w \in (DOMAIN indexHash \cup DOMAIN deletedObjects) \ createdObjects :
        Joined(indexHash', deletedObjects')[w] = Joined(indexHash, deletedObjects)[w]
  BY <1>1, <1>2, <1>3 DEF Joined
<1>6. Before(indexHash', createdObjects', deletedObjects', changedAttributes')
        = Before(indexHash, createdObjects, deletedObjects, changedAttributes)
  BY <1>1, <1>4, <1>5 DEF Before
<1> QED
  BY <1>6, CommittedIsBefore

(* So are recorded changes, *)
LEMMA ChangeKeepsCommitted ==
  ASSUME IInv, openedObject # Null,
         NEW A \in SUBSET Attr, NEW c, \A a \in A : c \in Content(a),
         DOMAIN indexHash' = DOMAIN indexHash,
         \A u \in DOMAIN indexHash, a \in Attr :
           ~(u = openedObject /\ a \in A) => indexHash'[u].attr[a] = indexHash[u].attr[a],
         changedAttributes' = Recorded(A, c),
         UNCHANGED <<createdObjects, deletedObjects>>
  PROVE  Committed' = Committed /\ Unwound' = Unwound
<1>1. openedObject \in DOMAIN indexHash
  BY DEF IInv, TypeOK
<1>2. \A u \in DOMAIN indexHash \cup DOMAIN deletedObjects, a \in Attr :
        ~(u = openedObject /\ a \in A) =>
          Joined(indexHash', deletedObjects)[u].attr[a]
            = Joined(indexHash, deletedObjects)[u].attr[a]
  BY DEF Joined
<1>3. ASSUME NEW created
      PROVE  Before(indexHash', created, deletedObjects, Recorded(A, c))
               = Before(indexHash, created, deletedObjects, changedAttributes)
  BY <1>1, <1>2, RecordingKeepsBefore
<1> QED
  BY <1>3, CommittedIsBefore DEF Unwound

LEMMA SetAttributeKeepsCommitted ==
  ASSUME IInv, NEW a \in ValueAttr, NEW v \in Value, SetAttributeValue(a, v)
  PROVE  Committed' = Committed /\ Unwound' = Unwound
<1> DEFINE set == [k \in {<<openedObject, a>>} |-> v]
<1>1. /\ openedObject # Null
      /\ indexHash' = SetAll(indexHash, set)
      /\ changedAttributes' = Recorded({a}, v)
      /\ UNCHANGED <<createdObjects, deletedObjects>>
  BY DEF SetAttributeValue
<1>2. {a} \in SUBSET Attr /\ \A b \in {a} : v \in Content(b)
  BY ConstantsAssumption DEF Attr, Content
<1>3. openedObject \in Uuid /\ indexHash \in Store
  BY <1>1, StoreElim DEF IInv, TypeOK
<1>4. DOMAIN set \subseteq Uuid \X Attr /\ \A k \in DOMAIN set : set[k] \in Content(k[2])
  BY <1>2, <1>3
<1>5. \A u, b : <<u, b>> \in DOMAIN set <=> u = openedObject /\ b \in {a}
  OBVIOUS
<1> HIDE DEF set
<1>6. /\ DOMAIN indexHash' = DOMAIN indexHash
      /\ \A u \in DOMAIN indexHash, b \in Attr :
           ~(u = openedObject /\ b \in {a}) => indexHash'[u].attr[b] = indexHash[u].attr[b]
  <2>1. DOMAIN indexHash' = DOMAIN indexHash
    BY <1>1, <1>3, <1>4, SetAllSets
  <2>2. ASSUME NEW u \in DOMAIN indexHash, NEW b \in Attr, ~(u = openedObject /\ b \in {a})
        PROVE  indexHash'[u].attr[b] = indexHash[u].attr[b]
    <3>1. <<u, b>> \notin DOMAIN set
      BY <1>5, <2>2
    <3> QED
      BY <1>1, <1>3, <1>4, <3>1, SetAllElsewhere
  <2> QED
    BY <2>1, <2>2
<1> QED
  BY <1>1, <1>2, <1>6, ChangeKeepsCommitted

LEMMA SetPointerKeepsCommitted ==
  ASSUME IInv, NEW a \in PointerAttr, NEW t \in Uuid \cup {Null}, SetPointerValue(a, t)
  PROVE  Committed' = Committed /\ Unwound' = Unwound
<1> DEFINE target == [k \in {<<openedObject, a>>} |-> t]
           linked == PointerUpdate(indexHash, Moves(indexHash, target))
<1>1. CASE PointerCrash(indexHash, Moves(indexHash, target))
  <2>1. UNCHANGED <<indexHash, createdObjects, deletedObjects, changedAttributes>>
    BY <1>1 DEF SetPointerValue, Die, lists
  <2> QED
    BY <2>1, CommittedIsBefore DEF Unwound
<1>2. CASE ~PointerCrash(indexHash, Moves(indexHash, target))
  <2>1. /\ openedObject # Null
        /\ indexHash' = SetAll(linked, target)
        /\ changedAttributes' = Recorded({a}, t)
        /\ UNCHANGED <<createdObjects, deletedObjects>>
    BY <1>2 DEF SetPointerValue
  <2>2. {a} \in SUBSET Attr /\ \A b \in {a} : t \in Content(b)
    BY DEF Attr, Content
  <2>3. openedObject \in Uuid /\ indexHash \in Store
    BY <2>1, StoreElim DEF IInv, TypeOK
  <2>4. DOMAIN target \subseteq Uuid \X Attr /\ \A k \in DOMAIN target : target[k] \in Content(k[2])
    BY <2>2, <2>3
  <2>5. \A u, b : <<u, b>> \in DOMAIN target <=> u = openedObject /\ b \in {a}
    OBVIOUS
  <2>6. /\ linked \in Store /\ DOMAIN linked = DOMAIN indexHash
        /\ \A u \in DOMAIN indexHash : linked[u].attr = indexHash[u].attr
    BY <2>3, PointerUpdateKeepsAttributes
  <2> HIDE DEF target, linked
  <2>7. /\ DOMAIN indexHash' = DOMAIN indexHash
        /\ \A u \in DOMAIN indexHash, b \in Attr :
             ~(u = openedObject /\ b \in {a}) => indexHash'[u].attr[b] = indexHash[u].attr[b]
    <3>1. DOMAIN indexHash' = DOMAIN indexHash
      BY <2>1, <2>4, <2>6, SetAllSets
    <3>2. ASSUME NEW u \in DOMAIN indexHash, NEW b \in Attr, ~(u = openedObject /\ b \in {a})
          PROVE  indexHash'[u].attr[b] = indexHash[u].attr[b]
      <4>1. <<u, b>> \notin DOMAIN target
        BY <2>5, <3>2
      <4>2. SetAll(linked, target)[u].attr[b] = linked[u].attr[b]
        BY <2>4, <2>6, <4>1, SetAllElsewhere
      <4>3. linked[u].attr = indexHash[u].attr
        BY <2>6
      <4> QED
        BY <2>1, <4>2, <4>3
    <3> QED
      BY <3>1, <3>2
  <2> QED
    BY <2>1, <2>2, <2>7, ChangeKeepsCommitted
<1> QED
  BY <1>1, <1>2

(* and a deletion, whose object is kept with its pointers set to Null but  *)
(* their old values recorded.                                              *)
LEMMA DeleteKeepsCommitted ==
  ASSUME IInv, DeleteObject
  PROVE  Committed' = Committed /\ Unwound' = Unwound
<1> DEFINE u == openedObject
           A == {a \in PointerAttr : indexHash[u].attr[a] # Null}
           nulls == [k \in {u} \X A |-> Null]
           nulled == Nulled(indexHash, u, A, Moves(indexHash, nulls))
<1>1. CASE PointerCrash(indexHash, Moves(indexHash, nulls))
  <2>1. UNCHANGED <<indexHash, createdObjects, deletedObjects, changedAttributes>>
    BY <1>1 DEF DeleteObject, Die, lists
  <2> QED
    BY <2>1, CommittedIsBefore DEF Unwound
<1>2. CASE ~PointerCrash(indexHash, Moves(indexHash, nulls))
  <2>1. fault' = "none"
    BY <1>2 DEF DeleteObject, Running
  <2>2. /\ indexHash' = Restrict(nulled, DOMAIN indexHash \ {u})
        /\ deletedObjects' = Joined([x \in {u} |-> nulled[u]], deletedObjects)
        /\ changedAttributes' = Recorded(A, Null)
        /\ createdObjects' = createdObjects
        /\ u \in DOMAIN indexHash
    BY <2>1, DeleteElim
  <2>3. A \in SUBSET PointerAttr /\ A \in SUBSET Attr /\ \A a \in A : Null \in Content(a)
    BY DEF Attr, Content
  <2>4. indexHash \in Store /\ DOMAIN indexHash \cap DOMAIN deletedObjects = {}
    BY DEF IInv, TypeOK, ListsMatchStore
  <2>5. \A x \in DOMAIN indexHash, a \in Attr :
          nulled[x].attr[a] = IF x = u /\ a \in A THEN Null ELSE indexHash[x].attr[a]
    <3> HIDE DEF A, nulls, u
    <3> QED
      BY <2>2, <2>3, <2>4, NulledPointers
  <2> HIDE DEF A, nulled
  <2>6. /\ DOMAIN indexHash' = DOMAIN indexHash \ {u}
        /\ \A x \in DOMAIN indexHash \ {u} : indexHash'[x] = nulled[x]
    BY <2>2 DEF Restrict
  <2>7. /\ DOMAIN deletedObjects' = {u} \cup DOMAIN deletedObjects
        /\ deletedObjects'[u] = nulled[u]
        /\ \A x \in DOMAIN deletedObjects \ {u} : deletedObjects'[x] = deletedObjects[x]
    BY <2>2 DEF Joined
  <2>8. DOMAIN indexHash' \cup DOMAIN deletedObjects' = DOMAIN indexHash \cup DOMAIN deletedObjects
    BY <2>2, <2>6, <2>7
  <2>9. ASSUME NEW x \in DOMAIN indexHash' \cup DOMAIN deletedObjects', NEW a \in Attr,
               ~(x = openedObject /\ a \in A)
        PROVE  Joined(indexHash', deletedObjects')[x].attr[a]
                 = Joined(indexHash, deletedObjects)[x].attr[a]
    <3>1. CASE x \in DOMAIN indexHash
      <4>1. Joined(indexHash', deletedObjects')[x] = nulled[x]
        BY <2>6, <2>7, <3>1 DEF Joined
      <4>2. Joined(indexHash, deletedObjects)[x] = indexHash[x]
        BY <3>1 DEF Joined
      <4> QED
        BY <2>5, <2>9, <3>1, <4>1, <4>2
    <3>2. CASE x \notin DOMAIN indexHash
      <4>1. x \in DOMAIN deletedObjects \ {u} /\ x \notin DOMAIN indexHash'
        BY <2>2, <2>6, <2>8, <3>2
      <4> QED
        BY <2>7, <3>2, <4>1 DEF Joined
    <3> QED
      BY <3>1, <3>2
  <2>10. ASSUME NEW created
         PROVE  Before(indexHash', created, deletedObjects', Recorded(A, Null))
                  = Before(indexHash, created, deletedObjects, changedAttributes)
    BY <2>2, <2>3, <2>8, <2>9, RecordingKeepsBefore
  <2> QED
    BY <2>2, <2>10, CommittedIsBefore DEF Unwound
<1> QED
  BY <1>1, <1>2

(* No step inside a transaction changes what an abort would go back to. *)
LEMMA CommittedIsKept ==
  ASSUME IInv, [Next]_vars, inTransaction, inTransaction'
  PROVE  Committed' = Committed
<1>1. ASSUME UNCHANGED <<indexHash, createdObjects, deletedObjects, changedAttributes>>
      PROVE  Committed' = Committed
  BY <1>1, CommittedIsBefore
<1>2. CASE AbortTransaction
  <2>1. UNCHANGED <<indexHash, createdObjects, deletedObjects, changedAttributes>>
    BY <1>2 DEF AbortTransaction, Die, lists
  <2> QED
    BY <1>1, <2>1
<1>3. ASSUME NEW u \in Uuid, CreateObject(u)
      PROVE  Committed' = Committed
  BY <1>3, CreateKeepsCommitted
<1>4. CASE DeleteObject
  BY <1>4, DeleteKeepsCommitted
<1>5. ASSUME NEW a \in ValueAttr, NEW v \in Value, SetAttributeValue(a, v)
      PROVE  Committed' = Committed
  BY <1>5, SetAttributeKeepsCommitted
<1>6. ASSUME NEW a \in PointerAttr, NEW t \in Uuid \cup {Null}, SetPointerValue(a, t)
      PROVE  Committed' = Committed
  BY <1>6, SetPointerKeepsCommitted
<1>7. CASE CloseObject \/ (\E u \in Uuid : OpenObject(u))
  BY <1>1, <1>7 DEF CloseObject, OpenObject, lists
<1>8. CASE EnableJournaling \/ DisableJournaling \/ UNCHANGED vars
  BY <1>1, <1>8 DEF EnableJournaling, DisableJournaling, vars, lists
<1>9. ~BeginTransaction /\ ~CommitTransaction /\ ~Undo /\ ~Redo /\ ~Save
  BY DEF BeginTransaction, CommitTransaction, Undo, Redo, Save
<1> QED
  BY <1>2, <1>3, <1>4, <1>5, <1>6, <1>7, <1>8, <1>9 DEF Next

(* An abort that succeeds goes back to it. *)
LEMMA AbortRestoresCommitted ==
  ASSUME IInv, AbortTransaction, fault' = "none"
  PROVE  View' = Committed
<1> DEFINE s == indexHash
           after == Rollback(s, Transaction)
<1>1. indexHash' = after
  BY DEF AbortTransaction, Die
<1>2. s \in Store /\ Transaction \in Entry
  BY DEF IInv, TypeOK
<1>3. /\ after \in Store
      /\ DOMAIN after = (DOMAIN s \cup DOMAIN deletedObjects) \ createdObjects
      /\ \A u \in DOMAIN after, a \in Attr :
           after[u].attr[a] =
             IF <<u, a>> \in DOMAIN changedAttributes THEN changedAttributes[<<u, a>>].old
             ELSE Joined(s, deletedObjects)[u].attr[a]
  BY <1>2, RollbackRestores DEF Transaction
<1> HIDE DEF after
<1>4. \A u \in DOMAIN after : after[u].attr = [a \in Attr |-> after[u].attr[a]]
  BY <1>3, StoreElim, ObjectElim
<1>5. View' = [u \in DOMAIN after |-> after[u].attr]
  BY <1>1 DEF View
<1>6. View' = Before(s, createdObjects, deletedObjects, changedAttributes)
  BY <1>3, <1>4, <1>5, ZenonT(40) DEF Before
<1> QED
  BY <1>6, CommittedIsBefore

(* A transaction starts from the store as it is. *)
LEMMA BeginCommits ==
  ASSUME IInv, BeginTransaction
  PROVE  Committed' = View
<1>1. /\ indexHash' = indexHash /\ createdObjects' = {}
      /\ DOMAIN changedAttributes' = {} /\ DOMAIN deletedObjects' = {}
  BY DEF BeginTransaction, lists, IInv, ListsMatchStore, IsEmpty, Transaction
<1>2. indexHash \in Store
  BY DEF IInv, TypeOK
<1>3. \A u \in DOMAIN indexHash : indexHash[u].attr = [a \in Attr |-> indexHash[u].attr[a]]
  BY <1>2, StoreElim, ObjectElim
<1>4. Before(indexHash, {}, deletedObjects', changedAttributes') = View
  BY <1>1, <1>3 DEF Before, Joined, View
<1> QED
  BY <1>1, <1>4, CommittedIsBefore

--------------------------------------------------------------------------------
(* The line of stores that the journal stands for, as sets of uuids.       *)

(* The uuids in the store that an abort would go back to.                  *)
CommittedUuids == (DOMAIN indexHash \cup DOMAIN deletedObjects) \ createdObjects

(* A transaction that led from one set of uuids to another.                *)
Fits(e, before, after) ==
  /\ after \cap DOMAIN e.deleted = {}
  /\ e.created \subseteq after \cup DOMAIN e.deleted
  /\ \A k \in DOMAIN e.changed : k[1] \in after \cup DOMAIN e.deleted
  /\ before = (after \cup DOMAIN e.deleted) \ e.created

(* The two directions in which an entry is met.                            *)
Step == Entry \X (SUBSET Uuid) \X (SUBSET Uuid)
TakenBack == {s \in Step : Fits(s[1], s[2], s[3])}
DoneAgain == {s \in Step : Fits(s[1], s[3], s[2])}

(* There are sets of uuids, one before each entry of the list and the      *)
(* present one after the last, between which the entries lead.             *)
LineTo(list, present, T, S) ==
  \E D \in [1 .. Len(list) + 1 -> T] :
    /\ D[Len(list) + 1] = present
    /\ \A i \in 1 .. Len(list) : <<list[i], D[i], D[i + 1]>> \in S

Lines ==
  /\ LineTo(undoList, CommittedUuids, SUBSET Uuid, TakenBack)
  /\ LineTo(redoList, CommittedUuids, SUBSET Uuid, DoneAgain)
  /\ ~isJournaling => undoList = << >> /\ redoList = << >>
  /\ AssertionsHold

LEMMA LineOfNothing ==
  ASSUME NEW T, NEW b \in T, NEW S
  PROVE  LineTo(<< >>, b, T, S)
<1> DEFINE D == [i \in 1 .. 1 |-> b]
<1>1. Len(<< >>) = 0 /\ D \in [1 .. Len(<< >>) + 1 -> T] /\ D[Len(<< >>) + 1] = b
  OBVIOUS
<1> HIDE DEF D
<1> QED
  BY <1>1 DEF LineTo

LEMMA LineGrows ==
  ASSUME NEW list \in Seq(Entry), NEW e \in Entry, NEW T, NEW S,
         NEW b \in T, NEW c \in T,
         LineTo(list, b, T, S), <<e, b, c>> \in S
  PROVE  LineTo(Append(list, e), c, T, S)
<1> DEFINE n == Len(list)
<1>1. PICK D \in [1 .. n + 1 -> T] :
        D[n + 1] = b /\ \A i \in 1 .. n : <<list[i], D[i], D[i + 1]>> \in S
  BY DEF LineTo
<1> DEFINE F == [i \in 1 .. n + 2 |-> IF i = n + 2 THEN c ELSE D[i]]
<1>2. n \in Nat /\ Len(Append(list, e)) = n + 1 /\ (n + 1) + 1 = n + 2
  OBVIOUS
<1>3. F \in [1 .. n + 2 -> T] /\ F[n + 2] = c /\ F[n + 1] = b
  BY <1>1, <1>2
<1>4. ASSUME NEW i \in 1 .. n + 1
      PROVE  <<Append(list, e)[i], F[i], F[i + 1]>> \in S
  <2>1. CASE i = n + 1
    <3>1. Append(list, e)[i] = e /\ F[i] = b /\ F[i + 1] = c
      BY <1>2, <1>3, <2>1
    <3> QED
      BY <3>1
  <2>2. CASE i \in 1 .. n
    <3>1. Append(list, e)[i] = list[i] /\ F[i] = D[i] /\ F[i + 1] = D[i + 1]
      BY <1>2, <2>2
    <3> QED
      BY <1>1, <2>2, <3>1
  <2>3. i = n + 1 \/ i \in 1 .. n
    BY <1>2
  <2> HIDE DEF F, n
  <2> QED
    BY <2>1, <2>2, <2>3
<1> HIDE DEF F, n
<1> QED
  BY <1>2, <1>3, <1>4 DEF LineTo

LEMMA LineShrinks ==
  ASSUME NEW list \in Seq(Entry), list # << >>, NEW T, NEW S,
         NEW c \in T, LineTo(list, c, T, S)
  PROVE  \E b \in T : LineTo(Front(list), b, T, S) /\ <<Last(list), b, c>> \in S
<1> DEFINE n == Len(list)
<1>1. PICK D \in [1 .. n + 1 -> T] :
        D[n + 1] = c /\ \A i \in 1 .. n : <<list[i], D[i], D[i + 1]>> \in S
  BY DEF LineTo
<1>2. /\ n \in Nat \ {0} /\ n \in 1 .. n
      /\ Last(list) = list[n] /\ Len(Front(list)) = n - 1 /\ (n - 1) + 1 = n
      /\ \A i \in 1 .. n - 1 : Front(list)[i] = list[i]
  BY FrontShortens
<1>3. <<Last(list), D[n], c>> \in S /\ D[n] \in T
  BY <1>1, <1>2
<1>4. LineTo(Front(list), D[n], T, S)
  <2> DEFINE F == [i \in 1 .. n |-> D[i]]
  <2>1. F \in [1 .. n -> T] /\ F[n] = D[n]
    BY <1>1, <1>2
  <2>2. ASSUME NEW i \in 1 .. n - 1
        PROVE  <<Front(list)[i], F[i], F[i + 1]>> \in S
    <3>1. i \in 1 .. n /\ Front(list)[i] = list[i] /\ F[i] = D[i] /\ F[i + 1] = D[i + 1]
      BY <1>2
    <3> QED
      BY <1>1, <3>1
  <2> HIDE DEF F, n
  <2> QED
    BY <1>2, <2>1, <2>2 DEF LineTo
<1> QED
  BY <1>3, <1>4

(* A line without its oldest entry.                                        *)
LEMMA LineTrimmed ==
  ASSUME NEW list \in Seq(Entry), NEW m \in 0 .. Len(list), NEW T, NEW S,
         NEW c \in T, LineTo(list, c, T, S)
  PROVE  LineTo(SubSeq(list, m + 1, Len(list)), c, T, S)
<1> DEFINE n == Len(list)
           kept == SubSeq(list, m + 1, n)
<1>1. PICK D \in [1 .. n + 1 -> T] :
        D[n + 1] = c /\ \A i \in 1 .. n : <<list[i], D[i], D[i + 1]>> \in S
  BY DEF LineTo
<1>2. /\ n \in Nat /\ m \in Nat /\ n - m \in Nat
      /\ Len(kept) = n - m
      /\ \A i \in 1 .. n - m : kept[i] = list[i + m]
  <2>1. n \in Nat /\ m \in Nat /\ m <= n
    OBVIOUS
  <2>2. m + 1 \in 1 .. Len(list) + 1 /\ Len(list) \in (m + 1) - 1 .. Len(list)
    BY <2>1
  <2> QED
    BY <2>1, <2>2, SubSeqProperties
<1> HIDE DEF kept
<1> DEFINE F == [i \in 1 .. (n - m) + 1 |-> D[i + m]]
<1>3. F \in [1 .. (n - m) + 1 -> T] /\ F[(n - m) + 1] = c
  <2>1. \A i \in 1 .. (n - m) + 1 : i + m \in 1 .. n + 1
    BY <1>2
  <2>2. ((n - m) + 1) + m = n + 1 /\ (n - m) + 1 \in 1 .. (n - m) + 1
    BY <1>2
  <2> QED
    BY <1>1, <2>1, <2>2
<1>4. ASSUME NEW i \in 1 .. n - m
      PROVE  <<kept[i], F[i], F[i + 1]>> \in S
  <2>1. /\ i + m \in 1 .. n /\ (i + 1) + m = (i + m) + 1
        /\ i \in 1 .. (n - m) + 1 /\ i + 1 \in 1 .. (n - m) + 1
    BY <1>2
  <2>2. kept[i] = list[i + m] /\ F[i] = D[i + m] /\ F[i + 1] = D[(i + m) + 1]
    BY <1>2, <2>1
  <2> QED
    BY <1>1, <2>1, <2>2
<1> HIDE DEF F, n
<1>5. LineTo(kept, c, T, S)
  BY <1>2, <1>3, <1>4 DEF LineTo
<1> QED
  BY <1>5 DEF kept, n

(* Taking an entry back leads to the set before it and fails no assertion, *)
(* doing it again leads to the set after it.                               *)
LEMMA FitsTakenBack ==
  ASSUME NEW s \in Store, NEW e \in Entry, NEW b, Fits(e, b, DOMAIN s)
  PROVE  RollbackOutcome(s, e) # "assert" /\ DOMAIN Rollback(s, e) = b
<1>1. DOMAIN Joined(s, e.deleted) = DOMAIN s \cup DOMAIN e.deleted
  BY EntryElim, JoinIsStore
<1>2. RollbackOutcome(s, e) # "assert"
  BY <1>1 DEF RollbackOutcome, Fits
<1> QED
  BY <1>2, RollbackRestores DEF Fits

LEMMA FitsDoneAgain ==
  ASSUME NEW s \in Store, NEW e \in Entry, NEW b, Fits(e, DOMAIN s, b)
  PROVE  ReplayOutcome(s, e) # "assert" /\ DOMAIN Replay(s, e) = b
<1>1. DOMAIN Replayed(s, e) = DOMAIN s \cup e.created
  BY DEF Replayed, Joined
<1>2. DOMAIN s \cup e.created = b \cup DOMAIN e.deleted
  BY DEF Fits
<1>3. ReplayOutcome(s, e) # "assert"
  BY <1>1, <1>2 DEF ReplayOutcome, Fits
<1> QED
  BY <1>2, <1>3, ReplayIsStore DEF Fits

LEMMA CommittedAreUuids == TypeOK => CommittedUuids \subseteq Uuid
BY TransactionElim, StoreElim DEF TypeOK, CommittedUuids

(* The open transaction leads to the store as it is.                       *)
LEMMA TransactionFits ==
  ASSUME IInv
  PROVE  Fits(Transaction, CommittedUuids, DOMAIN indexHash)
BY DEF IInv, ListsMatchStore, Fits, Transaction, CommittedUuids

LEMMA NothingChanged ==
  ASSUME IsEmpty(Transaction)
  PROVE  CommittedUuids = DOMAIN indexHash
BY DEF IsEmpty, Transaction, CommittedUuids

(* The uuids of a view that is taken back.                                 *)
LEMMA BackwardUuids ==
  ASSUME NEW v, NEW e
  PROVE  DOMAIN Backward(v, e) = (DOMAIN v \cup DOMAIN e.deleted) \ e.created
BY DEF Backward, Joined

(* Within a transaction nothing changes where an abort would lead.         *)
LEMMA CommittedUuidsKept ==
  ASSUME IInv, [Next]_vars, inTransaction, inTransaction'
  PROVE  CommittedUuids' = CommittedUuids
<1>1. DOMAIN Committed = CommittedUuids
  BY BackwardUuids DEF Committed, View, Transaction, CommittedUuids
<1>2. DOMAIN Committed' = CommittedUuids'
  BY BackwardUuids DEF Committed, View, Transaction, CommittedUuids
<1> QED
  BY <1>1, <1>2, CommittedIsKept

(* Steps that leave the journal alone and the uuids that an abort would    *)
(* lead to, too.                                                           *)
LEMMA SameLines ==
  ASSUME Lines, UNCHANGED <<undoList, redoList>>, CommittedUuids' = CommittedUuids,
         isJournaling' \/ isJournaling' = isJournaling, fault' # "assert"
  PROVE  Lines'
BY DEF Lines, LineTo, AssertionsHold

(* The end of a transaction that is not journaled, or not any more.        *)
LEMMA UnjournaledLines ==
  ASSUME IInv, Lines, IInv',
         IsEmpty(Transaction) \/ ~isJournaling,
         undoList' = undoList, redoList' \in {redoList, << >>}, ClearLists,
         UNCHANGED <<indexHash, isJournaling, fault>>
  PROVE  Lines'
<1>1. CommittedUuids' = DOMAIN indexHash /\ CommittedUuids' \in SUBSET Uuid
  <2>1. createdObjects' = {} /\ DOMAIN deletedObjects' = {}
    BY ClearListsEmpties
  <2>2. DOMAIN indexHash \subseteq Uuid
    BY StoreElim DEF IInv, TypeOK
  <2> QED
    BY <2>1, <2>2 DEF CommittedUuids
<1>2. LineTo(undoList', CommittedUuids', SUBSET Uuid, TakenBack) /\ LineTo(redoList', CommittedUuids', SUBSET Uuid, DoneAgain)
  <2>1. CASE IsEmpty(Transaction)
    BY <1>1, <2>1, NothingChanged, LineOfNothing DEF Lines
  <2>2. CASE ~isJournaling
    BY <1>1, <2>2, LineOfNothing DEF Lines
  <2> QED
    BY <2>1, <2>2
<1> QED
  BY <1>2 DEF Lines, AssertionsHold

LEMMA JournaledLines ==
  ASSUME IInv, Lines, Journal(Transaction), isJournaling, ClearLists,
         UNCHANGED <<indexHash, isJournaling, fault>>
  PROVE  Lines'
<1> DEFINE n == IF Len(undoList) = MaxUndo THEN 1 ELSE 0
           kept == SubSeq(undoList, n + 1, Len(undoList))
<1>1. undoList' = Append(kept, Transaction) /\ redoList' = << >>
  BY DEF Journal
<1>2. /\ undoList \in Seq(Entry) /\ Transaction \in Entry
      /\ MaxUndo \in Nat \ {0} /\ Len(undoList) \in Nat
      /\ DOMAIN indexHash \in SUBSET Uuid /\ CommittedUuids \in SUBSET Uuid
  BY ConstantsAssumption, StoreElim, CommittedAreUuids DEF IInv, TypeOK
<1>3. n \in 0 .. Len(undoList)
  BY <1>2
<1> HIDE DEF n
<1>4. LineTo(kept, CommittedUuids, SUBSET Uuid, TakenBack)
  BY <1>2, <1>3, LineTrimmed DEF Lines
<1>5. kept \in Seq(Entry)
  <2>1. n + 1 \in 1 .. Len(undoList) + 1 /\ Len(undoList) \in (n + 1) - 1 .. Len(undoList)
    BY <1>2, <1>3
  <2> QED
    BY <1>2, <2>1, SubSeqProperties
<1>6. <<Transaction, CommittedUuids, DOMAIN indexHash>> \in TakenBack
  BY <1>2, TransactionFits DEF TakenBack, Step
<1> HIDE DEF kept
<1>7. LineTo(undoList', DOMAIN indexHash, SUBSET Uuid, TakenBack)
  BY <1>1, <1>2, <1>4, <1>5, <1>6, LineGrows
<1>8. CommittedUuids' = DOMAIN indexHash
  BY ClearListsEmpties DEF CommittedUuids
<1> QED
  BY <1>1, <1>2, <1>7, <1>8, LineOfNothing DEF Lines, AssertionsHold

LEMMA AbortLines ==
  ASSUME IInv, Lines, AbortTransaction
  PROVE  Lines'
<1>1. /\ RollbackOutcome(indexHash, Transaction) # "assert"
      /\ DOMAIN Rollback(indexHash, Transaction) = CommittedUuids
  BY TransactionFits, FitsTakenBack DEF IInv, TypeOK
<1>2. CASE RollbackOutcome(indexHash, Transaction) # "none"
  <2>1. /\ fault' # "assert"
        /\ UNCHANGED <<indexHash, createdObjects, deletedObjects, isJournaling,
                       undoList, redoList>>
    BY <1>1, <1>2 DEF AbortTransaction, Die, lists, journal
  <2> QED
    BY <2>1, SameLines DEF CommittedUuids
<1>3. CASE RollbackOutcome(indexHash, Transaction) = "none"
  <2>1. /\ indexHash' = Rollback(indexHash, Transaction) /\ ClearLists
        /\ UNCHANGED <<isJournaling, undoList, redoList, fault>>
    BY <1>3 DEF AbortTransaction, journal
  <2>2. CommittedUuids' = CommittedUuids
    BY <1>1, <2>1, ClearListsEmpties DEF CommittedUuids
  <2> QED
    BY <2>1, <2>2, SameLines DEF Lines, AssertionsHold
<1> QED
  BY <1>2, <1>3

LEMMA UndoLines ==
  ASSUME IInv, Lines, Undo
  PROVE  Lines'
<1> DEFINE e == Last(undoList)
<1>1. /\ undoList # << >> /\ isJournaling /\ ~inTransaction
      /\ undoList \in Seq(Entry) /\ redoList \in Seq(Entry) /\ indexHash \in Store
      /\ e \in Entry
  BY FrontShortens DEF Undo, Lines, IInv, TypeOK
<1>2. CommittedUuids = DOMAIN indexHash /\ CommittedUuids \in SUBSET Uuid
  BY <1>1, NothingChanged, CommittedAreUuids DEF IInv, ListsMatchStore
<1>3. PICK b \in SUBSET Uuid :
        LineTo(Front(undoList), b, SUBSET Uuid, TakenBack) /\ <<e, b, CommittedUuids>> \in TakenBack
  BY <1>1, <1>2, LineShrinks DEF Lines
<1> HIDE DEF e
<1>4. Fits(e, b, CommittedUuids)
  BY <1>3 DEF TakenBack
<1>5. RollbackOutcome(indexHash, e) # "assert" /\ DOMAIN Rollback(indexHash, e) = b
  BY <1>1, <1>2, <1>4, FitsTakenBack
<1>6. CASE RollbackOutcome(indexHash, e) # "none"
  <2>1. /\ fault' # "assert"
        /\ UNCHANGED <<indexHash, createdObjects, deletedObjects, isJournaling,
                       undoList, redoList>>
    BY <1>5, <1>6 DEF Undo, Die, lists, journal, e
  <2> QED
    BY <2>1, SameLines DEF CommittedUuids
<1>7. CASE RollbackOutcome(indexHash, e) = "none"
  <2>1. /\ indexHash' = Rollback(indexHash, e)
        /\ undoList' = Front(undoList) /\ redoList' = Append(redoList, e)
        /\ UNCHANGED <<createdObjects, deletedObjects, isJournaling, fault>>
    BY <1>7 DEF Undo, lists, e
  <2>2. CommittedUuids' = b
    <3>1. createdObjects = {} /\ DOMAIN deletedObjects = {}
      BY <1>1 DEF IInv, ListsMatchStore, IsEmpty, Transaction
    <3> QED
      BY <1>5, <2>1, <3>1 DEF CommittedUuids
  <2>3. <<e, CommittedUuids, b>> \in DoneAgain
    BY <1>1, <1>2, <1>4 DEF DoneAgain, Step
  <2>4. LineTo(redoList', b, SUBSET Uuid, DoneAgain)
    BY <1>1, <1>2, <2>1, <2>3, LineGrows DEF Lines
  <2> QED
    BY <1>1, <1>3, <2>1, <2>2, <2>4 DEF Lines, AssertionsHold
<1> QED
  BY <1>6, <1>7

LEMMA RedoLines ==
  ASSUME IInv, Lines, Redo
  PROVE  Lines'
<1> DEFINE e == Last(redoList)
<1>1. /\ redoList # << >> /\ isJournaling /\ ~inTransaction
      /\ undoList \in Seq(Entry) /\ redoList \in Seq(Entry) /\ indexHash \in Store
      /\ e \in Entry
  BY FrontShortens DEF Redo, Lines, IInv, TypeOK
<1>2. CommittedUuids = DOMAIN indexHash /\ CommittedUuids \in SUBSET Uuid
  BY <1>1, NothingChanged, CommittedAreUuids DEF IInv, ListsMatchStore
<1>3. PICK b \in SUBSET Uuid :
        LineTo(Front(redoList), b, SUBSET Uuid, DoneAgain) /\ <<e, b, CommittedUuids>> \in DoneAgain
  BY <1>1, <1>2, LineShrinks DEF Lines
<1> HIDE DEF e
<1>4. Fits(e, CommittedUuids, b)
  BY <1>3 DEF DoneAgain
<1>5. ReplayOutcome(indexHash, e) # "assert" /\ DOMAIN Replay(indexHash, e) = b
  BY <1>1, <1>2, <1>4, FitsDoneAgain
<1>6. CASE ReplayOutcome(indexHash, e) # "none"
  <2>1. /\ fault' # "assert"
        /\ UNCHANGED <<indexHash, createdObjects, deletedObjects, isJournaling,
                       undoList, redoList>>
    BY <1>5, <1>6 DEF Redo, Die, lists, journal, e
  <2> QED
    BY <2>1, SameLines DEF CommittedUuids
<1>7. CASE ReplayOutcome(indexHash, e) = "none"
  <2>1. /\ indexHash' = Replay(indexHash, e)
        /\ redoList' = Front(redoList) /\ undoList' = Append(undoList, e)
        /\ UNCHANGED <<createdObjects, deletedObjects, isJournaling, fault>>
    BY <1>7 DEF Redo, lists, e
  <2>2. CommittedUuids' = b
    <3>1. createdObjects = {} /\ DOMAIN deletedObjects = {}
      BY <1>1 DEF IInv, ListsMatchStore, IsEmpty, Transaction
    <3> QED
      BY <1>5, <2>1, <3>1 DEF CommittedUuids
  <2>3. <<e, CommittedUuids, b>> \in TakenBack
    BY <1>1, <1>2, <1>4 DEF TakenBack, Step
  <2>4. LineTo(undoList', b, SUBSET Uuid, TakenBack)
    BY <1>1, <1>2, <2>1, <2>3, LineGrows DEF Lines
  <2> QED
    BY <1>1, <1>3, <2>1, <2>2, <2>4 DEF Lines, AssertionsHold
<1> QED
  BY <1>6, <1>7

LEMMA DisableJournalingLines ==
  ASSUME IInv, Lines, DisableJournaling
  PROVE  Lines'
<1>1. /\ undoList' = SubSeq(undoList, Len(undoList) + 1, Len(undoList)) /\ redoList' = << >>
      /\ UNCHANGED <<indexHash, createdObjects, deletedObjects, fault>>
  BY DEF DisableJournaling, FlushUndoRedo, lists
<1>2. undoList' = << >>
  BY <1>1, SubSeqEmpty DEF IInv, TypeOK
<1>3. CommittedUuids' = CommittedUuids /\ CommittedUuids \in SUBSET Uuid
  BY <1>1, CommittedAreUuids DEF IInv, CommittedUuids
<1> QED
  BY <1>1, <1>2, <1>3, LineOfNothing DEF Lines, AssertionsHold

LEMMA InitLines == Init => Lines
<1> SUFFICES ASSUME Init PROVE Lines
  OBVIOUS
<1>1. undoList = << >> /\ redoList = << >> /\ AssertionsHold
  BY DEF Init, AssertionsHold
<1>2. CommittedUuids \in SUBSET Uuid
  BY InitIInv, CommittedAreUuids DEF IInv
<1> QED
  BY <1>1, <1>2, LineOfNothing DEF Lines

LEMMA NextLines ==
  ASSUME IInv, Lines, [Next]_vars
  PROVE  Lines'
<1>1. IInv'
  BY NextIInv
<1>2. CASE AbortTransaction
  BY <1>2, AbortLines
<1>3. CASE Undo
  BY <1>3, UndoLines
<1>4. CASE Redo
  BY <1>4, RedoLines
<1>5. CASE DisableJournaling
  BY <1>5, DisableJournalingLines
<1>6. CASE CommitTransaction \/ Save
  <2>1. /\ ClearLists /\ UNCHANGED <<indexHash, isJournaling, fault>>
    BY <1>6 DEF CommitTransaction, Save
  <2>2. \/ Journal(Transaction) /\ isJournaling
        \/ /\ IsEmpty(Transaction) \/ ~isJournaling
           /\ undoList' = undoList /\ redoList' \in {redoList, << >>}
    BY <1>6 DEF CommitTransaction, Save, IInv, ListsMatchStore
  <2> QED
    BY <1>1, <2>1, <2>2, JournaledLines, UnjournaledLines
<1>7. CASE EnableJournaling \/ BeginTransaction \/ UNCHANGED vars
  <2>1. /\ UNCHANGED <<indexHash, createdObjects, deletedObjects, undoList, redoList, fault>>
        /\ isJournaling' \/ isJournaling' = isJournaling
    BY <1>7 DEF EnableJournaling, BeginTransaction, vars, lists, journal
  <2> QED
    BY <2>1, SameLines DEF CommittedUuids, Lines, AssertionsHold
<1>8. CASE \/ CloseObject \/ DeleteObject
           \/ \E u \in Uuid : OpenObject(u)
           \/ \E u \in Uuid : CreateObject(u)
           \/ \E a \in ValueAttr, v \in Value : SetAttributeValue(a, v)
           \/ \E a \in PointerAttr, t \in Uuid \cup {Null} : SetPointerValue(a, t)
  <2>1. /\ inTransaction /\ inTransaction'
        /\ UNCHANGED journal
        /\ fault' = fault \/ fault' = "crash"
    BY <1>8 DEF CloseObject, DeleteObject, OpenObject, CreateObject, SetAttributeValue,
                SetPointerValue, Die, cursor
  <2>2. UNCHANGED <<isJournaling, undoList, redoList>>
    BY <2>1 DEF journal
  <2>3. CommittedUuids' = CommittedUuids
    BY <2>1, CommittedUuidsKept
  <2> QED
    BY <2>1, <2>2, <2>3, SameLines DEF Lines, AssertionsHold
<1> QED
  BY <1>2, <1>3, <1>4, <1>5, <1>6, <1>7, <1>8 DEF Next

--------------------------------------------------------------------------------
(* Theorems.                                                               *)

(* The store, the cursor, the change lists and the journal keep their      *)
(* types, a malformed string never gets into an object, and the open       *)
(* object is always a live one, whatever calls are made in whatever order. *)
THEOREM TypeCorrect == Spec => []TypeOK
<1>1. IInv /\ [Next]_vars => IInv'
  BY NextIInv
<1>2. IInv => TypeOK
  BY DEF IInv
<1> QED
  BY InitIInv, <1>1, <1>2, PTL DEF Spec

(* The change lists that CreateObject, DeleteObject and the setters write  *)
(* match the store: whatever they name is there or among the deleted, and  *)
(* no uuid they or the journal name can be handed out again.               *)
THEOREM ListsAreKept == Spec => [](ListsMatchStore /\ UuidsAreUsed)
<1>1. IInv /\ [Next]_vars => IInv'
  BY NextIInv
<1>2. IInv => ListsMatchStore /\ UuidsAreUsed
  BY DEF IInv
<1> QED
  BY InitIInv, <1>1, <1>2, PTL DEF Spec

(* Transactions are atomic: whatever is created, deleted and set in one,   *)
(* in whatever order, the change lists go on standing for the store at     *)
(* BeginTransaction, and an abort that ends brings exactly that store back.*)
THEOREM AtomicTransactions == Spec => TransactionsAreAtomic
<1> DEFINE Atomic ==
      /\ inTransaction /\ inTransaction' => Committed' = Committed
      /\ AbortTransaction /\ fault' = "none" => View' = Committed
      /\ BeginTransaction => Committed' = View
<1>1. IInv /\ [Next]_vars => IInv'
  BY NextIInv
<1>2. IInv /\ [Next]_vars => [Atomic]_vars
  BY CommittedIsKept, AbortRestoresCommitted, BeginCommits
<1> QED
  BY InitIInv, <1>1, <1>2, PTL DEF Spec, TransactionsAreAtomic

(* Undo, redo and journaling together never remember more than MaxUndo     *)
(* transactions, although Redo does not trim the undo list: every step     *)
(* either moves one entry from a list to the other or, in a commit, drops  *)
(* the redo list and trims the undo list before it appends to it.          *)
THEOREM JournalIsBounded == Spec => []JournalBounded
<1>1. Init => JournalBounded
  BY ConstantsAssumption DEF Init, JournalBounded
<1>2. IInv /\ JournalBounded /\ [Next]_vars => JournalBounded'
  <2> SUFFICES ASSUME IInv, JournalBounded, [Next]_vars
               PROVE  JournalBounded'
    OBVIOUS
  <2>1. /\ MaxUndo \in Nat \ {0}
        /\ undoList \in Seq(Entry) /\ redoList \in Seq(Entry)
        /\ Transaction \in Entry
        /\ Len(undoList) \in Nat /\ Len(redoList) \in Nat
        /\ Len(undoList) + Len(redoList) <= MaxUndo
    BY ConstantsAssumption DEF IInv, TypeOK, JournalBounded
  <2>2. CASE UNCHANGED <<undoList, redoList>>
    BY <2>1, <2>2 DEF JournalBounded
  <2>3. CASE Journal(Transaction)
    <3>1. /\ Len(undoList') \in 1..Len(undoList) + 1 /\ redoList' = << >>
          /\ Len(undoList) < MaxUndo => Len(undoList') = Len(undoList) + 1
          /\ Len(undoList) = MaxUndo => Len(undoList') = Len(undoList)
      BY <2>1, <2>3, JournalExtends
    <3>2. Len(redoList') = 0
      BY <3>1
    <3> QED
      BY <2>1, <3>1, <3>2 DEF JournalBounded
  <2>4. CASE Undo
    <3>1. UNCHANGED <<undoList, redoList>> \/
            /\ undoList # << >>
            /\ undoList' = Front(undoList)
            /\ redoList' = Append(redoList, Last(undoList))
      BY <2>4 DEF Undo, Die, journal
    <3> QED
      BY <2>1, <2>2, <3>1, FrontShortens, AppendExtends DEF JournalBounded
  <2>5. CASE Redo
    <3>1. UNCHANGED <<undoList, redoList>> \/
            /\ redoList # << >>
            /\ redoList' = Front(redoList)
            /\ undoList' = Append(undoList, Last(redoList))
      BY <2>5 DEF Redo, Die, journal
    <3> QED
      BY <2>1, <2>2, <3>1, FrontShortens, AppendExtends DEF JournalBounded
  <2>6. CASE DisableJournaling
    <3>1. undoList' = SubSeq(undoList, Len(undoList) + 1, Len(undoList)) /\ redoList' = << >>
      BY <2>6 DEF DisableJournaling, FlushUndoRedo
    <3>2. undoList' = << >>
      BY <2>1, <3>1, SubSeqEmpty
    <3> QED
      BY <2>1, <3>1, <3>2 DEF JournalBounded
  <2>7. \/ UNCHANGED <<undoList, redoList>>
        \/ undoList' = undoList /\ redoList' = << >>
        \/ Journal(Transaction)
        \/ Undo \/ Redo \/ DisableJournaling
    <3>1. CASE CommitTransaction \/ Save
      BY <3>1 DEF CommitTransaction, Save
    <3>2. CASE ~(CommitTransaction \/ Save \/ Undo \/ Redo \/ DisableJournaling)
      BY <3>2 DEF Next, vars, journal, BeginTransaction, AbortTransaction, OpenObject,
                  CreateObject, CloseObject, DeleteObject, SetAttributeValue,
                  SetPointerValue, EnableJournaling, Die
    <3> QED
      BY <3>1, <3>2
  <2>8. CASE undoList' = undoList /\ redoList' = << >>
    <3>1. Len(redoList') = 0 /\ Len(undoList') = Len(undoList)
      BY <2>8
    <3> QED
      BY <2>1, <3>1 DEF JournalBounded
  <2> QED
    BY <2>2, <2>3, <2>4, <2>5, <2>6, <2>7, <2>8
<1>3. IInv /\ [Next]_vars => IInv'
  BY NextIInv
<1> QED
  BY InitIInv, <1>1, <1>2, <1>3, PTL DEF Spec

(* TryAbortTransaction (BinFile.cpp:1517) and Redo (BinFile.cpp:2413): the *)
(* objects that an entry of the journal needs are there whenever it is     *)
(* taken back or done again, and those it puts back are not, after any     *)
(* commits, undos, redos, saves and switches of journaling.                *)
THEOREM NoAssertionFails == Spec => []AssertionsHold
<1>1. IInv /\ Lines /\ [Next]_vars => IInv' /\ Lines'
  BY NextIInv, NextLines
<1>2. Lines => AssertionsHold
  BY DEF Lines
<1> QED
  BY InitIInv, InitLines, <1>1, <1>2, PTL DEF Spec

--------------------------------------------------------------------------------
(* Pointers.                                                               *)

(* Both ends of every pointer in a store are kept, and every pointer leads *)
(* to an object of the view or nowhere.                                    *)
Mutual(s) ==
  \A t \in DOMAIN s, a \in PointerAttr :
    s[t].coll[a] = {x \in DOMAIN s : s[x].attr[a] = t}

Resolved(v) ==
  \A x \in DOMAIN v, a \in PointerAttr : v[x][a] \in DOMAIN v \cup {Null}

(* What a client can read in a store. *)
Attributes(s) == [u \in DOMAIN s |-> s[u].attr]

Views == UNION {[D -> [Attr -> Value \cup Uuid \cup {Null}]] : D \in SUBSET Uuid}

LEMMA ViewElim ==
  ASSUME NEW v \in Views
  PROVE  /\ DOMAIN v \subseteq Uuid
         /\ v \in [DOMAIN v -> [Attr -> Value \cup Uuid \cup {Null}]]
         /\ \A u \in DOMAIN v : v[u] = [a \in Attr |-> v[u][a]]
<1>1. DOMAIN v \subseteq Uuid /\ v \in [DOMAIN v -> [Attr -> Value \cup Uuid \cup {Null}]]
  BY DEF Views
<1> QED
  BY <1>1

LEMMA ViewIntro ==
  ASSUME NEW D \in SUBSET Uuid, NEW v \in [D -> [Attr -> Value \cup Uuid \cup {Null}]]
  PROVE  v \in Views
BY DEF Views

LEMMA AttributesAreAView ==
  ASSUME NEW s \in Store
  PROVE  /\ Attributes(s) \in Views
         /\ DOMAIN Attributes(s) = DOMAIN s
         /\ \A u \in DOMAIN s : Attributes(s)[u] = s[u].attr
<1>1. DOMAIN s \in SUBSET Uuid
  BY StoreElim
<1>2. \A u \in DOMAIN s : s[u].attr \in [Attr -> Value \cup Uuid \cup {Null}]
  BY StoreElim, ObjectElim
<1>3. Attributes(s) \in [DOMAIN s -> [Attr -> Value \cup Uuid \cup {Null}]]
  BY <1>2 DEF Attributes
<1> QED
  BY <1>1, <1>3, ViewIntro DEF Attributes

LEMMA ViewIsAttributes == View = Attributes(indexHash) /\ View' = Attributes(indexHash')
BY DEF View, Attributes

(* The pointers k |-> c[k] are set, with both ends moved. *)
Reset(s, c) == SetAll(PointerUpdate(s, Moves(s, c)), c)

(* Setting pointers to objects that are there leads nowhere else, and      *)
(* keeps both ends of every pointer.                                       *)
LEMMA ResetKeepsPointers ==
  ASSUME NEW s \in Store, Mutual(s), Resolved(Attributes(s)), NEW c,
         DOMAIN c \subseteq (DOMAIN s) \X Attr,
         \A k \in DOMAIN c : c[k] \in Content(k[2]),
         \A k \in DOMAIN c : k[2] \in PointerAttr => c[k] \in DOMAIN s \cup {Null}
  PROVE  /\ ~PointerCrash(s, Moves(s, c))
         /\ Reset(s, c) \in Store /\ DOMAIN Reset(s, c) = DOMAIN s
         /\ \A u \in DOMAIN s, a \in Attr :
              Reset(s, c)[u].attr[a] =
                IF <<u, a>> \in DOMAIN c /\ c[<<u, a>>] \notin Malformed
                THEN c[<<u, a>>] ELSE s[u].attr[a]
         /\ Mutual(Reset(s, c))
         /\ Resolved(Attributes(Reset(s, c)))
<1> DEFINE moves == Moves(s, c)
           linked == PointerUpdate(s, moves)
           r == Reset(s, c)
<1>1. DOMAIN s \subseteq Uuid /\ DOMAIN c \subseteq Uuid \X Attr
  BY StoreElim
<1>2. \A x \in DOMAIN s, a \in PointerAttr : s[x].attr[a] \in DOMAIN s \cup {Null}
  BY AttributesAreAView DEF Resolved
<1>3. DOMAIN moves = {k \in DOMAIN c : k[2] \in PointerAttr}
  BY DEF Moves
<1>4. \A k \in DOMAIN moves : /\ moves[k].to = c[k]
                              /\ moves[k].from = s[k[1]].attr[k[2]]
  BY DEF Moves
<1> HIDE DEF moves
<1>5. \A k \in DOMAIN moves : Accepted(s, moves[k]) /\ ~Dangles(s, moves[k])
  <2> SUFFICES ASSUME NEW k \in DOMAIN moves
               PROVE  Accepted(s, moves[k]) /\ ~Dangles(s, moves[k])
    OBVIOUS
  <2>1. k[1] \in DOMAIN s /\ k[2] \in PointerAttr /\ k \in DOMAIN c
    BY <1>3
  <2> QED
    BY <1>2, <1>4, <2>1 DEF Accepted, Dangles
<1>6. ~PointerCrash(s, moves)
  BY <1>5 DEF PointerCrash
<1>7. /\ linked \in Store /\ DOMAIN linked = DOMAIN s
      /\ \A u \in DOMAIN s : linked[u].attr = s[u].attr
  BY PointerUpdateKeepsAttributes
<1>8. \A t \in DOMAIN s, a \in PointerAttr :
        linked[t].coll[a] = {x \in Uuid : Linked(s, moves, t, a, x)}
  BY DEF PointerUpdate
<1> HIDE DEF linked
<1>9. r = SetAll(linked, c)
  BY DEF Reset, linked, moves
<1>10. /\ r \in Store /\ DOMAIN r = DOMAIN s
       /\ \A u \in DOMAIN s, a \in Attr :
            r[u].attr[a] = IF <<u, a>> \in DOMAIN c /\ c[<<u, a>>] \notin Malformed
                           THEN c[<<u, a>>] ELSE s[u].attr[a]
  BY <1>1, <1>7, <1>9, SetAllSets
<1>11. \A t \in DOMAIN s : r[t].coll = linked[t].coll
  BY <1>7, <1>9 DEF SetAll
<1> HIDE DEF r
<1>12. ASSUME NEW x \in DOMAIN s, NEW a \in PointerAttr
       PROVE  r[x].attr[a] = IF <<x, a>> \in DOMAIN moves THEN moves[<<x, a>>].to ELSE s[x].attr[a]
  <2>1. a \in Attr
    BY DEF Attr
  <2>2. CASE <<x, a>> \in DOMAIN c
    <3>1. c[<<x, a>>] \notin Malformed
      <4>1. c[<<x, a>>] \in DOMAIN s \cup {Null}
        BY <2>2
      <4> QED
        BY <1>1, <4>1, ConstantsAssumption
    <3>2. <<x, a>> \in DOMAIN moves
      BY <1>3, <2>2
    <3> QED
      BY <1>4, <1>10, <2>1, <2>2, <3>1, <3>2
  <2>3. CASE <<x, a>> \notin DOMAIN c
    <3>1. <<x, a>> \notin DOMAIN moves
      BY <1>3, <2>3
    <3> QED
      BY <1>10, <2>1, <2>3, <3>1
  <2> QED
    BY <2>2, <2>3
<1>13. Mutual(r)
  <2> SUFFICES ASSUME NEW t \in DOMAIN s, NEW a \in PointerAttr
               PROVE  r[t].coll[a] = {x \in DOMAIN s : r[x].attr[a] = t}
    BY <1>10 DEF Mutual
  <2>1. s[t].coll[a] = {x \in DOMAIN s : s[x].attr[a] = t}
    BY DEF Mutual
  <2>2. ASSUME NEW x \in Uuid
        PROVE  Linked(s, moves, t, a, x) <=> x \in DOMAIN s /\ r[x].attr[a] = t
    <3>1. CASE <<x, a>> \in DOMAIN moves
      <4>1. x \in DOMAIN s
        BY <1>3, <3>1
      <4>2. Linked(s, moves, t, a, x) <=>
              \/ moves[<<x, a>>].to = t
              \/ moves[<<x, a>>].from # t /\ x \in s[t].coll[a]
        BY <1>5, <3>1 DEF Linked
      <4>3. moves[<<x, a>>].from = s[x].attr[a]
        BY <1>4, <3>1
      <4> QED
        BY <1>12, <2>1, <3>1, <4>1, <4>2, <4>3
    <3>2. CASE <<x, a>> \notin DOMAIN moves
      <4>1. Linked(s, moves, t, a, x) <=> x \in s[t].coll[a]
        BY <3>2 DEF Linked
      <4> QED
        BY <1>12, <2>1, <3>2, <4>1
    <3> QED
      BY <3>1, <3>2
  <2>3. r[t].coll[a] = {x \in Uuid : Linked(s, moves, t, a, x)}
    BY <1>8, <1>11
  <2> QED
    BY <1>1, <2>2, <2>3
<1>14. Resolved(Attributes(r))
  <2>1. ASSUME NEW x \in DOMAIN s, NEW a \in PointerAttr
        PROVE  r[x].attr[a] \in DOMAIN s \cup {Null}
    <3>1. CASE <<x, a>> \in DOMAIN moves
      BY <1>3, <1>4, <1>12, <3>1
    <3>2. CASE <<x, a>> \notin DOMAIN moves
      BY <1>2, <1>12, <3>2
    <3> QED
      BY <3>1, <3>2
  <2> QED
    BY <1>10, <2>1, AttributesAreAView DEF Resolved
<1> QED
  BY <1>6, <1>10, <1>13, <1>14 DEF r, moves

(* Objects that no other points to can be dropped.                         *)
LEMMA RestrictKeepsPointers ==
  ASSUME NEW s \in Store, Mutual(s), Resolved(Attributes(s)), NEW D \in SUBSET DOMAIN s,
         \A x \in D, a \in PointerAttr : s[x].attr[a] \in D \cup {Null},
         \A x \in (DOMAIN s) \ D, a \in PointerAttr : s[x].attr[a] \notin D
  PROVE  Mutual(Restrict(s, D)) /\ Resolved(Attributes(Restrict(s, D)))
<1> DEFINE r == Restrict(s, D)
<1>1. r \in Store /\ DOMAIN r = D /\ \A x \in D : r[x] = s[x]
  BY RestrictIsStore DEF Restrict
<1> HIDE DEF r
<1>2. Mutual(r)
  <2> SUFFICES ASSUME NEW t \in D, NEW a \in PointerAttr
               PROVE  s[t].coll[a] = {x \in D : s[x].attr[a] = t}
    BY <1>1 DEF Mutual
  <2>1. s[t].coll[a] = {x \in DOMAIN s : s[x].attr[a] = t}
    BY DEF Mutual
  <2> QED
    BY <2>1
<1>3. Resolved(Attributes(r))
  BY <1>1, AttributesAreAView DEF Resolved
<1> QED
  BY <1>2, <1>3 DEF r


--------------------------------------------------------------------------------
(* Entries that can be taken back without leaving a pointer behind.        *)

(* The view before the transaction e, with the objects it created.         *)
Prior(v, e) ==
  LET whole == Joined(v, [u \in DOMAIN e.deleted |-> e.deleted[u].attr])
  IN  [u \in DOMAIN whole |->
        [a \in Attr |-> IF <<u, a>> \in DOMAIN e.changed
                        THEN e.changed[<<u, a>>].old ELSE whole[u][a]]]

(* The entry e is what led from the view b to the view c: b is what taking *)
(* it back gives, its pointers lead to objects of b, what e created had no *)
(* pointers then, and what e deleted has none and is pointed to by none.   *)
Leads(e, b, c) ==
  /\ Fits(e, DOMAIN b, DOMAIN c)
  /\ b = Backward(c, e)
  /\ Resolved(b)
  /\ \A u \in e.created, a \in PointerAttr : Prior(c, e)[u][a] = Null
  /\ \A u \in DOMAIN e.deleted, a \in PointerAttr :
       e.deleted[u].attr[a] = Null /\ e.deleted[u].coll[a] = {}

(* Prior is Backward with the created objects left in.                     *)
LEMMA PriorAndBackward ==
  ASSUME NEW v, NEW e
  PROVE  /\ DOMAIN Prior(v, e) = DOMAIN v \cup DOMAIN e.deleted
         /\ DOMAIN Backward(v, e) = (DOMAIN v \cup DOMAIN e.deleted) \ e.created
         /\ \A u \in DOMAIN Backward(v, e) : Backward(v, e)[u] = Prior(v, e)[u]
<1> DEFINE whole == Joined(v, [u \in DOMAIN e.deleted |-> e.deleted[u].attr])
           row(u) == [a \in Attr |-> IF <<u, a>> \in DOMAIN e.changed
                                     THEN e.changed[<<u, a>>].old ELSE whole[u][a]]
<1>1. DOMAIN whole = DOMAIN v \cup DOMAIN e.deleted
  BY DEF Joined
<1>2. Prior(v, e) = [u \in DOMAIN whole |-> row(u)]
  BY DEF Prior
<1>3. Backward(v, e) = [u \in DOMAIN whole \ e.created |-> row(u)]
  BY DEF Backward
<1> HIDE DEF whole, row
<1> QED
  BY <1>1, <1>2, <1>3

(* Prior of the view of a store, attribute by attribute.                   *)
LEMMA PriorContents ==
  ASSUME NEW s \in Store, NEW e \in Entry
  PROVE  \A u \in DOMAIN s \cup DOMAIN e.deleted, a \in Attr :
           Prior(Attributes(s), e)[u][a] =
             IF <<u, a>> \in DOMAIN e.changed THEN e.changed[<<u, a>>].old
             ELSE Joined(s, e.deleted)[u].attr[a]
<1> DEFINE gone == [u \in DOMAIN e.deleted |-> e.deleted[u].attr]
           whole == Joined(Attributes(s), gone)
<1>1. DOMAIN whole = DOMAIN s \cup DOMAIN e.deleted
  BY AttributesAreAView DEF Joined
<1>2. \A u \in DOMAIN whole : whole[u] = Joined(s, e.deleted)[u].attr
  BY AttributesAreAView DEF Joined
<1> DEFINE was(u, a) == IF <<u, a>> \in DOMAIN e.changed
                        THEN e.changed[<<u, a>>].old ELSE whole[u][a]
<1>3. Prior(Attributes(s), e) = [u \in DOMAIN whole |-> [a \in Attr |-> was(u, a)]]
  BY DEF Prior
<1> HIDE DEF whole, was
<1>4. \A u \in DOMAIN whole, a \in Attr : Prior(Attributes(s), e)[u][a] = was(u, a)
  BY <1>3
<1>5. ASSUME NEW u \in DOMAIN whole, NEW a \in Attr
      PROVE  was(u, a) = IF <<u, a>> \in DOMAIN e.changed THEN e.changed[<<u, a>>].old
                         ELSE Joined(s, e.deleted)[u].attr[a]
  BY <1>2 DEF was
<1> QED
  BY <1>1, <1>4, <1>5

(* The view of what TryAbortTransaction leaves.                            *)
LEMMA RollbackGivesBackward ==
  ASSUME NEW s \in Store, NEW e \in Entry
  PROVE  Attributes(Rollback(s, e)) = Backward(Attributes(s), e)
<1> DEFINE r == Rollback(s, e)
           b == Backward(Attributes(s), e)
<1>1. /\ r \in Store
      /\ DOMAIN r = (DOMAIN s \cup DOMAIN e.deleted) \ e.created
      /\ \A u \in DOMAIN r, a \in Attr :
           r[u].attr[a] = IF <<u, a>> \in DOMAIN e.changed THEN e.changed[<<u, a>>].old
                          ELSE Joined(s, e.deleted)[u].attr[a]
  BY RollbackRestores
<1>2. DOMAIN b = DOMAIN r /\ \A u \in DOMAIN b : b[u] = Prior(Attributes(s), e)[u]
  <2>1. /\ DOMAIN b = (DOMAIN Attributes(s) \cup DOMAIN e.deleted) \ e.created
        /\ \A u \in DOMAIN b : b[u] = Prior(Attributes(s), e)[u]
    BY PriorAndBackward
  <2> QED
    BY <1>1, <2>1, AttributesAreAView
<1>3. b = [u \in DOMAIN b |-> b[u]] /\ \A u \in DOMAIN b : b[u] = [a \in Attr |-> b[u][a]]
  BY DEF Backward
<1>4. Attributes(r) = [u \in DOMAIN r |-> r[u].attr]
  BY DEF Attributes
<1>5. \A u \in DOMAIN r : r[u].attr = [a \in Attr |-> r[u].attr[a]]
  BY <1>1, StoreElim, ObjectElim
<1> HIDE DEF r, b
<1>6. ASSUME NEW u \in DOMAIN r, NEW a \in Attr
      PROVE  r[u].attr[a] = b[u][a]
  <2>1. u \in DOMAIN s \cup DOMAIN e.deleted
    BY <1>1
  <2> DEFINE was == IF <<u, a>> \in DOMAIN e.changed THEN e.changed[<<u, a>>].old
                    ELSE Joined(s, e.deleted)[u].attr[a]
  <2>2. Prior(Attributes(s), e)[u][a] = was
    BY <2>1, PriorContents
  <2>3. r[u].attr[a] = was
    BY <1>1
  <2> QED
    BY <1>2, <2>2, <2>3
<1>7. \A u \in DOMAIN r : r[u].attr = b[u]
  BY <1>2, <1>3, <1>5, <1>6
<1> QED
  BY <1>2, <1>3, <1>4, <1>7 DEF r, b

(* Taking such an entry back from a store whose pointers are sound neither *)
(* fails nor leaves an unsound pointer.                                    *)
LEMMA RollbackIsSound ==
  ASSUME NEW s \in Store, NEW e \in Entry, NEW b,
         Mutual(s), Resolved(Attributes(s)), Leads(e, b, Attributes(s))
  PROVE  /\ RollbackOutcome(s, e) = "none"
         /\ Mutual(Rollback(s, e))
         /\ Attributes(Rollback(s, e)) = b
<1> DEFINE whole == Joined(s, e.deleted)
           old == OldContents(e)
           D == DOMAIN whole \ e.created
           set == Reset(whole, old)
<1>1. DOMAIN Attributes(s) = DOMAIN s /\ \A u \in DOMAIN s : Attributes(s)[u] = s[u].attr
  BY AttributesAreAView
<1>2. /\ DOMAIN s \cap DOMAIN e.deleted = {}
      /\ e.created \subseteq DOMAIN s \cup DOMAIN e.deleted
      /\ \A k \in DOMAIN e.changed : k[1] \in DOMAIN s \cup DOMAIN e.deleted
  BY <1>1 DEF Leads, Fits
<1>3. /\ whole \in Store /\ DOMAIN whole = DOMAIN s \cup DOMAIN e.deleted
      /\ \A u \in DOMAIN s : whole[u] = s[u]
      /\ \A u \in DOMAIN e.deleted : whole[u] = e.deleted[u]
  <2>1. e.deleted \in Store
    BY EntryElim
  <2>2. /\ whole \in Store /\ DOMAIN whole = DOMAIN s \cup DOMAIN e.deleted
        /\ \A u \in DOMAIN s : whole[u] = s[u]
        /\ \A u \in DOMAIN e.deleted \ DOMAIN s : whole[u] = e.deleted[u]
    BY <2>1, JoinIsStore
  <2> HIDE DEF whole
  <2> QED
    BY <1>2, <2>2
<1> HIDE DEF whole
<1>4. \A x \in DOMAIN s, a \in PointerAttr : whole[x].attr[a] \in DOMAIN s \cup {Null}
  BY <1>1, <1>3 DEF Resolved
<1>5. \A x \in DOMAIN e.deleted, a \in PointerAttr :
        whole[x].attr[a] = Null /\ whole[x].coll[a] = {}
  BY <1>3 DEF Leads
<1>6. DOMAIN whole \subseteq Uuid /\ Null \notin Uuid
  BY <1>3, StoreElim, ConstantsAssumption
<1>7. Mutual(whole)
  <2> SUFFICES ASSUME NEW t \in DOMAIN whole, NEW a \in PointerAttr
               PROVE  whole[t].coll[a] = {x \in DOMAIN whole : whole[x].attr[a] = t}
    BY DEF Mutual
  <2>1. CASE t \in DOMAIN s
    <3>1. whole[t].coll[a] = {x \in DOMAIN s : whole[x].attr[a] = t}
      BY <1>3, <2>1 DEF Mutual
    <3> QED
      BY <1>3, <1>5, <1>6, <3>1
  <2>2. CASE t \in DOMAIN e.deleted
    <3>1. whole[t].coll[a] = {}
      BY <1>5, <2>2
    <3>2. \A x \in DOMAIN whole : whole[x].attr[a] # t
      BY <1>2, <1>3, <1>4, <1>5, <1>6, <2>2
    <3> QED
      BY <3>1, <3>2
  <2> QED
    BY <1>3, <2>1, <2>2
<1>8. Resolved(Attributes(whole))
  BY <1>3, <1>4, <1>5, AttributesAreAView DEF Resolved
<1>9. /\ DOMAIN old = DOMAIN e.changed
      /\ DOMAIN old \subseteq (DOMAIN whole) \X Attr
      /\ \A k \in DOMAIN old : old[k] = e.changed[k].old
      /\ \A k \in DOMAIN old : old[k] \in Content(k[2])
      /\ \A k \in DOMAIN old : old[k] \notin Malformed
  <2>1. \A k \in DOMAIN old : k \in (DOMAIN whole) \X Attr
    <3> SUFFICES ASSUME NEW k \in DOMAIN old PROVE k \in (DOMAIN whole) \X Attr
      OBVIOUS
    <3>1. k \in DOMAIN e.changed /\ k \in Uuid \X Attr
      BY ContentsOfEntry
    <3>2. k[1] \in DOMAIN whole
      BY <1>2, <1>3, <3>1
    <3> QED
      BY <3>1, <3>2
  <2>2. \A k \in DOMAIN old : old[k] \notin Malformed
    BY ContentsOfEntry DEF Stored
  <2> QED
    BY <2>1, <2>2, ContentsOfEntry
<1> HIDE DEF old
<1>10. D = DOMAIN b /\ b = Backward(Attributes(s), e) /\ Resolved(b)
  BY <1>1, <1>3 DEF Leads, Fits
<1>11. ASSUME NEW x \in DOMAIN whole, NEW a \in PointerAttr
       PROVE  /\ x \in D => Prior(Attributes(s), e)[x][a] \in D \cup {Null}
              /\ x \in e.created => Prior(Attributes(s), e)[x][a] = Null
  <2>1. x \in D => Prior(Attributes(s), e)[x] = b[x]
    BY <1>10, PriorAndBackward
  <2> QED
    BY <1>10, <2>1 DEF Leads, Resolved
<1>12. ASSUME NEW x \in DOMAIN whole, NEW a \in Attr
       PROVE  Prior(Attributes(s), e)[x][a] =
                IF <<x, a>> \in DOMAIN old THEN old[<<x, a>>] ELSE whole[x].attr[a]
  BY <1>3, <1>9, PriorContents DEF whole
<1>13. \A k \in DOMAIN old : k[2] \in PointerAttr => old[k] \in DOMAIN whole \cup {Null}
  <2> SUFFICES ASSUME NEW k \in DOMAIN old, k[2] \in PointerAttr
               PROVE  old[k] \in DOMAIN whole \cup {Null}
    OBVIOUS
  <2>1. k[1] \in DOMAIN whole /\ k[2] \in Attr /\ k = <<k[1], k[2]>>
    BY <1>9
  <2>2. Prior(Attributes(s), e)[k[1]][k[2]] = old[k]
    BY <1>12, <2>1
  <2>3. k[1] \in D \/ k[1] \in e.created
    BY <2>1
  <2> QED
    BY <1>11, <2>1, <2>2, <2>3
<1>14. /\ ~PointerCrash(whole, Moves(whole, old))
       /\ set \in Store /\ DOMAIN set = DOMAIN whole
       /\ \A u \in DOMAIN whole, a \in Attr :
            set[u].attr[a] = IF <<u, a>> \in DOMAIN old /\ old[<<u, a>>] \notin Malformed
                             THEN old[<<u, a>>] ELSE whole[u].attr[a]
       /\ Mutual(set) /\ Resolved(Attributes(set))
  BY <1>3, <1>7, <1>8, <1>9, <1>13, ResetKeepsPointers
<1>15. RollbackOutcome(s, e) = "none"
  BY <1>2, <1>3, <1>14 DEF RollbackOutcome, whole, old
<1>16. Rollback(s, e) = Restrict(set, D)
  BY DEF Rollback, Reset, set, D, whole, old
<1> HIDE DEF set
<1>17. ASSUME NEW x \in DOMAIN whole, NEW a \in PointerAttr
       PROVE  set[x].attr[a] = Prior(Attributes(s), e)[x][a]
  <2>1. a \in Attr
    BY DEF Attr
  <2>2. <<x, a>> \in DOMAIN old => old[<<x, a>>] \notin Malformed
    BY <1>9
  <2> QED
    BY <1>12, <1>14, <2>1, <2>2
<1>18. Mutual(Restrict(set, D))
  <2>1. \A x \in D, a \in PointerAttr : set[x].attr[a] \in D \cup {Null}
    BY <1>11, <1>17
  <2>2. \A x \in (DOMAIN set) \ D, a \in PointerAttr : set[x].attr[a] \notin D
    BY <1>6, <1>11, <1>14, <1>17
  <2>3. D \in SUBSET DOMAIN set
    BY <1>14
  <2> HIDE DEF D
  <2> QED
    BY <1>14, <2>1, <2>2, <2>3, RestrictKeepsPointers
<1>19. Attributes(Rollback(s, e)) = b
  BY <1>10, RollbackGivesBackward
<1> QED
  BY <1>15, <1>16, <1>18, <1>19


--------------------------------------------------------------------------------
(* The invariant: sound pointers now and in every view the journal can     *)
(* still lead back to, as long as no client deletes what others point to   *)
(* and none calls Redo.                                                    *)

Careful == ~MayDangle /\ ~MayRedo

SoundStep == {x \in Entry \X Views \X Views : Leads(x[1], x[2], x[3])}

SoundInv ==
  /\ fault = "none"
  /\ Mutual(indexHash)
  /\ Resolved(View)
  /\ Leads(Transaction, Committed, View)
  /\ LineTo(undoList, Committed, Views, SoundStep)
  /\ ~isJournaling => undoList = << >>

LEMMA BackwardIsAView ==
  ASSUME NEW s \in Store, NEW e \in Entry
  PROVE  Backward(Attributes(s), e) \in Views
<1>1. Rollback(s, e) \in Store
  BY RollbackRestores
<1>2. Attributes(Rollback(s, e)) \in Views
  BY <1>1, AttributesAreAView
<1> QED
  BY <1>2, RollbackGivesBackward

LEMMA CommittedIsAView ==
  ASSUME IInv
  PROVE  /\ View \in Views /\ Committed \in Views
         /\ DOMAIN View = DOMAIN indexHash /\ DOMAIN Committed = CommittedUuids
<1>1. indexHash \in Store /\ Transaction \in Entry
  BY DEF IInv, TypeOK
<1>2. View = Attributes(indexHash)
  BY ViewIsAttributes
<1>3. Committed \in Views
  BY <1>1, <1>2, BackwardIsAView DEF Committed
<1>4. DOMAIN Committed = CommittedUuids
  BY BackwardUuids DEF Committed, View, Transaction, CommittedUuids
<1> QED
  BY <1>1, <1>2, <1>3, <1>4, AttributesAreAView

LEMMA PriorIsUnwound ==
  Prior(View, Transaction) = Unwound /\ Prior(View, Transaction)' = Unwound'
<1>1. ASSUME NEW s, NEW c, NEW d, NEW x
      PROVE  Prior([u \in DOMAIN s |-> s[u].attr],
                   [created |-> c, changed |-> x, deleted |-> d]) = Before(s, {}, d, x)
  <2> DEFINE whole == Joined([u \in DOMAIN s |-> s[u].attr], [u \in DOMAIN d |-> d[u].attr])
  <2>1. DOMAIN whole = DOMAIN s \cup DOMAIN d
    BY DEF Joined
  <2>2. \A u \in DOMAIN whole : whole[u] = Joined(s, d)[u].attr
    BY DEF Joined
  <2> HIDE DEF whole
  <2>3. Prior([u \in DOMAIN s |-> s[u].attr], [created |-> c, changed |-> x, deleted |-> d])
          = [u \in DOMAIN whole |->
              [a \in Attr |-> IF <<u, a>> \in DOMAIN x THEN x[<<u, a>>].old ELSE whole[u][a]]]
    BY DEF Prior, whole
  <2> QED
    BY <2>1, <2>2, <2>3 DEF Before
<1> QED
  BY <1>1 DEF View, Transaction, Unwound

(* An empty transaction leads from a view to itself.                       *)
LEMMA NothingLeads ==
  ASSUME NEW v \in Views, Resolved(v), NEW e, IsEmpty(e)
  PROVE  Backward(v, e) = v /\ Leads(e, v, v)
<1>1. e.created = {} /\ DOMAIN e.changed = {} /\ DOMAIN e.deleted = {}
  BY DEF IsEmpty
<1>2. \A u \in DOMAIN v : v[u] = [a \in Attr |-> v[u][a]]
  BY ViewElim
<1>3. /\ DOMAIN Backward(v, e) = DOMAIN v
      /\ \A u \in DOMAIN v : Backward(v, e)[u] = v[u]
  BY <1>1, <1>2 DEF Backward, Joined
<1>4. Backward(v, e) = [u \in DOMAIN v |-> Backward(v, e)[u]] /\ v = [u \in DOMAIN v |-> v[u]]
  BY <1>1, ViewElim DEF Backward, Joined
<1>5. Backward(v, e) = v
  BY <1>3, <1>4
<1> QED
  BY <1>1, <1>5 DEF Leads, Fits

(* Steps that leave the store, the lists and the undo list alone.          *)
LEMMA SoundStutter ==
  ASSUME SoundInv, fault' = fault,
         UNCHANGED <<indexHash, createdObjects, changedAttributes, deletedObjects, undoList>>,
         isJournaling' \/ isJournaling' = isJournaling
  PROVE  SoundInv'
<1>1. View' = View /\ Transaction' = Transaction /\ Committed' = Committed
  BY DEF View, Transaction, Committed
<1> QED
  BY <1>1 DEF SoundInv, LineTo, Leads

(* Steps within a transaction that keep what it started from.              *)
LEMMA SoundEdit ==
  ASSUME IInv, IInv', SoundInv, fault' = fault,
         UNCHANGED <<isJournaling, undoList>>,
         Committed' = Committed,
         Mutual(indexHash'), Resolved(Attributes(indexHash')),
         \A u \in createdObjects', a \in PointerAttr : Unwound'[u][a] = Null,
         \A u \in DOMAIN deletedObjects', a \in PointerAttr :
           deletedObjects'[u].attr[a] = Null /\ deletedObjects'[u].coll[a] = {}
  PROVE  SoundInv'
<1>1. Fits(Transaction', CommittedUuids', DOMAIN indexHash')
  BY DEF IInv, ListsMatchStore, Fits, Transaction, CommittedUuids
<1>2. DOMAIN Committed' = CommittedUuids' /\ DOMAIN View' = DOMAIN indexHash'
  <2>1. DOMAIN View' = DOMAIN indexHash'
    BY DEF View
  <2>2. DOMAIN Committed' = (DOMAIN View' \cup DOMAIN Transaction'.deleted) \ Transaction'.created
    BY BackwardUuids DEF Committed
  <2> QED
    BY <2>1, <2>2 DEF Transaction, CommittedUuids
<1>3. Committed' = Backward(View', Transaction')
  BY DEF Committed
<1>4. Resolved(Committed') /\ Resolved(View')
  BY ViewIsAttributes DEF SoundInv, Leads
<1>5. Leads(Transaction', Committed', View')
  BY <1>1, <1>2, <1>3, <1>4, PriorIsUnwound DEF Leads, Transaction
<1> QED
  BY <1>4, <1>5 DEF SoundInv, LineTo

(* What SoundInv says of the open transaction.                             *)
LEMMA SoundElim ==
  ASSUME SoundInv
  PROVE  /\ fault = "none" /\ Mutual(indexHash) /\ Resolved(Attributes(indexHash))
         /\ \A u \in createdObjects, a \in PointerAttr : Unwound[u][a] = Null
         /\ \A u \in DOMAIN deletedObjects, a \in PointerAttr :
              deletedObjects[u].attr[a] = Null /\ deletedObjects[u].coll[a] = {}
BY ViewIsAttributes, PriorIsUnwound DEF SoundInv, Leads, Transaction


(* A change of plain values touches no pointer.                            *)
LEMMA SetAttributeSound ==
  ASSUME IInv, IInv', SoundInv, NEW a \in ValueAttr, NEW v \in Value, SetAttributeValue(a, v)
  PROVE  SoundInv'
<1> DEFINE set == [k \in {<<openedObject, a>>} |-> v]
<1>1. /\ indexHash' = SetAll(indexHash, set)
      /\ openedObject # Null
      /\ UNCHANGED <<createdObjects, deletedObjects, isJournaling, undoList, fault>>
  BY DEF SetAttributeValue, journal
<1>2. Committed' = Committed /\ Unwound' = Unwound
  BY SetAttributeKeepsCommitted
<1>3. indexHash \in Store /\ openedObject \in Uuid
  BY <1>1, StoreElim DEF IInv, TypeOK
<1>4. DOMAIN set \subseteq Uuid \X Attr /\ \A k \in DOMAIN set : set[k] \in Content(k[2])
  BY <1>3, ConstantsAssumption DEF Attr, Content
<1>5. \A u, b : <<u, b>> \in DOMAIN set => b = a
  OBVIOUS
<1> HIDE DEF set
<1>6. /\ indexHash' \in Store /\ DOMAIN indexHash' = DOMAIN indexHash
      /\ \A u \in DOMAIN indexHash, b \in PointerAttr :
           indexHash'[u].attr[b] = indexHash[u].attr[b]
  <2>1. indexHash' \in Store /\ DOMAIN indexHash' = DOMAIN indexHash
    BY <1>1, <1>3, <1>4, SetAllSets
  <2>2. ASSUME NEW u \in DOMAIN indexHash, NEW b \in PointerAttr
        PROVE  indexHash'[u].attr[b] = indexHash[u].attr[b]
    <3>1. b \in Attr /\ <<u, b>> \notin DOMAIN set
      BY <1>5, ConstantsAssumption DEF Attr
    <3> QED
      BY <1>1, <1>3, <1>4, <3>1, SetAllElsewhere
  <2> QED
    BY <2>1, <2>2
<1>7. \A u \in DOMAIN indexHash : indexHash'[u].coll = indexHash[u].coll
  BY <1>1 DEF SetAll
<1>8. Mutual(indexHash)
  BY SoundElim
<1>9. Mutual(indexHash')
  BY <1>6, <1>7, <1>8 DEF Mutual
<1>10. Resolved(Attributes(indexHash'))
  <2>1. Resolved(Attributes(indexHash))
    BY SoundElim
  <2> QED
    BY <1>3, <1>6, <2>1, AttributesAreAView DEF Resolved
<1> QED
  BY <1>1, <1>2, <1>9, <1>10, SoundEdit, SoundElim

(* SetPointerValue moves both ends, and never finds the old target gone.   *)
LEMMA SetPointerSound ==
  ASSUME IInv, IInv', SoundInv, NEW a \in PointerAttr, NEW t \in Uuid \cup {Null},
         SetPointerValue(a, t)
  PROVE  SoundInv'
<1> DEFINE target == [k \in {<<openedObject, a>>} |-> t]
<1>1. /\ indexHash \in Store /\ openedObject \in DOMAIN indexHash
      /\ t \in DOMAIN indexHash \cup {Null}
  BY DEF SetPointerValue, IInv, TypeOK
<1>2. /\ DOMAIN target \subseteq (DOMAIN indexHash) \X Attr
      /\ \A k \in DOMAIN target : target[k] \in Content(k[2])
      /\ \A k \in DOMAIN target : k[2] \in PointerAttr => target[k] \in DOMAIN indexHash \cup {Null}
  BY <1>1 DEF Attr, Content
<1>3. Mutual(indexHash) /\ Resolved(Attributes(indexHash))
  BY SoundElim
<1>4. SetPointerValue(a, t) =>
        \/ PointerCrash(indexHash, Moves(indexHash, target))
        \/ /\ indexHash' = Reset(indexHash, target)
           /\ UNCHANGED <<createdObjects, deletedObjects, isJournaling, undoList, fault>>
  BY DEF SetPointerValue, Reset, journal
<1> HIDE DEF target
<1>5. /\ ~PointerCrash(indexHash, Moves(indexHash, target))
      /\ Mutual(Reset(indexHash, target))
      /\ Resolved(Attributes(Reset(indexHash, target)))
  BY <1>1, <1>2, <1>3, ResetKeepsPointers
<1>6. /\ indexHash' = Reset(indexHash, target)
      /\ UNCHANGED <<createdObjects, deletedObjects, isJournaling, undoList, fault>>
  BY <1>4, <1>5
<1>7. Committed' = Committed /\ Unwound' = Unwound
  BY SetPointerKeepsCommitted
<1> QED
  BY <1>5, <1>6, <1>7, SoundEdit, SoundElim

(* DeleteObject drops an object that points nowhere any more and that no   *)
(* other points to.                                                        *)
LEMMA DeleteSound ==
  ASSUME IInv, IInv', SoundInv, ~MayDangle, DeleteObject
  PROVE  SoundInv'
<1> DEFINE u == openedObject
           A == {a \in PointerAttr : indexHash[u].attr[a] # Null}
           nulls == [k \in {u} \X A |-> Null]
           nulled == Reset(indexHash, nulls)
           D == DOMAIN indexHash \ {u}
<1>1. indexHash \in Store /\ u \in DOMAIN indexHash /\ ~PointedTo(u)
  BY DEF DeleteObject, IInv, TypeOK
<1>2. /\ DOMAIN nulls \subseteq (DOMAIN indexHash) \X Attr
      /\ \A k \in DOMAIN nulls : nulls[k] \in Content(k[2])
      /\ \A k \in DOMAIN nulls : k[2] \in PointerAttr => nulls[k] \in DOMAIN indexHash \cup {Null}
  BY <1>1 DEF Attr, Content
<1>3. Mutual(indexHash) /\ Resolved(Attributes(indexHash))
  BY SoundElim
<1>4. DeleteObject =>
        \/ PointerCrash(indexHash, Moves(indexHash, nulls))
        \/ /\ indexHash' = Restrict(nulled, D)
           /\ deletedObjects' = Joined([x \in {u} |-> nulled[u]], deletedObjects)
           /\ UNCHANGED <<createdObjects, isJournaling, undoList, fault>>
  BY DEF DeleteObject, Reset, journal
<1>5. \A x, a : <<x, a>> \in DOMAIN nulls <=> x = u /\ a \in A
  OBVIOUS
<1>6. \A k \in DOMAIN nulls : nulls[k] = Null
  OBVIOUS
<1> HIDE DEF nulls
<1>7. /\ ~PointerCrash(indexHash, Moves(indexHash, nulls))
      /\ nulled \in Store /\ DOMAIN nulled = DOMAIN indexHash
      /\ \A x \in DOMAIN indexHash, a \in Attr :
           nulled[x].attr[a] = IF <<x, a>> \in DOMAIN nulls /\ nulls[<<x, a>>] \notin Malformed
                               THEN nulls[<<x, a>>] ELSE indexHash[x].attr[a]
      /\ Mutual(nulled) /\ Resolved(Attributes(nulled))
  BY <1>1, <1>2, <1>3, ResetKeepsPointers
<1> HIDE DEF nulled
<1>8. /\ indexHash' = Restrict(nulled, D)
      /\ deletedObjects' = Joined([x \in {u} |-> nulled[u]], deletedObjects)
      /\ UNCHANGED <<createdObjects, isJournaling, undoList, fault>>
  BY <1>4, <1>7
<1>9. Null \notin Uuid /\ Null \notin Malformed /\ DOMAIN indexHash \subseteq Uuid
  BY <1>1, StoreElim, ConstantsAssumption
<1>10. \A a \in PointerAttr : nulled[u].attr[a] = Null
  <2> SUFFICES ASSUME NEW a \in PointerAttr PROVE nulled[u].attr[a] = Null
    OBVIOUS
  <2>1. a \in Attr
    BY DEF Attr
  <2>2. CASE a \in A
    <3>1. <<u, a>> \in DOMAIN nulls /\ nulls[<<u, a>>] = Null
      BY <1>5, <1>6, <2>2
    <3> QED
      BY <1>1, <1>7, <1>9, <2>1, <3>1
  <2>3. CASE a \notin A
    <3>1. <<u, a>> \notin DOMAIN nulls /\ indexHash[u].attr[a] = Null
      BY <1>5, <2>3
    <3> QED
      BY <1>1, <1>7, <2>1, <3>1
  <2> QED
    BY <2>2, <2>3
<1>11. \A x \in D, a \in PointerAttr : nulled[x].attr[a] \in D \cup {Null}
  <2> SUFFICES ASSUME NEW x \in D, NEW a \in PointerAttr
               PROVE  nulled[x].attr[a] \in D \cup {Null}
    OBVIOUS
  <2>1. a \in Attr /\ <<x, a>> \notin DOMAIN nulls
    BY <1>5 DEF Attr
  <2>2. nulled[x].attr[a] = indexHash[x].attr[a]
    BY <1>7, <2>1
  <2>3. indexHash[x].attr[a] # u
    BY <1>1 DEF PointedTo
  <2>4. nulled[x].attr[a] \in DOMAIN indexHash \cup {Null}
    BY <1>7, AttributesAreAView DEF Resolved
  <2> QED
    BY <2>2, <2>3, <2>4
<1>12. Mutual(indexHash') /\ Resolved(Attributes(indexHash'))
  <2>1. D \in SUBSET DOMAIN nulled
    BY <1>7
  <2>2. \A x \in (DOMAIN nulled) \ D, a \in PointerAttr : nulled[x].attr[a] \notin D
    BY <1>7, <1>9, <1>10
  <2> HIDE DEF D
  <2> QED
    BY <1>7, <1>8, <1>11, <2>1, <2>2, RestrictKeepsPointers
<1>13. \A a \in PointerAttr : nulled[u].coll[a] = {}
  <2> SUFFICES ASSUME NEW a \in PointerAttr PROVE nulled[u].coll[a] = {}
    OBVIOUS
  <2>1. nulled[u].coll[a] = {x \in DOMAIN nulled : nulled[x].attr[a] = u}
    BY <1>1, <1>7 DEF Mutual
  <2>2. \A x \in DOMAIN nulled : nulled[x].attr[a] # u
    BY <1>1, <1>7, <1>9, <1>10, <1>11
  <2> QED
    BY <2>1, <2>2
<1>14. \A x \in DOMAIN deletedObjects', a \in PointerAttr :
         deletedObjects'[x].attr[a] = Null /\ deletedObjects'[x].coll[a] = {}
  <2>1. \A x \in DOMAIN deletedObjects', a \in PointerAttr :
          \/ x = u /\ deletedObjects'[x] = nulled[u]
          \/ x \in DOMAIN deletedObjects /\ deletedObjects'[x] = deletedObjects[x]
    BY <1>8 DEF Joined
  <2> QED
    BY <1>10, <1>13, <2>1, SoundElim
<1>15. Committed' = Committed /\ Unwound' = Unwound
  BY DeleteKeepsCommitted
<1> QED
  BY <1>8, <1>12, <1>14, <1>15, SoundEdit, SoundElim

(* A new object points nowhere, and no object can point to it yet.         *)
LEMMA CreateSound ==
  ASSUME IInv, IInv', SoundInv, NEW u \in Uuid, CreateObject(u)
  PROVE  SoundInv'
<1>1. /\ u \notin usedUuids
      /\ indexHash' = Joined([x \in {u} |-> Blank], indexHash)
      /\ createdObjects' = createdObjects \cup {u}
      /\ UNCHANGED <<changedAttributes, deletedObjects, isJournaling, undoList, fault>>
  BY DEF CreateObject, journal
<1>2. u \notin DOMAIN indexHash /\ u \notin DOMAIN deletedObjects
  BY <1>1 DEF IInv, UuidsAreUsed
<1>3. /\ DOMAIN indexHash' = {u} \cup DOMAIN indexHash
      /\ indexHash'[u] = Blank
      /\ \A x \in DOMAIN indexHash : indexHash'[x] = indexHash[x]
  BY <1>1, <1>2 DEF Joined
<1>4. /\ indexHash \in Store /\ indexHash' \in Store /\ DOMAIN indexHash \subseteq Uuid
      /\ Null \notin Uuid
  BY StoreElim, ConstantsAssumption DEF IInv, TypeOK
<1>5. \A a \in PointerAttr : Blank.attr[a] = Null /\ Blank.coll[a] = {}
  BY DEF Blank, Attr
<1>6. \A x \in DOMAIN indexHash, a \in PointerAttr :
        indexHash[x].attr[a] \in DOMAIN indexHash \cup {Null}
  BY <1>4, SoundElim, AttributesAreAView DEF Resolved
<1>7. Mutual(indexHash')
  <2> SUFFICES ASSUME NEW t \in DOMAIN indexHash', NEW a \in PointerAttr
               PROVE  indexHash'[t].coll[a] = {x \in DOMAIN indexHash' : indexHash'[x].attr[a] = t}
    BY DEF Mutual
  <2>1. CASE t = u
    <3>1. \A x \in DOMAIN indexHash' : indexHash'[x].attr[a] # u
      BY <1>2, <1>3, <1>4, <1>5, <1>6
    <3> QED
      BY <1>3, <1>5, <2>1, <3>1
  <2>2. CASE t \in DOMAIN indexHash
    <3>1. indexHash[t].coll[a] = {x \in DOMAIN indexHash : indexHash[x].attr[a] = t}
      BY <2>2, SoundElim DEF Mutual
    <3> QED
      BY <1>2, <1>3, <1>4, <1>5, <2>2, <3>1
  <2> QED
    BY <1>3, <2>1, <2>2
<1>8. Resolved(Attributes(indexHash'))
  BY <1>3, <1>4, <1>5, <1>6, AttributesAreAView DEF Resolved
<1>9. Committed' = Committed
  BY CreateKeepsCommitted
<1>10. /\ DOMAIN indexHash' \cup DOMAIN deletedObjects'
             = {u} \cup (DOMAIN indexHash \cup DOMAIN deletedObjects)
       /\ Joined(indexHash', deletedObjects')[u] = Blank
       /\ \A x \in DOMAIN indexHash \cup DOMAIN deletedObjects :
            Joined(indexHash', deletedObjects')[x] = Joined(indexHash, deletedObjects)[x]
  BY <1>1, <1>2, <1>3 DEF Joined
<1>11. \A a \in Attr : <<u, a>> \notin DOMAIN changedAttributes
  BY <1>2 DEF IInv, ListsMatchStore
<1>12. /\ \A x \in DOMAIN indexHash \cup DOMAIN deletedObjects : Unwound'[x] = Unwound[x]
       /\ \A a \in PointerAttr : Unwound'[u][a] = Null
  <2> DEFINE was(x, a) == IF <<x, a>> \in DOMAIN changedAttributes
                          THEN changedAttributes[<<x, a>>].old
                          ELSE Joined(indexHash, deletedObjects)[x].attr[a]
             now(x, a) == IF <<x, a>> \in DOMAIN changedAttributes
                          THEN changedAttributes[<<x, a>>].old
                          ELSE Joined(indexHash', deletedObjects')[x].attr[a]
  <2>1. Unwound = [x \in DOMAIN indexHash \cup DOMAIN deletedObjects |->
                    [a \in Attr |-> was(x, a)]]
    BY DEF Unwound, Before
  <2>2. Unwound' = [x \in DOMAIN indexHash' \cup DOMAIN deletedObjects' |->
                     [a \in Attr |-> now(x, a)]]
    BY <1>1 DEF Unwound, Before
  <2>3. \A x \in DOMAIN indexHash \cup DOMAIN deletedObjects, a \in Attr : now(x, a) = was(x, a)
    BY <1>10
  <2>4. \A a \in Attr : now(u, a) = Blank.attr[a]
    BY <1>10, <1>11
  <2> HIDE DEF was, now
  <2>5. \A x \in DOMAIN indexHash \cup DOMAIN deletedObjects : Unwound'[x] = Unwound[x]
    BY <1>10, <2>1, <2>2, <2>3
  <2>6. \A a \in PointerAttr : a \in Attr
    BY DEF Attr
  <2>7. \A a \in PointerAttr : Unwound'[u][a] = Null
    BY <1>5, <1>10, <2>2, <2>4, <2>6
  <2> QED
    BY <2>5, <2>7
<1>13. createdObjects \subseteq DOMAIN indexHash \cup DOMAIN deletedObjects
  BY DEF IInv, ListsMatchStore
<1>14. \A x \in createdObjects', a \in PointerAttr : Unwound'[x][a] = Null
  BY <1>1, <1>12, <1>13, SoundElim
<1> QED
  BY <1>1, <1>7, <1>8, <1>9, <1>14, SoundEdit, SoundElim


(* The end of a transaction: its entry leads to the view as it is, and the *)
(* next one starts from there.                                             *)
LEMMA SoundClosed ==
  ASSUME IInv, SoundInv, ClearLists, UNCHANGED <<indexHash, isJournaling, fault>>,
         \/ Journal(Transaction) /\ isJournaling
         \/ undoList' = undoList /\ (IsEmpty(Transaction) \/ ~isJournaling)
  PROVE  SoundInv'
<1>1. /\ View' = View /\ View \in Views /\ Committed \in Views /\ Resolved(View)
      /\ undoList \in Seq(Entry) /\ Transaction \in Entry
  BY CommittedIsAView DEF View, SoundInv, IInv, TypeOK
<1>2. Leads(Transaction', View, View) /\ Committed' = View
  BY <1>1, ClearListsEmpties, NothingLeads DEF Committed, IsEmpty
<1>3. LineTo(undoList', View, Views, SoundStep)
  <2>1. CASE Journal(Transaction)
    <3> DEFINE n == IF Len(undoList) = MaxUndo THEN 1 ELSE 0
               kept == SubSeq(undoList, n + 1, Len(undoList))
    <3>1. undoList' = Append(kept, Transaction)
      BY <2>1 DEF Journal
    <3>2. n \in 0 .. Len(undoList) /\ Len(undoList) \in Nat
      BY <1>1, ConstantsAssumption
    <3> HIDE DEF n
    <3>3. LineTo(kept, Committed, Views, SoundStep)
      BY <1>1, <3>2, LineTrimmed DEF SoundInv
    <3>4. kept \in Seq(Entry)
      <4>1. n + 1 \in 1 .. Len(undoList) + 1 /\ Len(undoList) \in (n + 1) - 1 .. Len(undoList)
        BY <3>2
      <4> QED
        BY <1>1, <4>1, SubSeqProperties
    <3>5. <<Transaction, Committed, View>> \in SoundStep
      BY <1>1 DEF SoundStep, SoundInv
    <3> HIDE DEF kept
    <3> QED
      BY <1>1, <3>1, <3>3, <3>4, <3>5, LineGrows
  <2>2. CASE undoList' = undoList /\ IsEmpty(Transaction)
    <3>1. Committed = View
      BY <1>1, <2>2, NothingLeads DEF Committed
    <3> QED
      BY <2>2, <3>1 DEF SoundInv
  <2>3. CASE undoList' = undoList /\ ~isJournaling
    <3>1. undoList' = << >>
      BY <2>3 DEF SoundInv
    <3> QED
      BY <1>1, <3>1, LineOfNothing
  <2> QED
    BY <2>1, <2>2, <2>3
<1>4. ~isJournaling' => undoList' = << >>
  BY DEF SoundInv
<1> QED
  BY <1>1, <1>2, <1>3, <1>4 DEF SoundInv

LEMMA AbortSound ==
  ASSUME IInv, SoundInv, AbortTransaction
  PROVE  SoundInv'
<1>1. indexHash \in Store /\ Transaction \in Entry
  BY DEF IInv, TypeOK
<1>2. /\ RollbackOutcome(indexHash, Transaction) = "none"
      /\ Mutual(Rollback(indexHash, Transaction))
      /\ Attributes(Rollback(indexHash, Transaction)) = Committed
  BY <1>1, RollbackIsSound, ViewIsAttributes DEF SoundInv
<1>3. /\ indexHash' = Rollback(indexHash, Transaction) /\ ClearLists
      /\ UNCHANGED <<isJournaling, undoList, fault>>
  BY <1>2 DEF AbortTransaction, journal
<1>4. View' = Committed /\ Committed \in Views /\ Resolved(Committed)
  BY <1>2, <1>3, ViewIsAttributes, CommittedIsAView DEF SoundInv, Leads
<1>5. Leads(Transaction', Committed, Committed) /\ Committed' = Committed
  BY <1>3, <1>4, ClearListsEmpties, NothingLeads DEF Committed, IsEmpty
<1> QED
  BY <1>2, <1>3, <1>4, <1>5 DEF SoundInv, LineTo

LEMMA UndoSound ==
  ASSUME IInv, SoundInv, Undo
  PROVE  SoundInv'
<1> DEFINE e == Last(undoList)
<1>1. /\ undoList # << >> /\ ~inTransaction /\ IsEmpty(Transaction)
      /\ undoList \in Seq(Entry) /\ indexHash \in Store /\ e \in Entry
  BY FrontShortens DEF Undo, IInv, TypeOK, ListsMatchStore
<1>2. /\ View \in Views /\ Committed \in Views /\ Resolved(View)
      /\ Mutual(indexHash)
  BY CommittedIsAView DEF SoundInv
<1>3. Committed = View
  BY <1>1, <1>2, NothingLeads DEF Committed
<1>4. PICK b \in Views :
        LineTo(Front(undoList), b, Views, SoundStep) /\ <<e, b, View>> \in SoundStep
  BY <1>1, <1>2, <1>3, LineShrinks DEF SoundInv
<1>5. Leads(e, b, View)
  BY <1>4 DEF SoundStep
<1>6. /\ RollbackOutcome(indexHash, e) = "none"
      /\ Mutual(Rollback(indexHash, e))
      /\ Attributes(Rollback(indexHash, e)) = b
  BY <1>1, <1>2, <1>5, RollbackIsSound, ViewIsAttributes
<1>7. /\ indexHash' = Rollback(indexHash, e)
      /\ undoList' = Front(undoList)
      /\ UNCHANGED <<createdObjects, changedAttributes, deletedObjects, isJournaling, fault>>
  BY <1>6 DEF Undo, lists
<1>8. View' = b /\ Transaction' = Transaction /\ Resolved(b)
  BY <1>5, <1>6, <1>7, ViewIsAttributes DEF Transaction, Leads
<1>9. Leads(Transaction', b, b) /\ Committed' = b
  BY <1>1, <1>8, NothingLeads DEF Committed
<1>10. isJournaling
  BY <1>1 DEF SoundInv
<1> QED
  BY <1>4, <1>6, <1>7, <1>8, <1>9, <1>10 DEF SoundInv

LEMMA InitSound == Init => SoundInv
<1> SUFFICES ASSUME Init PROVE SoundInv
  OBVIOUS
<1>1. indexHash = [u \in {Root} |-> Blank] /\ undoList = << >> /\ fault = "none"
  BY DEF Init
<1>2. \A a \in PointerAttr : Blank.attr[a] = Null /\ Blank.coll[a] = {}
  BY DEF Blank, Attr
<1>3. Root \in Uuid /\ Null \notin Uuid
  BY ConstantsAssumption
<1>4. DOMAIN indexHash = {Root} /\ indexHash[Root] = Blank
  BY <1>1
<1>5. Mutual(indexHash)
  BY <1>2, <1>3, <1>4 DEF Mutual
<1>6. Resolved(View)
  BY <1>2, <1>4 DEF Resolved, View
<1>7. View \in Views
  BY InitIInv, CommittedIsAView
<1>8. IsEmpty(Transaction)
  BY EmptyLists DEF Init, IsEmpty, Transaction
<1>9. Leads(Transaction, Committed, View) /\ Committed = View
  BY <1>6, <1>7, <1>8, NothingLeads DEF Committed
<1> QED
  BY <1>1, <1>5, <1>6, <1>7, <1>9, LineOfNothing DEF SoundInv

LEMMA NextSound ==
  ASSUME Careful, IInv, SoundInv, [Next]_vars
  PROVE  SoundInv'
<1>1. IInv'
  BY NextIInv
<1>2. CASE AbortTransaction
  BY <1>2, AbortSound
<1>3. CASE Undo
  BY <1>3, UndoSound
<1>4. ~Redo
  BY DEF Careful, Redo
<1>5. CASE DisableJournaling
  <2>1. /\ undoList' = SubSeq(undoList, Len(undoList) + 1, Len(undoList))
        /\ UNCHANGED <<indexHash, createdObjects, changedAttributes, deletedObjects, fault>>
    BY <1>5 DEF DisableJournaling, FlushUndoRedo, lists
  <2>2. undoList' = << >>
    BY <2>1, SubSeqEmpty DEF IInv, TypeOK
  <2>3. View' = View /\ Transaction' = Transaction /\ Committed' = Committed
    BY <2>1 DEF View, Transaction, Committed
  <2>4. Committed \in Views
    BY CommittedIsAView
  <2> QED
    BY <2>1, <2>2, <2>3, <2>4, LineOfNothing DEF SoundInv, Leads
<1>6. CASE CommitTransaction \/ Save
  <2>1. /\ ClearLists /\ UNCHANGED <<indexHash, isJournaling, fault>>
    BY <1>6 DEF CommitTransaction, Save
  <2>2. \/ Journal(Transaction) /\ isJournaling
        \/ undoList' = undoList /\ (IsEmpty(Transaction) \/ ~isJournaling)
    BY <1>6 DEF CommitTransaction, Save, IInv, ListsMatchStore
  <2> QED
    BY <2>1, <2>2, SoundClosed
<1>7. CASE \/ EnableJournaling \/ BeginTransaction \/ CloseObject \/ UNCHANGED vars
           \/ \E u \in Uuid : OpenObject(u)
  <2>1. /\ UNCHANGED <<indexHash, createdObjects, changedAttributes, deletedObjects, undoList, fault>>
        /\ isJournaling' \/ isJournaling' = isJournaling
    BY <1>7 DEF EnableJournaling, BeginTransaction, CloseObject, OpenObject, vars, lists, journal
  <2> QED
    BY <2>1, SoundStutter
<1>8. CASE DeleteObject
  BY <1>1, <1>8, DeleteSound DEF Careful
<1>9. ASSUME NEW u \in Uuid, CreateObject(u)
      PROVE  SoundInv'
  BY <1>1, <1>9, CreateSound
<1>10. ASSUME NEW a \in ValueAttr, NEW v \in Value, SetAttributeValue(a, v)
       PROVE  SoundInv'
  BY <1>1, <1>10, SetAttributeSound
<1>11. ASSUME NEW a \in PointerAttr, NEW t \in Uuid \cup {Null}, SetPointerValue(a, t)
       PROVE  SoundInv'
  BY <1>1, <1>11, SetPointerSound
<1> QED
  BY <1>2, <1>3, <1>4, <1>5, <1>6, <1>7, <1>8, <1>9, <1>10, <1>11 DEF Next

(* PointerUpdate (BinFile.cpp): as long as no client deletes an object     *)
(* that another points to and none calls Redo, every back-pointer list     *)
(* names exactly the objects that point to its owner, through any edits,   *)
(* deletions, commits, aborts, undos and saves.                            *)
THEOREM PointersAreMutual == ASSUME Careful PROVE Spec => []BackPointersMatch
<1>1. IInv /\ SoundInv /\ [Next]_vars => IInv' /\ SoundInv'
  BY NextIInv, NextSound
<1>2. SoundInv => BackPointersMatch
  BY DEF SoundInv, Mutual, BackPointersMatch
<1> QED
  BY InitIInv, InitSound, <1>1, <1>2, PTL DEF Spec

(* A pointer is Null or points to a live object. *)
NoDanglingPointer ==
  \A s \in DOMAIN indexHash, a \in PointerAttr :
    indexHash[s].attr[a] \in DOMAIN indexHash \cup {Null}

(* For such clients no pointer outlives the object it points to: they null *)
(* the pointers to an object before they delete it, which DeleteObject     *)
(* leaves to them, and an abort or an undo that removes created objects    *)
(* takes back the pointers to them first.                                  *)
THEOREM NothingDangles == ASSUME Careful PROVE Spec => []NoDanglingPointer
<1>1. IInv /\ SoundInv /\ [Next]_vars => IInv' /\ SoundInv'
  BY NextIInv, NextSound
<1>2. SoundInv => NoDanglingPointer
  BY DEF SoundInv, Resolved, View, NoDanglingPointer
<1> QED
  BY InitIInv, InitSound, <1>1, <1>2, PTL DEF Spec

(* And for such clients no call fails an assertion or goes through         *)
(* _indexHash.end() in PointerUpdate (BinFile.cpp): in every abort and     *)
(* undo the object a pointer is taken off is there.                        *)
THEOREM CarefulClientsLive == ASSUME Careful PROVE Spec => []NeverDies
<1>1. IInv /\ SoundInv /\ [Next]_vars => IInv' /\ SoundInv'
  BY NextIInv, NextSound
<1>2. SoundInv => NeverDies
  BY DEF SoundInv, NeverDies
<1> QED
  BY InitIInv, InitSound, <1>1, <1>2, PTL DEF Spec


--------------------------------------------------------------------------------
(* The line of views that the journal stands for.                          *)

(* A step of a line is known from its entry and where it arrives.          *)
Functional(S) == \A x \in S, y \in S : x[1] = y[1] /\ x[3] = y[3] => x[2] = y[2]

IsLine(D, list, present, T, S) ==
  /\ D \in [1 .. Len(list) + 1 -> T]
  /\ D[Len(list) + 1] = present
  /\ \A i \in 1 .. Len(list) : <<list[i], D[i], D[i + 1]>> \in S

(* The views before (for undo) or after (for redo) each entry of a list.   *)
Stores(list, present, T, S) ==
  LET D == CHOOSE D : IsLine(D, list, present, T, S)
  IN  [i \in 1 .. Len(list) |-> D[i]]

LEMMA LineUnique ==
  ASSUME NEW list \in Seq(Entry), NEW c, NEW T, NEW S, Functional(S),
         NEW D, IsLine(D, list, c, T, S), NEW F, IsLine(F, list, c, T, S)
  PROVE  D = F
<1> DEFINE n == Len(list)
           C == {k \in 0 .. n : D[(n + 1) - k] # F[(n + 1) - k]}
<1>1. n \in Nat
  OBVIOUS
<1>2. /\ D \in [1 .. n + 1 -> T] /\ F \in [1 .. n + 1 -> T]
      /\ D[n + 1] = F[n + 1]
      /\ \A i \in 1 .. n : <<list[i], D[i], D[i + 1]>> \in S /\ <<list[i], F[i], F[i + 1]>> \in S
  BY DEF IsLine
<1> HIDE DEF n
<1>3. C = {}
  <2> SUFFICES ASSUME C # {} PROVE FALSE
    OBVIOUS
  <2>1. C \in SUBSET Nat
    BY <1>1
  <2>2. PICK k \in C : \A m \in C : k <= m
    <3> HIDE DEF C
    <3> QED
      BY <2>1, LeastNatural
  <2>3. k \in 0 .. n /\ D[(n + 1) - k] # F[(n + 1) - k]
    OBVIOUS
  <2>4. k # 0
    BY <1>1, <1>2, <2>3
  <2>5. k - 1 \in 0 .. n /\ ~(k - 1 \in C)
    BY <1>1, <2>2, <2>3, <2>4
  <2>6. D[(n + 1) - (k - 1)] = F[(n + 1) - (k - 1)]
    BY <2>5
  <2> DEFINE i == (n + 1) - k
  <2>7. i \in 1 .. n /\ i + 1 = (n + 1) - (k - 1)
    BY <1>1, <2>3, <2>4
  <2>8. D[i + 1] = F[i + 1] /\ D[i] # F[i]
    BY <2>3, <2>6, <2>7
  <2> HIDE DEF i, C
  <2>9. <<list[i], D[i], D[i + 1]>> \in S /\ <<list[i], F[i], F[i + 1]>> \in S
    BY <1>2, <2>7
  <2> QED
    BY <2>8, <2>9 DEF Functional
<1>4. \A i \in 1 .. n + 1 : D[i] = F[i]
  <2> SUFFICES ASSUME NEW i \in 1 .. n + 1 PROVE D[i] = F[i]
    OBVIOUS
  <2>1. (n + 1) - i \in 0 .. n /\ (n + 1) - ((n + 1) - i) = i
    BY <1>1
  <2>2. (n + 1) - i \notin C
    BY <1>3
  <2>3. D[(n + 1) - ((n + 1) - i)] = F[(n + 1) - ((n + 1) - i)]
    BY <2>1, <2>2
  <2> QED
    BY <2>1, <2>3
<1>5. D = [i \in 1 .. n + 1 |-> D[i]] /\ F = [i \in 1 .. n + 1 |-> F[i]]
  BY <1>2
<1> HIDE DEF C
<1> QED
  BY <1>4, <1>5

(* The stores of a line, from any line there is.                           *)
LEMMA StoresOfLine ==
  ASSUME NEW list \in Seq(Entry), NEW c, NEW T, NEW S, Functional(S),
         NEW D, IsLine(D, list, c, T, S)
  PROVE  /\ Stores(list, c, T, S) = [i \in 1 .. Len(list) |-> D[i]]
         /\ Stores(list, c, T, S) \in Seq(T)
         /\ Len(Stores(list, c, T, S)) = Len(list)
<1> DEFINE E == CHOOSE E : IsLine(E, list, c, T, S)
<1>1. IsLine(E, list, c, T, S)
  OBVIOUS
<1> HIDE DEF E
<1>2. E = D
  BY <1>1, LineUnique
<1>3. Stores(list, c, T, S) = [i \in 1 .. Len(list) |-> E[i]]
  BY DEF Stores, E
<1>4. Len(list) \in Nat /\ \A i \in 1 .. Len(list) : D[i] \in T
  BY DEF IsLine
<1>5. [i \in 1 .. Len(list) |-> D[i]] \in Seq(T) /\ Len([i \in 1 .. Len(list) |-> D[i]]) = Len(list)
  <2> DEFINE n == Len(list)
             g == [i \in 1 .. n |-> D[i]]
  <2>1. n \in Nat /\ g \in [1 .. n -> T]
    BY <1>4
  <2> HIDE DEF n, g
  <2>2. g \in Seq(T) /\ Len(g) = n
    BY <2>1
  <2> QED
    BY <2>2 DEF n, g
<1> QED
  BY <1>2, <1>3, <1>5

LEMMA LineHasLine ==
  ASSUME NEW list, NEW c, NEW T, NEW S
  PROVE  LineTo(list, c, T, S) <=> \E D : IsLine(D, list, c, T, S)
BY DEF LineTo, IsLine

LEMMA StoresOfNothing ==
  ASSUME NEW c, NEW T, NEW S
  PROVE  Stores(<< >>, c, T, S) = << >>
BY DEF Stores

(* Append, for sequences of any kind.                                      *)
LEMMA AppendedSequence ==
  ASSUME NEW T, NEW s \in Seq(T), NEW b \in T
  PROVE  /\ Len(s) \in Nat /\ Len(Append(s, b)) = Len(s) + 1
         /\ \A i \in 1 .. Len(s) : Append(s, b)[i] = s[i]
         /\ Append(s, b)[Len(s) + 1] = b
         /\ Append(s, b) = [i \in 1 .. Len(Append(s, b)) |-> Append(s, b)[i]]
         /\ Append(s, b) # << >>
         /\ Last(Append(s, b)) = b
         /\ Front(Append(s, b)) = s
<1> DEFINE r == Append(s, b)
<1>1. /\ Len(s) \in Nat /\ Len(r) = Len(s) + 1
      /\ \A i \in 1 .. Len(s) : r[i] = s[i]
      /\ r[Len(s) + 1] = b
      /\ r \in Seq(T)
  OBVIOUS
<1>2. SubSeq(r, 1, Len(s)) = s
  OBVIOUS
<1>3. Len(r) - 1 = Len(s)
  BY <1>1
<1> HIDE DEF r
<1>4. r = [i \in 1 .. Len(r) |-> r[i]]
  BY <1>1
<1>5. r # << >>
  BY <1>1
<1>6. Last(r) = b
  BY <1>1 DEF Last
<1>7. Front(r) = s
  BY <1>2, <1>3 DEF Front
<1> QED
  BY <1>1, <1>4, <1>5, <1>6, <1>7 DEF r

(* The list q is list with the entry e after it.                           *)
Longer(q, list, e) ==
  /\ q \in Seq(Entry) /\ Len(q) = Len(list) + 1
  /\ \A i \in 1 .. Len(list) : q[i] = list[i]
  /\ q[Len(list) + 1] = e

LEMMA AppendIsLonger ==
  ASSUME NEW list \in Seq(Entry), NEW e \in Entry
  PROVE  Longer(Append(list, e), list, e)
BY DEF Longer

LEMMA LongerThanFront ==
  ASSUME NEW list \in Seq(Entry), list # << >>
  PROVE  Longer(list, Front(list), Last(list))
<1>1. /\ Len(Front(list)) = Len(list) - 1 /\ Len(list) \in Nat \ {0}
      /\ \A i \in 1 .. Len(Front(list)) : Front(list)[i] = list[i]
      /\ Last(list) = list[Len(list)]
  BY FrontShortens
<1>2. (Len(list) - 1) + 1 = Len(list)
  BY <1>1
<1> QED
  BY <1>1, <1>2 DEF Longer

(* The sequence r is s with x after it.                                    *)
IsAppend(r, s, x) == r = Append(s, x)

(* One entry more, one store more.                                         *)
LEMMA StoresGrow ==
  ASSUME NEW list \in Seq(Entry), NEW e \in Entry, NEW T, NEW S, Functional(S),
         NEW b \in T, NEW c \in T,
         LineTo(list, b, T, S), <<e, b, c>> \in S, NEW q, Longer(q, list, e)
  PROVE  IsAppend(Stores(q, c, T, S), Stores(list, b, T, S), b)
<1> DEFINE n == Len(list)
<1>1. PICK D : IsLine(D, list, b, T, S)
  BY LineHasLine
<1>2. /\ D \in [1 .. n + 1 -> T] /\ D[n + 1] = b
      /\ \A i \in 1 .. n : <<list[i], D[i], D[i + 1]>> \in S
  BY <1>1 DEF IsLine
<1> DEFINE F == [i \in 1 .. n + 2 |-> IF i = n + 2 THEN c ELSE D[i]]
<1>3. /\ n \in Nat /\ (n + 1) + 1 = n + 2
      /\ q \in Seq(Entry) /\ Len(q) = n + 1
      /\ \A i \in 1 .. n : q[i] = list[i]
      /\ q[n + 1] = e
  BY DEF Longer
<1>4. F \in [1 .. n + 2 -> T] /\ F[n + 2] = c /\ \A i \in 1 .. n + 1 : F[i] = D[i]
  BY <1>2, <1>3
<1> HIDE DEF F, n
<1>5. ASSUME NEW i \in 1 .. n + 1
      PROVE  <<q[i], F[i], F[i + 1]>> \in S
  <2>1. CASE i = n + 1
    <3>1. q[i] = e /\ F[i] = b /\ F[i + 1] = c
      BY <1>2, <1>3, <1>4, <2>1
    <3> QED
      BY <3>1
  <2>2. CASE i \in 1 .. n
    <3>1. i \in 1 .. n + 1 /\ i + 1 \in 1 .. n + 1
      BY <1>3, <2>2
    <3>2. q[i] = list[i] /\ F[i] = D[i] /\ F[i + 1] = D[i + 1]
      BY <1>3, <1>4, <2>2, <3>1
    <3> QED
      BY <1>2, <2>2, <3>2
  <2>3. i = n + 1 \/ i \in 1 .. n
    BY <1>3
  <2> QED
    BY <2>1, <2>2, <2>3
<1>6. IsLine(F, q, c, T, S)
  BY <1>3, <1>4, <1>5 DEF IsLine
<1>7. q \in Seq(Entry)
  BY <1>3
<1>8. Stores(q, c, T, S) = [i \in 1 .. n + 1 |-> F[i]]
  <2>1. Stores(q, c, T, S) = [i \in 1 .. Len(q) |-> F[i]]
    BY <1>6, <1>7, StoresOfLine
  <2> QED
    BY <1>3, <2>1
<1> DEFINE s == Stores(list, b, T, S)
<1>9. s = [i \in 1 .. n |-> D[i]] /\ s \in Seq(T) /\ Len(s) = n
  BY <1>1, StoresOfLine DEF n
<1> HIDE DEF s
<1>10. /\ Len(Append(s, b)) = n + 1
       /\ \A i \in 1 .. n : Append(s, b)[i] = s[i]
       /\ Append(s, b)[n + 1] = b
       /\ Append(s, b) = [i \in 1 .. Len(Append(s, b)) |-> Append(s, b)[i]]
  <2>1. s \in Seq(T)
    BY <1>9
  <2>2. /\ Len(Append(s, b)) = Len(s) + 1
        /\ \A i \in 1 .. Len(s) : Append(s, b)[i] = s[i]
        /\ Append(s, b)[Len(s) + 1] = b
        /\ Append(s, b) = [i \in 1 .. Len(Append(s, b)) |-> Append(s, b)[i]]
    BY <2>1, AppendedSequence
  <2> QED
    BY <1>9, <2>2
<1>11. \A i \in 1 .. n + 1 : Append(s, b)[i] = F[i]
  BY <1>2, <1>3, <1>4, <1>9, <1>10
<1>12. Append(s, b) = [i \in 1 .. n + 1 |-> Append(s, b)[i]]
  BY <1>10
<1>13. Stores(q, c, T, S) = Append(s, b)
  BY <1>8, <1>11, <1>12
<1> QED
  BY <1>13 DEF s, IsAppend

(* One entry less, one store less.                                         *)
LEMMA StoresShrink ==
  ASSUME NEW list \in Seq(Entry), list # << >>, NEW T, NEW S, Functional(S),
         NEW b \in T, NEW c \in T,
         LineTo(Front(list), b, T, S), <<Last(list), b, c>> \in S
  PROVE  /\ Stores(list, c, T, S) # << >>
         /\ Last(Stores(list, c, T, S)) = b
         /\ Front(Stores(list, c, T, S)) = Stores(Front(list), b, T, S)
<1> DEFINE f == Front(list)
           l == Last(list)
           s == Stores(f, b, T, S)
<1>1. f \in Seq(Entry) /\ l \in Entry /\ Longer(list, f, l)
  BY FrontShortens, LongerThanFront
<1>2. LineTo(f, b, T, S) /\ <<l, b, c>> \in S
  OBVIOUS
<1> HIDE DEF f, l
<1>3. Stores(list, c, T, S) = Append(s, b)
  <2>1. IsAppend(Stores(list, c, T, S), Stores(f, b, T, S), b)
    BY <1>1, <1>2, StoresGrow
  <2> QED
    BY <2>1 DEF IsAppend
<1>4. s \in Seq(T)
  BY <1>1, <1>2, LineHasLine, StoresOfLine
<1> HIDE DEF s
<1>5. Append(s, b) # << >> /\ Last(Append(s, b)) = b /\ Front(Append(s, b)) = s
  BY <1>4, AppendedSequence
<1> QED
  BY <1>3, <1>5 DEF s, f

(* Without the oldest entry, without the oldest store.                     *)
LEMMA StoresTrimmed ==
  ASSUME NEW list \in Seq(Entry), list # << >>, NEW T, NEW S, Functional(S),
         NEW c \in T, LineTo(list, c, T, S)
  PROVE  /\ Stores(list, c, T, S) # << >>
         /\ Stores(SubSeq(list, 2, Len(list)), c, T, S) = Tail(Stores(list, c, T, S))
<1> DEFINE n == Len(list)
           kept == SubSeq(list, 2, n)
<1>1. PICK D : IsLine(D, list, c, T, S)
  BY LineHasLine
<1>2. /\ D \in [1 .. n + 1 -> T] /\ D[n + 1] = c
      /\ \A i \in 1 .. n : <<list[i], D[i], D[i + 1]>> \in S
  BY <1>1 DEF IsLine
<1>3. n \in Nat \ {0}
  OBVIOUS
<1>4. /\ kept \in Seq(Entry) /\ Len(kept) = n - 1
      /\ \A i \in 1 .. n - 1 : kept[i] = list[i + 1]
  <2>1. kept = Tail(list)
    BY TailIsSubSeq
  <2>2. /\ Tail(list) \in Seq(Entry) /\ Len(Tail(list)) = n - 1
        /\ \A i \in 1 .. Len(Tail(list)) : Tail(list)[i] = list[i + 1]
    BY HeadTailProperties
  <2> HIDE DEF kept, n
  <2> QED
    BY <2>1, <2>2
<1> DEFINE F == [i \in 1 .. n |-> D[i + 1]]
<1>5. F \in [1 .. n -> T] /\ F[n] = c
  BY <1>2, <1>3
<1>6. ASSUME NEW i \in 1 .. n - 1
      PROVE  <<kept[i], F[i], F[i + 1]>> \in S
  <2>1. /\ i + 1 \in 1 .. n /\ i \in 1 .. n
        /\ kept[i] = list[i + 1] /\ F[i] = D[i + 1] /\ F[i + 1] = D[(i + 1) + 1]
    BY <1>3, <1>4
  <2> QED
    BY <1>2, <2>1
<1> HIDE DEF kept, F, n
<1>7. (n - 1) + 1 = n
  BY <1>3
<1>8. IsLine(F, kept, c, T, S)
  BY <1>4, <1>5, <1>6, <1>7 DEF IsLine
<1>9. Stores(kept, c, T, S) = [i \in 1 .. n - 1 |-> F[i]]
  BY <1>4, <1>8, StoresOfLine
<1> DEFINE s == Stores(list, c, T, S)
<1>10. s = [i \in 1 .. n |-> D[i]] /\ s \in Seq(T) /\ Len(s) = n
  BY <1>1, StoresOfLine DEF n
<1> HIDE DEF s
<1>11. s # << >> /\ Tail(s) = [i \in 1 .. n - 1 |-> s[i + 1]]
  BY <1>3, <1>10
<1>12. \A i \in 1 .. n - 1 : s[i + 1] = F[i]
  BY <1>3, <1>10 DEF F
<1>13. Tail(s) = [i \in 1 .. n - 1 |-> F[i]]
  BY <1>11, <1>12
<1> QED
  BY <1>9, <1>11, <1>13 DEF s, kept, n

--------------------------------------------------------------------------------
(* The storage implements ICoreStorage.  Undo and Redo step along one line *)
(* of stores: an entry takes the store after it back to the one before,    *)
(* and forward again.                                                      *)

Link(e, b, c) == b = Backward(c, e) /\ c = Forward(b, e)

BackStep == {x \in Entry \X Views \X Views : Link(x[1], x[2], x[3])}
ForthStep == {x \in Entry \X Views \X Views : Link(x[1], x[3], x[2])}

(* What a change record calls new is what the attribute holds, and an      *)
(* attribute of a created object without a record holds what it started    *)
(* with.                                                                   *)
Current ==
  \A u \in DOMAIN indexHash, a \in Attr :
    IF <<u, a>> \in DOMAIN changedAttributes
    THEN changedAttributes[<<u, a>>].new = indexHash[u].attr[a]
    ELSE u \in createdObjects => indexHash[u].attr[a] = Blank.attr[a]

StoryInv ==
  /\ Current
  /\ LineTo(undoList, Committed, Views, BackStep)
  /\ LineTo(redoList, Committed, Views, ForthStep)

LEMMA StepsAreFunctional == Functional(BackStep) /\ Functional(ForthStep)
<1>1. \A x \in BackStep : x[2] = Backward(x[3], x[1])
  BY DEF BackStep, Link
<1>2. \A x \in ForthStep : x[2] = Forward(x[3], x[1])
  BY DEF ForthStep, Link
<1>3. Functional(BackStep)
  BY <1>1 DEF Functional
<1>4. Functional(ForthStep)
  BY <1>2 DEF Functional
<1> QED
  BY <1>3, <1>4

(* Two sequences computed from their ends by the same rule are the same.   *)
SameRule(n, P, G) ==
  /\ P = [i \in 1 .. n |-> P[i]]
  /\ G = [i \in 1 .. n |-> G[i]]
  /\ \A i \in 1 .. n : i = n \/ P[i + 1] = G[i + 1] => P[i] = G[i]

LEMMA DownwardUnique ==
  ASSUME NEW n \in Nat, NEW P, NEW G, SameRule(n, P, G)
  PROVE  P = G
<1> USE DEF SameRule
<1> DEFINE C == {k \in 1 .. n : P[(n + 1) - k] # G[(n + 1) - k]}
<1>1. C = {}
  <2> SUFFICES ASSUME C # {} PROVE FALSE
    OBVIOUS
  <2>1. C \in SUBSET Nat
    OBVIOUS
  <2>2. PICK k \in C : \A m \in C : k <= m
    <3> HIDE DEF C
    <3> QED
      BY <2>1, LeastNatural
  <2>3. k \in 1 .. n /\ P[(n + 1) - k] # G[(n + 1) - k]
    OBVIOUS
  <2> DEFINE i == (n + 1) - k
  <2>4. i \in 1 .. n /\ (k = 1 => i = n)
    BY <2>3
  <2>5. ASSUME k # 1
        PROVE  P[i + 1] = G[i + 1]
    <3>0. k \in Nat /\ k - 1 \in 1 .. n
      BY <2>3, <2>5
    <3>1. k - 1 \in 1 .. n /\ ~(k - 1 \in C)
      <4> HIDE DEF C
      <4> QED
        BY <2>2, <3>0
    <3>2. P[(n + 1) - (k - 1)] = G[(n + 1) - (k - 1)]
      BY <3>1
    <3>3. (n + 1) - (k - 1) = i + 1
      BY <2>3
    <3> QED
      BY <3>2, <3>3
  <2>6. P[i] # G[i]
    BY <2>3
  <2> HIDE DEF i, C
  <2> QED
    BY <2>4, <2>5, <2>6
<1>2. \A i \in 1 .. n : P[i] = G[i]
  <2> SUFFICES ASSUME NEW i \in 1 .. n PROVE P[i] = G[i]
    OBVIOUS
  <2>1. (n + 1) - i \in 1 .. n /\ (n + 1) - ((n + 1) - i) = i
    OBVIOUS
  <2>2. (n + 1) - i \notin C
    BY <1>1
  <2>3. P[(n + 1) - ((n + 1) - i)] = G[(n + 1) - ((n + 1) - i)]
    BY <2>1, <2>2
  <2> QED
    BY <2>1, <2>3
<1> HIDE DEF C
<1> QED
  BY <1>2

(* The histories of the refinement mapping, for any list and store.        *)
BackThrough(list, c) ==
  LET n == Len(list)
      P[i \in 1 .. n] == Backward(IF i = n THEN c ELSE P[i + 1], list[i])
  IN  P

ForthThrough(list, c) ==
  LET n == Len(list)
      F[i \in 1 .. n] == Forward(IF i = n THEN c ELSE F[i + 1], list[i])
  IN  F

LEMMA PastAndFuture ==
  /\ Past = BackThrough(undoList, Committed)
  /\ Past' = BackThrough(undoList', Committed')
  /\ Future = ForthThrough(redoList, Committed)
  /\ Future' = ForthThrough(redoList', Committed')
BY DEF Past, Future, BackThrough, ForthThrough

LEMMA BackThroughIsStores ==
  ASSUME NEW list \in Seq(Entry), NEW c \in Views, LineTo(list, c, Views, BackStep)
  PROVE  BackThrough(list, c) = Stores(list, c, Views, BackStep)
<1> DEFINE n == Len(list)
           Rule(P) == [i \in 1 .. n |-> Backward(IF i = n THEN c ELSE P[i + 1], list[i])]
<1>1. PICK D : IsLine(D, list, c, Views, BackStep)
  BY LineHasLine
<1> DEFINE G == [i \in 1 .. n |-> D[i]]
<1>2. /\ n \in Nat /\ D[n + 1] = c
      /\ \A i \in 1 .. n : <<list[i], D[i], D[i + 1]>> \in BackStep
  BY <1>1 DEF IsLine
<1>3. \A i \in 1 .. n : D[i] = Backward(D[i + 1], list[i])
  BY <1>2 DEF BackStep, Link
<1>4. \A i \in 1 .. n : (IF i = n THEN c ELSE G[i + 1]) = D[i + 1]
  BY <1>2
<1>5. G = Rule(G)
  BY <1>3, <1>4
<1> DEFINE B == CHOOSE P : P = Rule(P)
<1>6. B = Rule(B)
  <2> HIDE DEF G
  <2>1. \E P : P = Rule(P)
    BY <1>5
  <2> QED
    BY <2>1
<1>7. BackThrough(list, c) = B
  BY DEF BackThrough
<1> HIDE DEF B
<1>8. B = [i \in 1 .. n |-> B[i]] /\ G = [i \in 1 .. n |-> G[i]]
  BY <1>6
<1>9. \A i \in 1 .. n :
        /\ B[i] = Backward(IF i = n THEN c ELSE B[i + 1], list[i])
        /\ G[i] = Backward(IF i = n THEN c ELSE G[i + 1], list[i])
  BY <1>5, <1>6
<1>10. \A i \in 1 .. n : i = n \/ B[i + 1] = G[i + 1] => B[i] = G[i]
  <2> HIDE DEF G, n
  <2> QED
    BY <1>9
<1>11. B = G
  <2> HIDE DEF G, n
  <2>1. SameRule(n, B, G)
    BY <1>8, <1>10 DEF SameRule
  <2> QED
    BY <1>2, <2>1, DownwardUnique
<1> QED
  BY <1>1, <1>7, <1>11, StoresOfLine, StepsAreFunctional

LEMMA ForthThroughIsStores ==
  ASSUME NEW list \in Seq(Entry), NEW c \in Views, LineTo(list, c, Views, ForthStep)
  PROVE  ForthThrough(list, c) = Stores(list, c, Views, ForthStep)
<1> DEFINE n == Len(list)
           Rule(P) == [i \in 1 .. n |-> Forward(IF i = n THEN c ELSE P[i + 1], list[i])]
<1>1. PICK D : IsLine(D, list, c, Views, ForthStep)
  BY LineHasLine
<1> DEFINE G == [i \in 1 .. n |-> D[i]]
<1>2. /\ n \in Nat /\ D[n + 1] = c
      /\ \A i \in 1 .. n : <<list[i], D[i], D[i + 1]>> \in ForthStep
  BY <1>1 DEF IsLine
<1>3. \A i \in 1 .. n : D[i] = Forward(D[i + 1], list[i])
  BY <1>2 DEF ForthStep, Link
<1>4. \A i \in 1 .. n : (IF i = n THEN c ELSE G[i + 1]) = D[i + 1]
  BY <1>2
<1>5. G = Rule(G)
  BY <1>3, <1>4
<1> DEFINE B == CHOOSE P : P = Rule(P)
<1>6. B = Rule(B)
  <2> HIDE DEF G
  <2>1. \E P : P = Rule(P)
    BY <1>5
  <2> QED
    BY <2>1
<1>7. ForthThrough(list, c) = B
  BY DEF ForthThrough
<1> HIDE DEF B
<1>8. B = [i \in 1 .. n |-> B[i]] /\ G = [i \in 1 .. n |-> G[i]]
  BY <1>6
<1>9. \A i \in 1 .. n :
        /\ B[i] = Forward(IF i = n THEN c ELSE B[i + 1], list[i])
        /\ G[i] = Forward(IF i = n THEN c ELSE G[i + 1], list[i])
  BY <1>5, <1>6
<1>10. \A i \in 1 .. n : i = n \/ B[i + 1] = G[i + 1] => B[i] = G[i]
  <2> HIDE DEF G, n
  <2> QED
    BY <1>9
<1>11. B = G
  <2> HIDE DEF G, n
  <2>1. SameRule(n, B, G)
    BY <1>8, <1>10 DEF SameRule
  <2> QED
    BY <1>2, <2>1, DownwardUnique
<1> QED
  BY <1>1, <1>7, <1>11, StoresOfLine, StepsAreFunctional

(* Redo, with every value accepted.  Only then: a value that Set refuses   *)
(* is recorded all the same, and Redo cannot set it either.                *)
LEMMA ReplayGivesForward ==
  ASSUME Malformed = {}, NEW s \in Store, NEW e \in Entry
  PROVE  Attributes(Replay(s, e)) = Forward(Attributes(s), e)
<1> DEFINE whole == Replayed(s, e)
           linked == PointerUpdate(whole, Moves(whole, OldContents(e)))
           set == SetAll(linked, NewContents(e))
           r == Replay(s, e)
           v == Attributes(s)
           begun == Joined(v, [u \in e.created |-> Blank.attr])
           D == (DOMAIN s \cup e.created) \ DOMAIN e.deleted
<1>1. /\ whole \in Store /\ DOMAIN whole = DOMAIN s \cup e.created
      /\ \A u \in DOMAIN s : whole[u] = s[u]
      /\ \A u \in e.created \ DOMAIN s : whole[u] = Blank
  <2> DEFINE fresh == [u \in e.created |-> Blank]
  <2>1. fresh \in Store
    BY BlankIsObject, EntryElim, StoreIntro
  <2>2. DOMAIN fresh = e.created /\ \A u \in e.created : fresh[u] = Blank
    OBVIOUS
  <2>3. whole = Joined(s, fresh)
    BY DEF Replayed
  <2> HIDE DEF fresh, whole
  <2>4. /\ whole \in Store /\ DOMAIN whole = DOMAIN s \cup DOMAIN fresh
        /\ \A u \in DOMAIN s : whole[u] = s[u]
        /\ \A u \in DOMAIN fresh \ DOMAIN s : whole[u] = fresh[u]
    BY <2>1, <2>3, JoinIsStore
  <2> QED
    BY <2>2, <2>4
<1> HIDE DEF whole
<1>2. /\ linked \in Store /\ DOMAIN linked = DOMAIN whole
      /\ \A u \in DOMAIN whole : linked[u].attr = whole[u].attr
  BY <1>1, PointerUpdateKeepsAttributes
<1> HIDE DEF linked
<1>3. /\ DOMAIN NewContents(e) = DOMAIN e.changed
      /\ DOMAIN NewContents(e) \subseteq Uuid \X Attr
      /\ \A k \in DOMAIN NewContents(e) : NewContents(e)[k] \in Content(k[2])
  BY ContentsOfEntry
<1>4. \A k \in DOMAIN e.changed : NewContents(e)[k] = e.changed[k].new
  BY DEF NewContents
<1>5. /\ set \in Store /\ DOMAIN set = DOMAIN linked
      /\ \A u \in DOMAIN linked, a \in Attr :
           set[u].attr[a] = IF <<u, a>> \in DOMAIN NewContents(e)
                               /\ NewContents(e)[<<u, a>>] \notin Malformed
                            THEN NewContents(e)[<<u, a>>] ELSE linked[u].attr[a]
  BY <1>2, <1>3, SetAllSets
<1> HIDE DEF set
<1>6. \A u \in DOMAIN whole, a \in Attr :
        set[u].attr[a] = IF <<u, a>> \in DOMAIN e.changed THEN e.changed[<<u, a>>].new
                         ELSE whole[u].attr[a]
  BY <1>2, <1>3, <1>4, <1>5
<1>7. r = Restrict(set, D)
  BY <1>1 DEF Replay, set, linked, whole
<1>8. r \in Store /\ DOMAIN r = D
  BY ReplayIsStore
<1>9. \A u \in D : r[u] = set[u]
  BY <1>7 DEF Restrict
<1>10. \A u \in D : r[u].attr = [a \in Attr |-> r[u].attr[a]]
  BY <1>8, StoreElim, ObjectElim
<1>11. DOMAIN v = DOMAIN s /\ \A u \in DOMAIN s : v[u] = s[u].attr
  BY AttributesAreAView
<1> HIDE DEF v, r
<1>12. /\ DOMAIN begun = DOMAIN s \cup e.created
       /\ \A u \in DOMAIN s \cup e.created : begun[u] = whole[u].attr
  <2>1. \A u \in DOMAIN s : begun[u] = s[u].attr
    BY <1>11 DEF Joined
  <2>2. \A u \in e.created \ DOMAIN s : begun[u] = Blank.attr
    BY <1>11 DEF Joined
  <2>3. DOMAIN begun = DOMAIN s \cup e.created
    BY <1>11 DEF Joined
  <2> HIDE DEF begun
  <2> QED
    BY <1>1, <2>1, <2>2, <2>3
<1> DEFINE f(u, a) == IF <<u, a>> \in DOMAIN e.changed THEN e.changed[<<u, a>>].new
                      ELSE begun[u][a]
<1>13. Forward(v, e) = [u \in D |-> [a \in Attr |-> f(u, a)]]
  <2>1. Forward(v, e) = [u \in DOMAIN begun \ DOMAIN e.deleted |-> [a \in Attr |-> f(u, a)]]
    BY DEF Forward
  <2> HIDE DEF begun, f
  <2> QED
    BY <1>12, <2>1
<1>14. \A u \in D, a \in Attr : r[u].attr[a] = f(u, a)
  <2> HIDE DEF begun
  <2>1. \A u \in D : u \in DOMAIN whole /\ begun[u] = whole[u].attr /\ r[u] = set[u]
    BY <1>1, <1>9, <1>12
  <2> HIDE DEF D
  <2> QED
    BY <1>6, <2>1
<1> HIDE DEF f, begun, D
<1>15. Attributes(r) = [u \in D |-> r[u].attr]
  BY <1>8 DEF Attributes
<1> QED
  BY <1>10, <1>13, <1>14, <1>15 DEF r, v

(* The open transaction leads from the committed store to the present one. *)
LEMMA TransactionLinks ==
  ASSUME IInv, Current
  PROVE  Link(Transaction, Committed, View)
<1> DEFINE begun == Joined(Committed, [u \in createdObjects |-> Blank.attr])
<1>1. /\ DOMAIN indexHash \cap DOMAIN deletedObjects = {}
      /\ createdObjects \subseteq DOMAIN indexHash \cup DOMAIN deletedObjects
  BY DEF IInv, ListsMatchStore
<1>2. /\ View \in Views /\ Committed \in Views
      /\ DOMAIN View = DOMAIN indexHash /\ DOMAIN Committed = CommittedUuids
  BY CommittedIsAView
<1>3. DOMAIN begun = DOMAIN indexHash \cup DOMAIN deletedObjects
  BY <1>1, <1>2 DEF Joined, CommittedUuids
<1>4. /\ \A u \in DOMAIN Committed : begun[u] = Committed[u]
      /\ \A u \in createdObjects \ DOMAIN Committed : begun[u] = Blank.attr
  BY DEF Joined
<1>5. \A u \in createdObjects : u \notin DOMAIN Committed
  BY <1>2 DEF CommittedUuids
<1>6. Transaction.created = createdObjects /\ Transaction.changed = changedAttributes
      /\ Transaction.deleted = deletedObjects
  BY DEF Transaction
<1> DEFINE f(u, a) == IF <<u, a>> \in DOMAIN changedAttributes
                      THEN changedAttributes[<<u, a>>].new ELSE begun[u][a]
<1>7. Forward(Committed, Transaction) = [u \in DOMAIN indexHash |-> [a \in Attr |-> f(u, a)]]
  <2>1. Forward(Committed, Transaction) =
          [u \in DOMAIN begun \ DOMAIN deletedObjects |-> [a \in Attr |-> f(u, a)]]
    BY <1>6 DEF Forward
  <2>2. DOMAIN begun \ DOMAIN deletedObjects = DOMAIN indexHash
    BY <1>1, <1>3
  <2> HIDE DEF f, begun
  <2> QED
    BY <2>1, <2>2
<1>8. ASSUME NEW u \in DOMAIN indexHash, NEW a \in Attr
      PROVE  f(u, a) = View[u][a]
  <2>1. View[u][a] = indexHash[u].attr[a]
    BY DEF View
  <2>2. CASE <<u, a>> \in DOMAIN changedAttributes
    BY <2>1, <2>2 DEF Current
  <2>3. CASE <<u, a>> \notin DOMAIN changedAttributes /\ u \in createdObjects
    BY <1>4, <1>5, <2>1, <2>3 DEF Current
  <2>4. CASE <<u, a>> \notin DOMAIN changedAttributes /\ u \notin createdObjects
    <3>1. Committed[u][a] = Joined(indexHash, deletedObjects)[u].attr[a]
      <4>1. Committed = Before(indexHash, createdObjects, deletedObjects, changedAttributes)
        BY CommittedIsBefore
      <4> QED
        BY <2>4, <4>1 DEF Before
    <3>2. Joined(indexHash, deletedObjects)[u] = indexHash[u]
      BY DEF Joined
    <3>3. u \in DOMAIN Committed
      BY <1>2, <2>4 DEF CommittedUuids
    <3> QED
      BY <1>4, <2>1, <2>4, <3>1, <3>2, <3>3
  <2> QED
    BY <2>2, <2>3, <2>4
<1>9. View = [u \in DOMAIN indexHash |-> View[u]]
  BY <1>2 DEF View
<1>10. \A u \in DOMAIN indexHash : View[u] = [a \in Attr |-> View[u][a]]
  BY <1>2, ViewElim
<1> HIDE DEF f, begun
<1>11. \A u \in DOMAIN indexHash : [a \in Attr |-> f(u, a)] = View[u]
  BY <1>8, <1>10
<1>12. View = Forward(Committed, Transaction)
  BY <1>7, <1>9, <1>11
<1> QED
  BY <1>12 DEF Link, Committed

(* Between transactions nothing is recorded.                               *)
LEMMA NothingRecorded ==
  /\ IsEmpty(Transaction) => Current
  /\ IsEmpty(Transaction') => Current'
BY DEF Current, IsEmpty, Transaction

(* An edit of the attributes A of the open object, which may also go.      *)
LEMMA ChangeStaysCurrent ==
  ASSUME IInv, Current, openedObject \in DOMAIN indexHash,
         NEW A \in SUBSET Attr, NEW c, \A a \in A : c \in Content(a),
         DOMAIN indexHash' \subseteq DOMAIN indexHash,
         \A u \in DOMAIN indexHash', a \in Attr :
           indexHash'[u].attr[a] = IF u = openedObject /\ a \in A THEN c
                                   ELSE indexHash[u].attr[a],
         changedAttributes' = Recorded(A, c), createdObjects' = createdObjects
  PROVE  Current'
<1> SUFFICES ASSUME NEW u \in DOMAIN indexHash', NEW a \in Attr
             PROVE  IF <<u, a>> \in DOMAIN changedAttributes'
                    THEN changedAttributes'[<<u, a>>].new = indexHash'[u].attr[a]
                    ELSE u \in createdObjects' => indexHash'[u].attr[a] = Blank.attr[a]
  BY DEF Current
<1> DEFINE r == [k \in {openedObject} \X A |->
                  [old |-> IF k \in DOMAIN changedAttributes THEN changedAttributes[k].old
                           ELSE indexHash[openedObject].attr[k[2]],
                   new |-> c]]
<1>1. changedAttributes' = Joined(r, changedAttributes)
  BY DEF Recorded
<1>2. DOMAIN r = {openedObject} \X A /\ \A k \in DOMAIN r : r[k].new = c
  OBVIOUS
<1> HIDE DEF r
<1>3. /\ DOMAIN changedAttributes' = DOMAIN r \cup DOMAIN changedAttributes
      /\ \A k \in DOMAIN r : changedAttributes'[k] = r[k]
      /\ \A k \in DOMAIN changedAttributes \ DOMAIN r : changedAttributes'[k] = changedAttributes[k]
  BY <1>1 DEF Joined
<1>4. CASE u = openedObject /\ a \in A
  <2>1. <<u, a>> \in DOMAIN r /\ <<u, a>> \in DOMAIN changedAttributes'
    BY <1>2, <1>3, <1>4
  <2>2. changedAttributes'[<<u, a>>].new = c
    BY <1>2, <1>3, <2>1
  <2>3. indexHash'[u].attr[a] = c
    BY <1>4
  <2> QED
    BY <2>1, <2>2, <2>3
<1>5. CASE ~(u = openedObject /\ a \in A)
  <2>1. indexHash'[u].attr[a] = indexHash[u].attr[a] /\ u \in DOMAIN indexHash
    BY <1>5
  <2>2. <<u, a>> \notin DOMAIN r
    BY <1>2, <1>5
  <2>3. CASE <<u, a>> \in DOMAIN changedAttributes
    <3>1. changedAttributes'[<<u, a>>] = changedAttributes[<<u, a>>]
          /\ <<u, a>> \in DOMAIN changedAttributes'
      BY <1>3, <2>2, <2>3
    <3>2. changedAttributes[<<u, a>>].new = indexHash[u].attr[a]
      BY <2>1, <2>3 DEF Current
    <3> QED
      BY <2>1, <3>1, <3>2
  <2>4. CASE <<u, a>> \notin DOMAIN changedAttributes
    <3>1. <<u, a>> \notin DOMAIN changedAttributes'
      BY <1>3, <2>2, <2>4
    <3>2. u \in createdObjects => indexHash[u].attr[a] = Blank.attr[a]
      BY <2>1, <2>4 DEF Current
    <3> QED
      BY <2>1, <3>1, <3>2
  <2> QED
    BY <2>3, <2>4
<1> QED
  BY <1>4, <1>5

--------------------------------------------------------------------------------
(* The steps of the storage as steps of CoreStorage.                       *)

LEMMA SameOperators ==
  \A f, S : Storage!Restrict(f, S) = Restrict(f, S)
BY DEF Storage!Restrict, Restrict

LEMMA SameEnds ==
  \A s : Storage!Last(s) = Last(s) /\ Storage!Front(s) = Front(s)
BY DEF Storage!Last, Last, Storage!Front, Front

LEMMA SameHistory ==
  ASSUME UNCHANGED <<undoList, redoList>>, Committed' = Committed
  PROVE  Past' = Past /\ Future' = Future
BY PastAndFuture

LEMMA SameStorage ==
  ASSUME UNCHANGED <<indexHash, createdObjects, changedAttributes, deletedObjects,
                     undoList, redoList>>
  PROVE  /\ View' = View /\ Committed' = Committed /\ Past' = Past /\ Future' = Future
         /\ StoryInv => StoryInv'
<1>1. View' = View /\ Transaction' = Transaction /\ Committed' = Committed
  BY DEF View, Transaction, Committed
<1> QED
  BY <1>1, SameHistory DEF StoryInv, Current, LineTo

LEMMA Histories ==
  ASSUME IInv, StoryInv
  PROVE  /\ Past = Stores(undoList, Committed, Views, BackStep)
         /\ Future = Stores(redoList, Committed, Views, ForthStep)
<1>1. undoList \in Seq(Entry) /\ redoList \in Seq(Entry) /\ Committed \in Views
  BY CommittedIsAView DEF IInv, TypeOK
<1> QED
  BY <1>1, PastAndFuture, BackThroughIsStores, ForthThroughIsStores DEF StoryInv

LEMMA HistoriesAfter ==
  ASSUME IInv', StoryInv'
  PROVE  /\ Past' = Stores(undoList', Committed', Views, BackStep)
         /\ Future' = Stores(redoList', Committed', Views, ForthStep)
<1>1. undoList' \in Seq(Entry) /\ redoList' \in Seq(Entry)
  BY DEF IInv, TypeOK
<1>2. Committed' \in Views
  <2>1. indexHash' \in Store /\ Transaction' \in Entry
    BY DEF IInv, TypeOK
  <2>2. Committed' = Backward(Attributes(indexHash'), Transaction')
    BY ViewIsAttributes DEF Committed
  <2> QED
    BY <2>1, <2>2, BackwardIsAView
<1>3. /\ LineTo(undoList', Committed', Views, BackStep)
      /\ LineTo(redoList', Committed', Views, ForthStep)
  BY DEF StoryInv
<1> QED
  BY <1>1, <1>2, <1>3, PastAndFuture, BackThroughIsStores, ForthThroughIsStores

(* An edit inside the transaction.                                         *)
LEMMA EditStory ==
  ASSUME StoryInv, Current', UNCHANGED <<undoList, redoList, inTransaction>>,
         Committed' = Committed, inTransaction,
         Storage!CreateObject \/ Storage!DeleteObject \/ Storage!SetAttributeValue
  PROVE  StoryInv' /\ Storage!Edit
<1>1. Past' = Past /\ Future' = Future
  BY SameHistory
<1>2. Storage!Edit
  BY <1>1 DEF Storage!Edit
<1>3. StoryInv'
  BY DEF StoryInv, LineTo
<1> QED
  BY <1>2, <1>3

(* Writing content c in the attribute a of the open object.                *)
LEMMA WriteStory ==
  ASSUME IInv, IInv', StoryInv, inTransaction, openedObject \in DOMAIN indexHash,
         NEW a \in Attr, NEW c \in Content(a),
         DOMAIN indexHash' = DOMAIN indexHash,
         \A u \in DOMAIN indexHash, b \in Attr :
           indexHash'[u].attr[b] = IF u = openedObject /\ b \in {a} THEN c
                                   ELSE indexHash[u].attr[b],
         changedAttributes' = Recorded({a}, c),
         UNCHANGED <<createdObjects, deletedObjects, undoList, redoList, inTransaction>>
  PROVE  StoryInv' /\ Storage!Edit
<1>1. Current'
  <2>1. {a} \in SUBSET Attr /\ \A b \in {a} : c \in Content(b)
    OBVIOUS
  <2> QED
    BY <2>1, ChangeStaysCurrent DEF StoryInv
<1>2. Committed' = Committed
  <2>1. {a} \in SUBSET Attr /\ \A b \in {a} : c \in Content(b)
    OBVIOUS
  <2>2. openedObject # Null
    BY ConstantsAssumption, StoreElim DEF IInv, TypeOK
  <2> QED
    BY <2>1, <2>2, ChangeKeepsCommitted
<1>3. /\ indexHash \in Store /\ indexHash' \in Store
      /\ View = Attributes(indexHash) /\ View' = Attributes(indexHash')
  BY ViewIsAttributes DEF IInv, TypeOK
<1> DEFINE u == openedObject
           w == Attributes(indexHash')
           v == Attributes(indexHash)
<1>4. /\ DOMAIN v = DOMAIN indexHash /\ DOMAIN w = DOMAIN indexHash
      /\ v = [x \in DOMAIN v |-> v[x]] /\ w = [x \in DOMAIN w |-> w[x]]
      /\ \A x \in DOMAIN v : v[x] = [b \in Attr |-> v[x][b]]
      /\ \A x \in DOMAIN w : w[x] = [b \in Attr |-> w[x][b]]
  BY <1>3, AttributesAreAView, ViewElim DEF Attributes
<1>5. \A x \in DOMAIN indexHash, b \in Attr : w[x][b] = IF x = u /\ b = a THEN c ELSE v[x][b]
  BY <1>3, AttributesAreAView
<1> HIDE DEF u, v, w
<1>6. w = [v EXCEPT ![u][a] = c]
  <2>1. \A x \in DOMAIN v : w[x] = IF x = u THEN [v[u] EXCEPT ![a] = c] ELSE v[x]
    <3> SUFFICES ASSUME NEW x \in DOMAIN v
                 PROVE  w[x] = IF x = u THEN [v[u] EXCEPT ![a] = c] ELSE v[x]
      OBVIOUS
    <3>1. CASE x = u
      BY <1>4, <1>5, <3>1
    <3>2. CASE x # u
      BY <1>4, <1>5, <3>2
    <3> QED
      BY <3>1, <3>2
  <2> QED
    BY <1>4, <2>1
<1>7. u \in DOMAIN v /\ c \in Value \cup Uuid \cup {Null}
  BY <1>4 DEF u, Content
<1>8. Storage!SetAttributeValue
  BY <1>3, <1>6, <1>7 DEF Storage!SetAttributeValue, v, w
<1> QED
  BY <1>1, <1>2, <1>8, EditStory

LEMMA CreateStory ==
  ASSUME IInv, IInv', StoryInv, NEW u \in Uuid, CreateObject(u)
  PROVE  StoryInv' /\ Storage!Edit
<1>1. /\ u \notin usedUuids /\ inTransaction
      /\ indexHash' = Joined([x \in {u} |-> Blank], indexHash)
      /\ createdObjects' = createdObjects \cup {u}
      /\ UNCHANGED <<inTransaction, changedAttributes, deletedObjects, undoList, redoList>>
  BY DEF CreateObject, journal
<1>2. u \notin DOMAIN indexHash /\ u \notin DOMAIN deletedObjects
  BY <1>1 DEF IInv, UuidsAreUsed
<1>3. /\ DOMAIN indexHash' = {u} \cup DOMAIN indexHash
      /\ indexHash'[u] = Blank
      /\ \A x \in DOMAIN indexHash : indexHash'[x] = indexHash[x]
  BY <1>1, <1>2 DEF Joined
<1>4. \A a \in Attr : <<u, a>> \notin DOMAIN changedAttributes
  BY <1>2 DEF IInv, ListsMatchStore
<1>5. Current'
  <2> SUFFICES ASSUME NEW x \in DOMAIN indexHash', NEW a \in Attr
               PROVE  IF <<x, a>> \in DOMAIN changedAttributes
                      THEN changedAttributes[<<x, a>>].new = indexHash'[x].attr[a]
                      ELSE x \in createdObjects' => indexHash'[x].attr[a] = Blank.attr[a]
    BY <1>1 DEF Current
  <2>1. CASE x = u
    BY <1>3, <1>4, <2>1
  <2>2. CASE x \in DOMAIN indexHash /\ x # u
    <3>1. x \in createdObjects' => x \in createdObjects
      BY <1>1, <2>2
    <3>2. indexHash'[x] = indexHash[x]
      BY <1>3, <2>2
    <3>3. IF <<x, a>> \in DOMAIN changedAttributes
          THEN changedAttributes[<<x, a>>].new = indexHash[x].attr[a]
          ELSE x \in createdObjects => indexHash[x].attr[a] = Blank.attr[a]
      BY <2>2 DEF StoryInv, Current
    <3> QED
      BY <3>1, <3>2, <3>3
  <2> QED
    BY <1>3, <2>1, <2>2
<1>6. Committed' = Committed
  BY CreateKeepsCommitted
<1>7. Storage!CreateObject
  <2>1. /\ View = [x \in DOMAIN indexHash |-> indexHash[x].attr]
        /\ View' = [x \in DOMAIN indexHash' |-> indexHash'[x].attr]
    BY DEF View
  <2>2. View' = [x \in DOMAIN View \cup {u} |-> IF x = u THEN Blank.attr ELSE View[x]]
    BY <1>2, <1>3, <2>1
  <2> QED
    BY <1>2, <2>1, <2>2 DEF Storage!CreateObject
<1> QED
  BY <1>1, <1>5, <1>6, <1>7, EditStory

(* The store t is s with c in attribute a of x.                            *)
Written(t, s, x, a, c) ==
  /\ DOMAIN t = DOMAIN s
  /\ \A u \in DOMAIN s, b \in Attr :
       t[u].attr[b] = IF u = x /\ b \in {a} THEN c ELSE s[u].attr[b]

IsOne(set, x, a, c) == set = [k \in {<<x, a>>} |-> c]

(* Set on one attribute, when no value is refused.                         *)
LEMMA OneSet ==
  ASSUME Malformed = {}, NEW s \in Store, NEW x \in DOMAIN s,
         NEW a \in Attr, NEW c \in Content(a),
         NEW set, IsOne(set, x, a, c)
  PROVE  Written(SetAll(s, set), s, x, a, c)
<1> DEFINE t == SetAll(s, set)
<1>1. DOMAIN set \subseteq Uuid \X Attr /\ \A k \in DOMAIN set : set[k] \in Content(k[2])
  BY StoreElim DEF IsOne
<1>2. /\ \A u, b : <<u, b>> \in DOMAIN set <=> u = x /\ b \in {a}
      /\ \A k \in DOMAIN set : set[k] = c /\ set[k] \notin Malformed
  BY DEF IsOne
<1>3. /\ DOMAIN t = DOMAIN s
      /\ \A u \in DOMAIN s, b \in Attr :
           t[u].attr[b] = IF <<u, b>> \in DOMAIN set /\ set[<<u, b>>] \notin Malformed
                          THEN set[<<u, b>>] ELSE s[u].attr[b]
  BY <1>1, SetAllSets
<1> HIDE DEF t
<1>4. ASSUME NEW u \in DOMAIN s, NEW b \in Attr
      PROVE  t[u].attr[b] = IF u = x /\ b \in {a} THEN c ELSE s[u].attr[b]
  <2>1. CASE u = x /\ b \in {a}
    <3>1. <<u, b>> \in DOMAIN set /\ set[<<u, b>>] = c /\ set[<<u, b>>] \notin Malformed
      BY <1>2, <2>1
    <3> QED
      BY <1>3, <2>1, <3>1
  <2>2. CASE ~(u = x /\ b \in {a})
    <3>1. <<u, b>> \notin DOMAIN set
      BY <1>2, <2>2
    <3> QED
      BY <1>3, <2>2, <3>1
  <2> QED
    BY <2>1, <2>2
<1> QED
  BY <1>3, <1>4 DEF t, Written

StorageStep == [Storage!Next]_<<View, Committed, inTransaction, Past, Future>>

LEMMA StorageStutters ==
  ASSUME UNCHANGED <<indexHash, createdObjects, changedAttributes, deletedObjects,
                     undoList, redoList, inTransaction>>, StoryInv
  PROVE  StoryInv' /\ StorageStep
BY SameStorage DEF StorageStep

LEMMA SetAttributeStory ==
  ASSUME Malformed = {}, IInv, IInv', StoryInv, NEW a \in ValueAttr, NEW v \in Value,
         SetAttributeValue(a, v)
  PROVE  StoryInv' /\ StorageStep
<1> DEFINE set == [k \in {<<openedObject, a>>} |-> v]
<1>1. /\ inTransaction /\ openedObject # Null
      /\ indexHash' = SetAll(indexHash, set)
      /\ changedAttributes' = Recorded({a}, v)
      /\ UNCHANGED <<createdObjects, deletedObjects, undoList, redoList, inTransaction>>
  BY DEF SetAttributeValue, journal, cursor
<1>2. a \in Attr /\ v \in Content(a)
  BY ConstantsAssumption DEF Attr, Content
<1>3. openedObject \in DOMAIN indexHash /\ indexHash \in Store
  BY <1>1 DEF IInv, TypeOK
<1>4. /\ DOMAIN indexHash' = DOMAIN indexHash
      /\ \A u \in DOMAIN indexHash, b \in Attr :
           indexHash'[u].attr[b] = IF u = openedObject /\ b \in {a} THEN v
                                   ELSE indexHash[u].attr[b]
  <2> HIDE DEF set
  <2>1. Written(SetAll(indexHash, set), indexHash, openedObject, a, v)
    <3>1. IsOne(set, openedObject, a, v)
      BY DEF set, IsOne
    <3> QED
      BY <1>2, <1>3, <3>1, OneSet
  <2> QED
    BY <1>1, <2>1 DEF Written
<1>5. StoryInv' /\ Storage!Edit
  BY <1>1, <1>2, <1>3, <1>4, WriteStory
<1> QED
  BY <1>5 DEF StorageStep, Storage!Next

LEMMA SetPointerStory ==
  ASSUME Malformed = {}, IInv, IInv', StoryInv, NEW a \in PointerAttr,
         NEW t \in Uuid \cup {Null}, SetPointerValue(a, t)
  PROVE  StoryInv' /\ StorageStep
<1> DEFINE target == [k \in {<<openedObject, a>>} |-> t]
           linked == PointerUpdate(indexHash, Moves(indexHash, target))
<1>1. CASE PointerCrash(indexHash, Moves(indexHash, target))
  <2>1. UNCHANGED <<indexHash, createdObjects, changedAttributes, deletedObjects,
                    undoList, redoList, inTransaction>>
    BY <1>1 DEF SetPointerValue, Die, lists, journal, cursor
  <2> QED
    BY <2>1, StorageStutters
<1>2. CASE ~PointerCrash(indexHash, Moves(indexHash, target))
  <2>1. /\ inTransaction /\ openedObject # Null
        /\ indexHash' = SetAll(linked, target)
        /\ changedAttributes' = Recorded({a}, t)
        /\ UNCHANGED <<createdObjects, deletedObjects, undoList, redoList, inTransaction>>
    BY <1>2 DEF SetPointerValue, journal, cursor
  <2>2. a \in Attr /\ t \in Content(a)
    BY DEF Attr, Content
  <2>3. openedObject \in DOMAIN indexHash /\ indexHash \in Store
    BY <2>1 DEF IInv, TypeOK
  <2>4. /\ linked \in Store /\ DOMAIN linked = DOMAIN indexHash
        /\ \A u \in DOMAIN indexHash : linked[u].attr = indexHash[u].attr
    BY <2>3, PointerUpdateKeepsAttributes
  <2> HIDE DEF linked
  <2>5. /\ DOMAIN indexHash' = DOMAIN linked
        /\ \A u \in DOMAIN linked, b \in Attr :
             indexHash'[u].attr[b] = IF u = openedObject /\ b \in {a} THEN t
                                     ELSE linked[u].attr[b]
    <3> HIDE DEF target
    <3>1. Written(SetAll(linked, target), linked, openedObject, a, t)
      <4>1. IsOne(target, openedObject, a, t)
        BY DEF target, IsOne
      <4>2. openedObject \in DOMAIN linked
        BY <2>3, <2>4
      <4> QED
        BY <2>2, <2>4, <4>1, <4>2, OneSet
    <3> QED
      BY <2>1, <3>1 DEF Written
  <2>6. \A u \in DOMAIN indexHash, b \in Attr :
          indexHash'[u].attr[b] = IF u = openedObject /\ b \in {a} THEN t
                                  ELSE indexHash[u].attr[b]
    BY <2>4, <2>5
  <2>7. DOMAIN indexHash' = DOMAIN indexHash
    BY <2>4, <2>5
  <2>8. StoryInv' /\ Storage!Edit
    <3> HIDE DEF target
    <3> QED
      BY <2>1, <2>2, <2>3, <2>6, <2>7, WriteStory
  <2> QED
    BY <2>8 DEF StorageStep, Storage!Next
<1> QED
  BY <1>1, <1>2

LEMMA DeleteStory ==
  ASSUME IInv, IInv', StoryInv, DeleteObject
  PROVE  StoryInv' /\ StorageStep
<1> DEFINE u == openedObject
           A == {a \in PointerAttr : indexHash[u].attr[a] # Null}
           nulls == [k \in {u} \X A |-> Null]
           nulled == Nulled(indexHash, u, A, Moves(indexHash, nulls))
<1>1. CASE PointerCrash(indexHash, Moves(indexHash, nulls))
  <2>1. UNCHANGED <<indexHash, createdObjects, changedAttributes, deletedObjects,
                    undoList, redoList, inTransaction>>
    BY <1>1 DEF DeleteObject, Die, lists, journal, cursor
  <2> QED
    BY <2>1, StorageStutters
<1>2. CASE ~PointerCrash(indexHash, Moves(indexHash, nulls))
  <2>1. fault' = "none" /\ inTransaction /\ u # Root
    BY <1>2 DEF DeleteObject, Running
  <2>2. /\ indexHash' = Restrict(nulled, DOMAIN indexHash \ {u})
        /\ changedAttributes' = Recorded(A, Null)
        /\ u \in DOMAIN indexHash
        /\ UNCHANGED <<createdObjects, undoList, redoList, inTransaction>>
    BY <2>1, DeleteElim
  <2>3. A \in SUBSET PointerAttr /\ A \in SUBSET Attr /\ \A a \in A : Null \in Content(a)
    BY DEF Attr, Content
  <2>4. indexHash \in Store /\ indexHash' \in Store
    BY DEF IInv, TypeOK
  <2>5. /\ nulled \in Store /\ DOMAIN nulled = DOMAIN indexHash
        /\ \A x \in DOMAIN indexHash, a \in Attr :
             nulled[x].attr[a] = IF x = u /\ a \in A THEN Null ELSE indexHash[x].attr[a]
    <3> HIDE DEF A, nulls, u
    <3> QED
      BY <2>2, <2>3, <2>4, NulledPointers
  <2> HIDE DEF A, nulled
  <2>6. /\ DOMAIN indexHash' = DOMAIN indexHash \ {u}
        /\ \A x \in DOMAIN indexHash \ {u} : indexHash'[x] = nulled[x]
    BY <2>2 DEF Restrict
  <2>7. \A x \in DOMAIN indexHash', a \in Attr :
          indexHash'[x].attr[a] = IF x = openedObject /\ a \in A THEN Null
                                  ELSE indexHash[x].attr[a]
    BY <2>5, <2>6
  <2>8. Current'
    BY <2>2, <2>3, <2>6, <2>7, ChangeStaysCurrent DEF StoryInv
  <2>9. Committed' = Committed
    BY DeleteKeepsCommitted
  <2> DEFINE v == Attributes(indexHash)
             w == Attributes(indexHash')
  <2>10. /\ DOMAIN v = DOMAIN indexHash /\ DOMAIN w = DOMAIN indexHash'
         /\ w = [x \in DOMAIN w |-> w[x]]
         /\ \A x \in DOMAIN v : v[x] = [a \in Attr |-> v[x][a]]
         /\ \A x \in DOMAIN w : w[x] = [a \in Attr |-> w[x][a]]
    BY <2>4, AttributesAreAView, ViewElim DEF Attributes
  <2>11. \A x \in DOMAIN w, a \in Attr : w[x][a] = v[x][a]
    <3>1. \A x \in DOMAIN w : w[x] = indexHash'[x].attr /\ v[x] = indexHash[x].attr
      BY <2>4, <2>6, <2>10, AttributesAreAView
    <3> QED
      BY <2>6, <2>7, <2>10, <3>1
  <2> HIDE DEF v, w
  <2>12. \A x \in DOMAIN w : w[x] = v[x]
    BY <2>6, <2>10, <2>11
  <2>13. w = Restrict(v, DOMAIN v \ {u})
    BY <2>6, <2>10, <2>12 DEF Restrict
  <2>14. Storage!DeleteObject
    <3>1. View = v /\ View' = w
      BY ViewIsAttributes DEF v, w
    <3>2. u \in DOMAIN View \ {Root}
      BY <2>1, <2>2, <2>10, <3>1
    <3>3. View' = Storage!Restrict(View, DOMAIN View \ {u})
      BY <2>13, <3>1, SameOperators
    <3> HIDE DEF u
    <3> QED
      BY <3>2, <3>3 DEF Storage!DeleteObject
  <2>15. StoryInv' /\ Storage!Edit
    BY <2>1, <2>2, <2>8, <2>9, <2>14, EditStory
  <2> QED
    BY <2>15 DEF StorageStep, Storage!Next
<1> QED
  BY <1>1, <1>2

(* Taking back a transaction that did nothing.                             *)
LEMMA NothingTaken ==
  ASSUME NEW v \in Views, NEW e, IsEmpty(e)
  PROVE  Backward(v, e) = v
<1>1. e.created = {} /\ DOMAIN e.changed = {} /\ DOMAIN e.deleted = {}
  BY DEF IsEmpty
<1>2. Backward(v, e) = [u \in DOMAIN v |-> [a \in Attr |-> v[u][a]]]
  BY <1>1 DEF Backward, Joined
<1>3. /\ \A u \in DOMAIN v : v[u] = [a \in Attr |-> v[u][a]]
      /\ v = [u \in DOMAIN v |-> v[u]]
  BY ViewElim
<1> QED
  BY <1>2, <1>3

(* The end of a transaction: the next one starts from the present store.   *)
LEMMA ClosedStory ==
  ASSUME IInv, IInv', StoryInv, ClearLists, UNCHANGED indexHash
  PROVE  /\ View' = View /\ Committed' = View /\ Current' /\ View \in Views
         /\ Link(Transaction, Committed, View) /\ Committed \in Views
         /\ IsEmpty(Transaction) => Committed = View
<1>1. IsEmpty(Transaction') /\ Transaction' \in Entry
  BY ClearListsEmpties DEF IsEmpty
<1>2. View' = View /\ View \in Views /\ Committed \in Views
  BY CommittedIsAView DEF View
<1>3. \A v \in Views, e \in Entry : IsEmpty(e) => Backward(v, e) = v
  BY NothingTaken
<1>4. Committed' = View
  BY <1>1, <1>2, <1>3 DEF Committed
<1>5. IsEmpty(Transaction) => Committed = View
  BY <1>2, <1>3 DEF Committed, IInv, TypeOK
<1>6. Link(Transaction, Committed, View)
  BY TransactionLinks DEF StoryInv
<1> QED
  BY <1>1, <1>2, <1>4, <1>5, <1>6, NothingRecorded

(* without an entry in the journal,                                        *)
LEMMA UnjournaledStory ==
  ASSUME IInv, IInv', Lines, StoryInv, ClearLists, UNCHANGED indexHash,
         undoList' = undoList, redoList' \in {redoList, << >>},
         IsEmpty(Transaction) \/ ~isJournaling
  PROVE  /\ StoryInv'
         /\ redoList' = << >> => Future' = << >>
         /\ \/ View = Committed /\ Past' = Past /\ (redoList' = redoList => Future' = Future)
            \/ Past = << >> /\ Past' = Past /\ Future = << >> /\ Future' = Future
<1>1. /\ View' = View /\ Committed' = View /\ Current' /\ View \in Views
      /\ IsEmpty(Transaction) => Committed = View
  BY ClosedStory
<1>2. undoList \in Seq(Entry) /\ redoList \in Seq(Entry) /\ Committed \in Views
  BY CommittedIsAView DEF IInv, TypeOK
<1>3. IsEmpty(Transaction) \/ (undoList = << >> /\ redoList = << >>)
  BY DEF Lines
<1>4. LineTo(undoList', View, Views, BackStep) /\ LineTo(redoList', View, Views, ForthStep)
  BY <1>1, <1>3, LineOfNothing DEF StoryInv
<1>5. StoryInv'
  BY <1>1, <1>4 DEF StoryInv
<1>6. /\ Past = Stores(undoList, Committed, Views, BackStep)
      /\ Future = Stores(redoList, Committed, Views, ForthStep)
      /\ Past' = Stores(undoList', View, Views, BackStep)
      /\ Future' = Stores(redoList', View, Views, ForthStep)
  BY <1>1, <1>5, Histories, HistoriesAfter
<1>7. redoList' = << >> => Future' = << >>
  BY <1>6, StoresOfNothing
<1>8. CASE IsEmpty(Transaction)
  BY <1>1, <1>5, <1>6, <1>7, <1>8
<1>9. CASE undoList = << >> /\ redoList = << >>
  <2>1. redoList' = << >> /\ undoList' = << >>
    BY <1>9
  <2>2. Past = << >> /\ Future = << >> /\ Past' = << >> /\ Future' = << >>
    BY <1>6, <1>9, <2>1, StoresOfNothing
  <2> QED
    BY <1>5, <2>2
<1> QED
  BY <1>3, <1>8, <1>9

(* and with one, which drops the oldest when there are too many.           *)
LEMMA JournaledStory ==
  ASSUME IInv, IInv', JournalBounded, StoryInv, ClearLists, UNCHANGED indexHash,
         Journal(Transaction)
  PROVE  /\ StoryInv'
         /\ Past' = Storage!Remember(Past, Committed) /\ Future' = << >>
<1> DEFINE n == IF Len(undoList) = MaxUndo THEN 1 ELSE 0
           kept == SubSeq(undoList, n + 1, Len(undoList))
           e == Transaction
           h == Stores(kept, Committed, Views, BackStep)
<1>1. /\ View' = View /\ Committed' = View /\ Current' /\ View \in Views
      /\ Link(Transaction, Committed, View)
  BY ClosedStory
<1>2. /\ undoList \in Seq(Entry) /\ redoList \in Seq(Entry) /\ Committed \in Views
      /\ e \in Entry
  BY CommittedIsAView DEF IInv, TypeOK
<1>3. undoList' = Append(kept, e) /\ redoList' = << >>
  BY DEF Journal
<1>4. Len(undoList) \in Nat /\ Len(undoList) <= MaxUndo /\ MaxUndo \in Nat \ {0}
  BY <1>2, ConstantsAssumption DEF JournalBounded
<1>5. n \in 0 .. Len(undoList) /\ n + 1 \in 1 .. Len(undoList) + 1
      /\ Len(undoList) \in (n + 1) - 1 .. Len(undoList)
  BY <1>4
<1>6. kept \in Seq(Entry)
  <2> HIDE DEF n
  <2> QED
    BY <1>2, <1>5, SubSeqProperties
<1>7. LineTo(kept, Committed, Views, BackStep)
  <2> HIDE DEF n
  <2> QED
    BY <1>2, <1>5, LineTrimmed DEF StoryInv
<1>8. <<e, Committed, View>> \in BackStep
  BY <1>1, <1>2 DEF BackStep
<1> HIDE DEF kept, e
<1>9. Longer(undoList', kept, e)
  BY <1>2, <1>3, <1>6, AppendIsLonger
<1>10. LineTo(undoList', View, Views, BackStep)
  BY <1>1, <1>2, <1>3, <1>6, <1>7, <1>8, LineGrows
<1>11. StoryInv'
  BY <1>1, <1>3, <1>10, LineOfNothing DEF StoryInv
<1>12. /\ Past = Stores(undoList, Committed, Views, BackStep)
       /\ Past' = Stores(undoList', View, Views, BackStep)
       /\ Future' = Stores(redoList', View, Views, ForthStep)
  BY <1>1, <1>11, Histories, HistoriesAfter
<1>13. Future' = << >>
  BY <1>3, <1>12, StoresOfNothing
<1>14. Past' = Append(h, Committed)
  <2>1. IsAppend(Stores(undoList', View, Views, BackStep), h, Committed)
    BY <1>1, <1>2, <1>6, <1>7, <1>8, <1>9, StoresGrow, StepsAreFunctional
  <2> QED
    BY <1>12, <2>1 DEF IsAppend
<1>15. Past \in Seq(Views) /\ Len(Past) = Len(undoList)
  BY <1>2, <1>12, LineHasLine, StoresOfLine, StepsAreFunctional DEF StoryInv
<1>16. h = IF Len(undoList) = MaxUndo THEN Tail(Past) ELSE Past
  <2>1. CASE Len(undoList) = MaxUndo
    <3>1. n = 1 /\ undoList # << >>
      BY <1>4, <2>1
    <3>2. kept = SubSeq(undoList, 2, Len(undoList))
      BY <3>1 DEF kept
    <3>3. h = Tail(Stores(undoList, Committed, Views, BackStep))
      BY <1>2, <3>1, <3>2, StoresTrimmed, StepsAreFunctional DEF StoryInv
    <3> QED
      BY <1>12, <2>1, <3>3
  <2>2. CASE Len(undoList) # MaxUndo
    <3>1. n = 0
      BY <2>2
    <3>2. kept = undoList
      <4>1. kept = SubSeq(undoList, 1, Len(undoList))
        BY <3>1 DEF kept
      <4> QED
        BY <1>2, <4>1, SubSeqFull
    <3> QED
      BY <1>12, <2>2, <3>2
  <2> QED
    BY <2>1, <2>2
<1> HIDE DEF h, n
<1>17. Storage!Remember(Past, Committed) =
         IF Len(undoList) = MaxUndo THEN Append(Tail(Past), Committed)
         ELSE Append(Past, Committed)
  <2> DEFINE all == Append(Past, Committed)
  <2>1. Len(all) = Len(undoList) + 1
    BY <1>2, <1>15
  <2>2. Storage!Remember(Past, Committed) = IF Len(all) > MaxUndo THEN Tail(all) ELSE all
    BY DEF Storage!Remember
  <2>3. Len(all) > MaxUndo <=> Len(undoList) = MaxUndo
    <3> HIDE DEF all
    <3> QED
      BY <1>4, <2>1
  <2>4. Len(undoList) = MaxUndo => Tail(all) = Append(Tail(Past), Committed)
    <3> SUFFICES ASSUME Len(undoList) = MaxUndo
                 PROVE  Tail(all) = Append(Tail(Past), Committed)
      OBVIOUS
    <3>1. Past # << >>
      BY <1>4, <1>15
    <3> QED
      BY <1>2, <1>15, <3>1
  <2> HIDE DEF all
  <2>5. CASE Len(undoList) = MaxUndo
    BY <2>2, <2>3, <2>4, <2>5
  <2>6. CASE Len(undoList) # MaxUndo
    BY <2>2, <2>3, <2>6 DEF all
  <2> QED
    BY <2>5, <2>6
<1> QED
  BY <1>11, <1>13, <1>14, <1>16, <1>17

LEMMA AbortStory ==
  ASSUME IInv, IInv', StoryInv, AbortTransaction
  PROVE  StoryInv' /\ StorageStep
<1>1. CASE RollbackOutcome(indexHash, Transaction) # "none"
  <2>1. UNCHANGED <<indexHash, createdObjects, changedAttributes, deletedObjects,
                    undoList, redoList, inTransaction>>
    BY <1>1 DEF AbortTransaction, Die, lists, journal, cursor
  <2> QED
    BY <2>1, StorageStutters
<1>2. CASE RollbackOutcome(indexHash, Transaction) = "none"
  <2>1. /\ indexHash' = Rollback(indexHash, Transaction) /\ ClearLists
        /\ inTransaction /\ inTransaction' = FALSE
        /\ UNCHANGED <<undoList, redoList>>
    BY <1>2 DEF AbortTransaction, journal
  <2>2. indexHash \in Store /\ Transaction \in Entry /\ Committed \in Views
    BY CommittedIsAView DEF IInv, TypeOK
  <2>3. View' = Committed
    BY <2>1, <2>2, RollbackGivesBackward, ViewIsAttributes DEF Committed
  <2>4. IsEmpty(Transaction')
    BY <2>1, ClearListsEmpties DEF IsEmpty
  <2>5. Committed' = Committed
    BY <2>2, <2>3, <2>4, NothingTaken DEF Committed
  <2>6. StoryInv'
    BY <2>1, <2>4, <2>5, NothingRecorded DEF StoryInv, LineTo
  <2>7. Past' = Past /\ Future' = Future
    BY <2>1, <2>5, SameHistory
  <2>8. Storage!AbortTransaction
    BY <2>1, <2>3, <2>5, <2>7 DEF Storage!AbortTransaction
  <2> QED
    BY <2>6, <2>8 DEF StorageStep, Storage!Next
<1> QED
  BY <1>1, <1>2

(* Undo and Redo move one entry, and the store it takes us to and the one  *)
(* it leaves change lists with it.                                         *)
LEMMA UndoStory ==
  ASSUME IInv, IInv', StoryInv, Undo
  PROVE  StoryInv' /\ StorageStep
<1> DEFINE e == Last(undoList)
<1>1. /\ undoList # << >> /\ ~inTransaction /\ IsEmpty(Transaction)
      /\ undoList \in Seq(Entry) /\ redoList \in Seq(Entry)
      /\ indexHash \in Store /\ e \in Entry /\ Front(undoList) \in Seq(Entry)
  BY FrontShortens DEF Undo, IInv, TypeOK, ListsMatchStore
<1>2. CASE RollbackOutcome(indexHash, e) # "none"
  <2>1. UNCHANGED <<indexHash, createdObjects, changedAttributes, deletedObjects,
                    undoList, redoList, inTransaction>>
    BY <1>2 DEF Undo, Die, lists, journal, cursor
  <2> QED
    BY <2>1, StorageStutters
<1>3. CASE RollbackOutcome(indexHash, e) = "none"
  <2>1. /\ indexHash' = Rollback(indexHash, e)
        /\ undoList' = Front(undoList) /\ redoList' = Append(redoList, e)
        /\ UNCHANGED <<createdObjects, changedAttributes, deletedObjects, inTransaction>>
    BY <1>3 DEF Undo, lists, cursor
  <2>2. View \in Views /\ Committed = View
    BY <1>1, CommittedIsAView, NothingTaken DEF Committed
  <2>3. PICK b \in Views :
          LineTo(Front(undoList), b, Views, BackStep) /\ <<e, b, View>> \in BackStep
    BY <1>1, <2>2, LineShrinks DEF StoryInv
  <2>4. Link(e, b, View)
    BY <2>3 DEF BackStep
  <2>5. View' = b
    BY <1>1, <2>1, <2>4, RollbackGivesBackward, ViewIsAttributes DEF Link
  <2>6. IsEmpty(Transaction') /\ Transaction' = Transaction
    BY <1>1, <2>1 DEF Transaction
  <2>7. Committed' = b
    BY <2>3, <2>5, <2>6, NothingTaken DEF Committed
  <2>8. <<e, View, b>> \in ForthStep
    BY <1>1, <2>2, <2>3, <2>4 DEF ForthStep
  <2>9. LineTo(redoList, View, Views, ForthStep)
    BY <2>2 DEF StoryInv
  <2> HIDE DEF e
  <2>10. LineTo(redoList', b, Views, ForthStep) /\ Longer(redoList', redoList, e)
    BY <1>1, <2>1, <2>2, <2>3, <2>8, <2>9, LineGrows, AppendIsLonger
  <2>11. StoryInv'
    BY <2>1, <2>3, <2>6, <2>7, <2>10, NothingRecorded DEF StoryInv
  <2>12. /\ Past = Stores(undoList, View, Views, BackStep)
         /\ Future = Stores(redoList, View, Views, ForthStep)
         /\ Past' = Stores(Front(undoList), b, Views, BackStep)
         /\ Future' = Stores(redoList', b, Views, ForthStep)
    BY <2>1, <2>2, <2>7, <2>11, Histories, HistoriesAfter
  <2>13. Past # << >> /\ Last(Past) = b /\ Front(Past) = Past'
    <3>1. /\ Stores(undoList, View, Views, BackStep) # << >>
          /\ Last(Stores(undoList, View, Views, BackStep)) = b
          /\ Front(Stores(undoList, View, Views, BackStep))
               = Stores(Front(undoList), b, Views, BackStep)
      BY <1>1, <2>2, <2>3, StoresShrink, StepsAreFunctional DEF e
    <3> QED
      BY <2>12, <3>1
  <2>14. Future' = Append(Future, View)
    <3>1. IsAppend(Stores(redoList', b, Views, ForthStep),
                   Stores(redoList, View, Views, ForthStep), View)
      BY <1>1, <2>2, <2>3, <2>8, <2>9, <2>10, StoresGrow, StepsAreFunctional
    <3> QED
      BY <2>12, <3>1 DEF IsAppend
  <2>15. Storage!Undo
    BY <1>1, <2>1, <2>5, <2>7, <2>13, <2>14, SameEnds DEF Storage!Undo
  <2> QED
    BY <2>11, <2>15 DEF StorageStep, Storage!Next
<1> QED
  BY <1>2, <1>3

LEMMA RedoStory ==
  ASSUME Malformed = {}, IInv, IInv', StoryInv, Redo
  PROVE  StoryInv' /\ StorageStep
<1> DEFINE e == Last(redoList)
<1>1. /\ redoList # << >> /\ ~inTransaction /\ IsEmpty(Transaction)
      /\ undoList \in Seq(Entry) /\ redoList \in Seq(Entry)
      /\ indexHash \in Store /\ e \in Entry /\ Front(redoList) \in Seq(Entry)
  BY FrontShortens DEF Redo, IInv, TypeOK, ListsMatchStore
<1>2. CASE ReplayOutcome(indexHash, e) # "none"
  <2>1. UNCHANGED <<indexHash, createdObjects, changedAttributes, deletedObjects,
                    undoList, redoList, inTransaction>>
    BY <1>2 DEF Redo, Die, lists, journal, cursor
  <2> QED
    BY <2>1, StorageStutters
<1>3. CASE ReplayOutcome(indexHash, e) = "none"
  <2>1. /\ indexHash' = Replay(indexHash, e)
        /\ redoList' = Front(redoList) /\ undoList' = Append(undoList, e)
        /\ UNCHANGED <<createdObjects, changedAttributes, deletedObjects, inTransaction>>
    BY <1>3 DEF Redo, lists, cursor
  <2>2. View \in Views /\ Committed = View
    BY <1>1, CommittedIsAView, NothingTaken DEF Committed
  <2>3. PICK c \in Views :
          LineTo(Front(redoList), c, Views, ForthStep) /\ <<e, c, View>> \in ForthStep
    BY <1>1, <2>2, LineShrinks DEF StoryInv
  <2>4. Link(e, View, c)
    BY <2>3 DEF ForthStep
  <2>5. View' = c
    BY <1>1, <2>1, <2>4, ReplayGivesForward, ViewIsAttributes DEF Link
  <2>6. IsEmpty(Transaction') /\ Transaction' = Transaction
    BY <1>1, <2>1 DEF Transaction
  <2>7. Committed' = c
    BY <2>3, <2>5, <2>6, NothingTaken DEF Committed
  <2>8. <<e, View, c>> \in BackStep
    BY <1>1, <2>2, <2>3, <2>4 DEF BackStep
  <2>9. LineTo(undoList, View, Views, BackStep)
    BY <2>2 DEF StoryInv
  <2> HIDE DEF e
  <2>10. LineTo(undoList', c, Views, BackStep) /\ Longer(undoList', undoList, e)
    BY <1>1, <2>1, <2>2, <2>3, <2>8, <2>9, LineGrows, AppendIsLonger
  <2>11. StoryInv'
    BY <2>1, <2>3, <2>6, <2>7, <2>10, NothingRecorded DEF StoryInv
  <2>12. /\ Past = Stores(undoList, View, Views, BackStep)
         /\ Future = Stores(redoList, View, Views, ForthStep)
         /\ Past' = Stores(undoList', c, Views, BackStep)
         /\ Future' = Stores(Front(redoList), c, Views, ForthStep)
    BY <2>1, <2>2, <2>7, <2>11, Histories, HistoriesAfter
  <2>13. Future # << >> /\ Last(Future) = c /\ Front(Future) = Future'
    <3>1. /\ Stores(redoList, View, Views, ForthStep) # << >>
          /\ Last(Stores(redoList, View, Views, ForthStep)) = c
          /\ Front(Stores(redoList, View, Views, ForthStep))
               = Stores(Front(redoList), c, Views, ForthStep)
      BY <1>1, <2>2, <2>3, StoresShrink, StepsAreFunctional DEF e
    <3> QED
      BY <2>12, <3>1
  <2>14. Past' = Append(Past, View)
    <3>1. IsAppend(Stores(undoList', c, Views, BackStep),
                   Stores(undoList, View, Views, BackStep), View)
      BY <1>1, <2>2, <2>3, <2>8, <2>9, <2>10, StoresGrow, StepsAreFunctional
    <3> QED
      BY <2>12, <3>1 DEF IsAppend
  <2>15. Storage!Redo
    BY <1>1, <2>1, <2>5, <2>7, <2>13, <2>14, SameEnds DEF Storage!Redo
  <2> QED
    BY <2>11, <2>15 DEF StorageStep, Storage!Next
<1> QED
  BY <1>2, <1>3

LEMMA DisableJournalingStory ==
  ASSUME IInv, IInv', StoryInv, DisableJournaling
  PROVE  StoryInv' /\ StorageStep
<1>1. /\ undoList' = SubSeq(undoList, Len(undoList) + 1, Len(undoList)) /\ redoList' = << >>
      /\ UNCHANGED <<indexHash, createdObjects, changedAttributes, deletedObjects, inTransaction>>
  BY DEF DisableJournaling, FlushUndoRedo, lists, cursor
<1>2. undoList' = << >>
  BY <1>1, SubSeqEmpty DEF IInv, TypeOK
<1>3. View' = View /\ Transaction' = Transaction /\ Committed' = Committed
  BY <1>1 DEF View, Transaction, Committed
<1>4. Committed \in Views
  BY CommittedIsAView
<1>5. StoryInv'
  BY <1>1, <1>2, <1>3, <1>4, LineOfNothing DEF StoryInv, Current
<1>6. Past' = << >> /\ Future' = << >>
  BY <1>1, <1>2, <1>5, HistoriesAfter, StoresOfNothing
<1>7. Storage!ForgetHistory
  BY <1>1, <1>3, <1>6 DEF Storage!ForgetHistory
<1> QED
  BY <1>5, <1>7 DEF StorageStep, Storage!Next

LEMMA InitStory == Init => StoryInv /\ Storage!Init
<1> SUFFICES ASSUME Init PROVE StoryInv /\ Storage!Init
  OBVIOUS
<1>1. /\ indexHash = [u \in {Root} |-> Blank] /\ undoList = << >> /\ redoList = << >>
      /\ inTransaction = FALSE
  BY DEF Init
<1>2. IInv
  BY InitIInv
<1>3. View \in Views /\ Committed \in Views
  BY <1>2, CommittedIsAView
<1>4. IsEmpty(Transaction)
  BY EmptyLists DEF Init, IsEmpty, Transaction
<1>5. Committed = View
  BY <1>3, <1>4, NothingTaken DEF Committed
<1>6. StoryInv
  BY <1>1, <1>3, <1>4, LineOfNothing, NothingRecorded DEF StoryInv
<1>7. Past = << >> /\ Future = << >>
  BY <1>1, <1>2, <1>6, Histories, StoresOfNothing
<1>8. View = [u \in {Root} |-> Blank.attr]
  BY <1>1 DEF View
<1> QED
  BY <1>1, <1>5, <1>6, <1>7, <1>8 DEF Storage!Init

LEMMA CommitStory ==
  ASSUME IInv, IInv', Lines, JournalBounded, StoryInv, CommitTransaction
  PROVE  StoryInv' /\ StorageStep
<1>1. /\ ClearLists /\ UNCHANGED indexHash /\ inTransaction /\ inTransaction' = FALSE
      /\ View' = View /\ Committed' = View
  BY ClosedStory DEF CommitTransaction
<1>2. CASE Journal(Transaction)
  <2>1. StoryInv' /\ Past' = Storage!Remember(Past, Committed) /\ Future' = << >>
    BY <1>1, <1>2, JournaledStory
  <2>2. Storage!CommitTransaction
    BY <1>1, <2>1 DEF Storage!CommitTransaction
  <2> QED
    BY <2>1, <2>2 DEF StorageStep, Storage!Next
<1>3. CASE /\ undoList' = undoList /\ redoList' = redoList
           /\ IsEmpty(Transaction) \/ ~isJournaling
  <2>1. /\ StoryInv'
        /\ \/ View = Committed /\ Past' = Past /\ Future' = Future
           \/ Past = << >> /\ Past' = Past /\ Future = << >> /\ Future' = Future
    BY <1>1, <1>3, UnjournaledStory
  <2>2. Storage!CommitTransaction
    BY <1>1, <2>1 DEF Storage!CommitTransaction
  <2> QED
    BY <2>1, <2>2 DEF StorageStep, Storage!Next
<1> QED
  BY <1>2, <1>3 DEF CommitTransaction

LEMMA SaveStory ==
  ASSUME IInv, IInv', Lines, JournalBounded, StoryInv, Save
  PROVE  StoryInv' /\ StorageStep
<1>1. /\ ClearLists /\ UNCHANGED indexHash /\ inTransaction' = FALSE
      /\ View' = View /\ Committed' = View
  BY ClosedStory DEF Save
<1>2. CASE Journal(Transaction) /\ inTransaction
  <2>1. StoryInv' /\ Past' = Storage!Remember(Past, Committed) /\ Future' = << >>
    BY <1>1, <1>2, JournaledStory
  <2>2. Storage!Save
    BY <1>1, <1>2, <2>1 DEF Storage!Save
  <2> QED
    BY <2>1, <2>2 DEF StorageStep, Storage!Next
<1>3. CASE /\ undoList' = undoList /\ redoList' = << >>
           /\ IsEmpty(Transaction) \/ ~isJournaling
  <2>1. /\ StoryInv' /\ Future' = << >>
        /\ \/ View = Committed /\ Past' = Past
           \/ Past = << >> /\ Past' = Past
    BY <1>1, <1>3, UnjournaledStory
  <2>2. Storage!Save
    BY <1>1, <2>1 DEF Storage!Save
  <2> QED
    BY <2>1, <2>2 DEF StorageStep, Storage!Next
<1>4. inTransaction \/ IsEmpty(Transaction)
  BY DEF IInv, ListsMatchStore
<1> QED
  BY <1>2, <1>3, <1>4 DEF Save

LEMMA NextStory ==
  ASSUME Malformed = {}, IInv, Lines, JournalBounded, StoryInv, [Next]_vars
  PROVE  StoryInv' /\ StorageStep
<1>1. IInv'
  BY NextIInv
<1>2. CASE BeginTransaction
  <2>1. /\ ~inTransaction /\ inTransaction'
        /\ UNCHANGED <<indexHash, createdObjects, changedAttributes, deletedObjects,
                       undoList, redoList>>
    BY <1>2 DEF BeginTransaction, lists, journal
  <2>2. Committed' = View
    BY <1>2, BeginCommits
  <2>3. View' = View /\ Past' = Past /\ Future' = Future /\ StoryInv'
    BY <2>1, SameStorage
  <2>4. Storage!BeginTransaction
    <3>1. inTransaction' = TRUE
      BY <1>2 DEF BeginTransaction
    <3> QED
      BY <2>1, <2>2, <2>3, <3>1 DEF Storage!BeginTransaction
  <2> QED
    BY <2>3, <2>4 DEF StorageStep, Storage!Next
<1>3. CASE \/ EnableJournaling \/ CloseObject \/ UNCHANGED vars
           \/ \E u \in Uuid : OpenObject(u)
  <2>1. UNCHANGED <<indexHash, createdObjects, changedAttributes, deletedObjects,
                    undoList, redoList, inTransaction>>
    BY <1>3 DEF EnableJournaling, CloseObject, OpenObject, vars, lists, journal, cursor
  <2> QED
    BY <2>1, StorageStutters
<1>4. ASSUME NEW u \in Uuid, CreateObject(u)
      PROVE  StoryInv' /\ StorageStep
  BY <1>1, <1>4, CreateStory DEF StorageStep, Storage!Next
<1>5. ASSUME NEW a \in ValueAttr, NEW v \in Value, SetAttributeValue(a, v)
      PROVE  StoryInv' /\ StorageStep
  BY <1>1, <1>5, SetAttributeStory
<1>6. ASSUME NEW a \in PointerAttr, NEW t \in Uuid \cup {Null}, SetPointerValue(a, t)
      PROVE  StoryInv' /\ StorageStep
  BY <1>1, <1>6, SetPointerStory
<1> QED
  BY <1>1, <1>2, <1>3, <1>4, <1>5, <1>6, DeleteStory, AbortStory, UndoStory, RedoStory,
     CommitStory, SaveStory, DisableJournalingStory DEF Next

(* ICoreStorage: with every value accepted, what a client of BinFile reads *)
(* is what a storage would give it that kept whole copies of the store for *)
(* abort, undo and redo; pickled change records stand for them all.        *)
THEOREM StorageIsImplemented == ASSUME Malformed = {} PROVE Spec => ImplementsCoreStorage
<1>1. Init => StoryInv /\ Storage!Init
  BY InitStory
<1>2. IInv /\ Lines /\ JournalBounded /\ StoryInv /\ [Next]_vars => StoryInv' /\ StorageStep
  BY NextStory
<1>3. IInv /\ Lines /\ [Next]_vars => IInv' /\ Lines'
  BY NextIInv, NextLines
<1>4. ImplementsCoreStorage <=> Storage!Init /\ [][StorageStep]_<<View, Committed, inTransaction, Past, Future>>
  BY PTL DEF ImplementsCoreStorage, Storage!Spec, Storage!vars, StorageStep
<1> QED
  BY <1>1, <1>2, <1>3, <1>4, InitIInv, InitLines, JournalIsBounded, PTL DEF Spec, StorageStep

================================================================================

------------------------------- MODULE CoreProject -----------------------------
(***************************************************************************)
(* Nested transactions over one storage (class CoreProject,                *)
(* Core/CoreProject.cpp), the objects clients hold (CoreObject) and the    *)
(* values their attributes keep in memory (Core/CoreAttribute.h).          *)
(*                                                                         *)
(* Each public call is one action; a call that is refused before anything  *)
(* is touched is a stutter and has no action.  The storage is taken at its *)
(* interface, as CoreStorage describes it: what it holds now and what it   *)
(* held when its transaction began.                                        *)
(*                                                                         *)
(* Left out: the metaobject of an object (all objects have the same        *)
(* attributes), how often a client references an object it holds, how      *)
(* often a uuid is in a back-pointer list, the order of the lists of a     *)
(* transaction: each entry takes back or writes its own attribute.         *)
(***************************************************************************)
EXTENDS Integers, SequencesExt

CONSTANTS
  Uuid,           \* identities of objects
  Root,           \* the root object
  Null,           \* Uuid::Null(), the pointer to nothing
  ValueAttr,      \* attributes holding plain values
  PointerAttr,    \* attributes holding a pointer with a back-pointer list
  DictionaryAttr, \* attributes holding a dictionary
  Value,          \* contents of plain attributes and of dictionary entries
  Zero,           \* what an attribute of a new object holds
  Malformed,      \* the strings storage refuses to set: not UTF-8
  Key,            \* keys of dictionaries; one that is absent reads as Zero
  MaxDepth,       \* bound of the model: transactions open at once
  MaxValues,      \* bound of the model: values an attribute keeps
  Habits          \* what clients do besides the calls that are always safe

Attr == ValueAttr \cup PointerAttr \cup DictionaryAttr
Cell == Uuid \X Attr

Content(a) ==
  IF a \in PointerAttr THEN Uuid \cup {Null}
  ELSE IF a \in DictionaryAttr THEN [Key -> Value] ELSE Value

Contents == Uuid \cup {Null} \cup Value \cup [Key -> Value]

Blank ==
  [a \in Attr |-> IF a \in PointerAttr THEN Null
                  ELSE IF a \in DictionaryAttr THEN [k \in Key |-> Zero] ELSE Zero]

(* deletes: deletes objects.  drops: gives up an object whose changes are  *)
(* not committed.  revives: goes on using an object whose creation was     *)
(* aborted.  guesses: asks for a uuid that storage may not have.  reaches: *)
(* points to an object that nobody holds.  repeats: changes a dictionary   *)
(* twice in a transaction.  leaves: closes the project in a transaction or *)
(* while it holds objects.  assigns: sets a back-pointer list.             *)
AllHabits ==
  {"deletes", "drops", "revives", "guesses", "reaches", "repeats", "leaves",
   "assigns"}

ASSUME ConstantsAssumption ==
  /\ Root \in Uuid
  /\ Null \notin Uuid
  /\ ValueAttr \cap PointerAttr = {}
  /\ DictionaryAttr \cap (ValueAttr \cup PointerAttr) = {}
  /\ Zero \in Value
  /\ Malformed \subseteq Value \ {Zero}
  /\ MaxDepth \in Nat \ {0}
  /\ MaxValues \in Nat \ {0}
  /\ Habits \subseteq AllHabits

VARIABLES
  store,            \* the objects in storage: uuid -> attribute -> content
  base,             \* the store when the storage transaction began
  usedUuids,        \* uuids handed out so far: a new Uuid is never one of them
  objectHash,       \* _objectHash: uuid -> attribute -> _values, oldest first
  collections,      \* uuid -> back-pointer list in memory, << >> if not loaded
  transactionList,  \* _transactionList, the innermost transaction last
  fault             \* "none", how the process died, or that the project is closed

vars ==
  <<store, base, usedUuids, objectHash, collections, transactionList, fault>>

--------------------------------------------------------------------------------
(* Transactions.                                                           *)

(* The list of changed attributes is a count for each attribute.  The list *)
(* holds pointers to attributes: dangling says that one of them is gone.   *)
Transaction ==
  [readOnly : BOOLEAN, created : SUBSET Uuid, changes : [Cell -> Nat],
   deleted : SUBSET Uuid, dangling : BOOLEAN]

NewTransaction(ro) ==
  [readOnly |-> ro, created |-> {}, changes |-> [k \in Cell |-> 0],
   deleted |-> {}, dangling |-> FALSE]

InTransaction == transactionList # << >>
Current == Last(transactionList)
InWriteTransaction == InTransaction /\ ~Current.readOnly

(* The list with its innermost transaction replaced by t.                  *)
WithCurrent(t) == [transactionList EXCEPT ![Len(transactionList)] = t]

Alive == fault = "none"

TypeOK ==
  /\ DOMAIN store \subseteq Uuid
  /\ store \in [DOMAIN store -> [Attr -> Contents]]
  /\ DOMAIN base \subseteq Uuid
  /\ base \in [DOMAIN base -> [Attr -> Contents]]
  /\ usedUuids \subseteq Uuid
  /\ DOMAIN objectHash \subseteq Uuid
  /\ \A u \in DOMAIN objectHash : objectHash[u] \in [Attr -> Seq(Contents)]
  /\ DOMAIN collections = DOMAIN objectHash
  /\ \A u \in DOMAIN collections :
       collections[u] \in [PointerAttr -> Seq(SUBSET Uuid)]
  /\ transactionList \in Seq(Transaction)
  /\ fault \in {"none", "assert", "freed", "crash", "closed"}

Init ==
  /\ store = [u \in {Root} |-> Blank]
  /\ base = store
  /\ usedUuids = {Root}
  /\ objectHash = [u \in {} |-> Blank]
  /\ collections = [u \in {} |-> Blank]
  /\ transactionList = << >>
  /\ fault = "none"

(* The process dies: nothing that is left matters.                         *)
Dies(how) ==
  /\ fault' = how
  /\ UNCHANGED <<store, base, usedUuids, objectHash, collections, transactionList>>

--------------------------------------------------------------------------------
(* BeginTransaction.  Storage has one transaction for all of them: it      *)
(* refuses the later calls, and the refusal is ignored.                    *)

(* Mutant: a transaction that writes may be nested in one that does not.   *)
MayBeginAnything(readOnly) == readOnly \in BOOLEAN

MayBegin(readOnly) == InTransaction /\ Current.readOnly => readOnly

Begin(readOnly) ==
  /\ Alive
  /\ Len(transactionList) < MaxDepth
  /\ MayBegin(readOnly)
  /\ transactionList' = Append(transactionList, NewTransaction(readOnly))
  /\ base' = IF InTransaction THEN base ELSE store
  /\ UNCHANGED <<store, usedUuids, objectHash, collections, fault>>

BeginTransaction == \E readOnly \in BOOLEAN : Begin(readOnly)

--------------------------------------------------------------------------------
(* CommitTransaction.                                                      *)

(* Inside another transaction: the lists go to the one around it.          *)
(* Mutant: the list of changed attributes is forgotten. *)
MergedNoChanges(outer, inner) ==
  [outer EXCEPT !.created = @ \cup inner.created,
                !.deleted = @ \cup inner.deleted]

Merged(outer, inner) ==
  [outer EXCEPT !.created = @ \cup inner.created,
                !.deleted = @ \cup inner.deleted,
                !.changes = [k \in Cell |-> @[k] + inner.changes[k]],
                !.dangling = @ \/ inner.dangling]

CommitNested ==
  /\ Alive
  /\ Len(transactionList) > 1
  /\ LET around == Front(transactionList)
     IN  transactionList' =
           [around EXCEPT ![Len(around)] = Merged(@, Current)]
  /\ UNCHANGED <<store, base, usedUuids, objectHash, collections, fault>>

(* The last values of the attributes that the outermost transaction lists, *)
(* those that have more than the value they were loaded with.              *)
Written == {k \in Cell : Current.changes[k] > 0 /\ Len(objectHash[k[1]][k[2]]) > 1}
LastValue(k) == Last(objectHash[k[1]][k[2]])

(* What storage answers with an error, which is ignored: the value stays   *)
(* in memory and is not written.                                           *)
Refused(k) ==
  \/ k[2] \in ValueAttr /\ LastValue(k) \in Malformed
  \/ k[2] \in PointerAttr /\ LastValue(k) \notin DOMAIN store \cup {Null}

(* Assertions: the object of an attribute is in storage; a dictionary      *)
(* still has changes when its entry is reached (the first entry writes     *)
(* them all); a deleted object can be opened in storage.                   *)
CommitAsserts ==
  \/ \E k \in Written : k[1] \notin DOMAIN store
  \/ \E k \in Written : k[2] \in DictionaryAttr /\ Current.changes[k] > 1
  \/ ~(Current.deleted \subseteq DOMAIN store)

(* Storage takes the back-pointer from an object that is gone.             *)
CommitCrashes ==
  \E k \in Written :
    /\ k[1] \in DOMAIN store
    /\ k[2] \in PointerAttr
    /\ ~Refused(k)
    /\ store[k[1]][k[2]] \notin DOMAIN store \cup {Null}

CommitFault ==
  IF Current.dangling THEN "freed"
  ELSE IF CommitCrashes THEN "crash"
  ELSE IF CommitAsserts THEN "assert" ELSE "none"

(* Mutant: the values that are older than the one written are kept. *)
KeptValues(a_values) == a_values

Condensed(a_values) == <<Last(a_values)>>

CommitFinal ==
  /\ Alive
  /\ Len(transactionList) = 1
  /\ CommitFault = "none"
  /\ LET done == {k \in Written : ~Refused(k)}
     IN  /\ store' = [u \in DOMAIN store \ Current.deleted |->
                        [a \in Attr |-> IF <<u, a>> \in done THEN LastValue(<<u, a>>)
                                        ELSE store[u][a]]]
         /\ objectHash' = [u \in DOMAIN objectHash |->
                             [a \in Attr |-> IF <<u, a>> \in done
                                             THEN Condensed(objectHash[u][a])
                                             ELSE objectHash[u][a]]]
  /\ base' = store'
  /\ transactionList' = << >>
  /\ UNCHANGED <<usedUuids, collections, fault>>

CommitDies ==
  /\ Alive
  /\ Len(transactionList) = 1
  /\ CommitFault # "none"
  /\ Dies(CommitFault)

--------------------------------------------------------------------------------
(* AbortTransaction: each entry takes one value from its attribute, and    *)
(* the objects created are deleted from storage.  Objects deleted are not  *)
(* put back by an inner abort.                                             *)

(* Mutant: an attribute that changed twice gets one value back. *)
RevertedOnce(a_values, count) ==
  IF count > 0 THEN Front(a_values) ELSE a_values

(* Mutant: the attribute goes back to the value that was loaded. *)
RevertedToLoaded(a_values, count) ==
  IF count > 0 THEN <<Head(a_values)>> ELSE a_values

Reverted(a_values, count) == SubSeq(a_values, 1, Len(a_values) - count)

AbortFault ==
  IF Current.dangling THEN "freed"
  ELSE IF \/ ~(Current.created \subseteq DOMAIN store)
          \/ \E k \in Cell : /\ Current.changes[k] > 0
                             /\ Len(objectHash[k[1]][k[2]]) <= Current.changes[k]
  THEN "assert" ELSE "none"

(* Mutant: what an inner transaction created stays in storage. *)
AbortKeepsCreated ==
  IF Len(transactionList) = 1 THEN base ELSE store

StoreAfterAbort ==
  IF Len(transactionList) = 1 THEN base
  ELSE Restrict(store, DOMAIN store \ Current.created)

AbortTransaction ==
  /\ Alive
  /\ InTransaction
  /\ AbortFault = "none"
  /\ objectHash' = [u \in DOMAIN objectHash |->
                      [a \in Attr |-> Reverted(objectHash[u][a],
                                               Current.changes[<<u, a>>])]]
  /\ store' = StoreAfterAbort
  /\ transactionList' = Front(transactionList)
  /\ UNCHANGED <<base, usedUuids, collections, fault>>

AbortDies ==
  /\ Alive
  /\ InTransaction
  /\ AbortFault # "none"
  /\ Dies(AbortFault)

--------------------------------------------------------------------------------
(* Objects: Object and RootObject, CreateObject, DeleteObject, and the end *)
(* of the last CoreObject that refers to an object (CoreObject::Release).  *)

NotLoaded == [a \in Attr |-> << >>]
(* Mutant: an object is made without its back-pointer lists. *)
MissingCollections == [a \in {} |-> << >>]

NoCollections == [a \in PointerAttr |-> << >>]

With(f, u, x) == [v \in DOMAIN f \cup {u} |-> IF v = u THEN x ELSE f[v]]

Held == DOMAIN objectHash

(* An object that is not in storage is an assertion, not an error.         *)
Fetch(u) ==
  /\ Alive
  /\ InTransaction
  /\ IF u \in DOMAIN store
     THEN /\ objectHash' = With(objectHash, u, NotLoaded)
          /\ collections' = With(collections, u, NoCollections)
          /\ UNCHANGED <<store, base, usedUuids, transactionList, fault>>
     ELSE Dies("assert")

Object ==
  \E u \in Uuid \ Held :
    /\ u \in DOMAIN store \/ "guesses" \in Habits
    /\ Fetch(u)

Create(u) ==
  /\ Alive
  /\ InWriteTransaction
  /\ usedUuids' = usedUuids \cup {u}
  /\ store' = With(store, u, Blank)
  /\ objectHash' = With(objectHash, u, NotLoaded)
  /\ collections' = With(collections, u, NoCollections)
  /\ transactionList' = WithCurrent([Current EXCEPT !.created = @ \cup {u}])
  /\ UNCHANGED <<base, fault>>

CreateObject == \E u \in Uuid \ usedUuids : Create(u)

(* An object in use is locked.  Storage deletes at once.                   *)
DeleteObject ==
  /\ "deletes" \in Habits
  /\ Alive
  /\ InWriteTransaction
  /\ \E u \in DOMAIN store \ (Held \cup {Root}) :
       /\ store' = Restrict(store, DOMAIN store \ {u})
       /\ transactionList' =
            WithCurrent([Current EXCEPT !.deleted = @ \cup {u}])
  /\ UNCHANGED <<base, usedUuids, objectHash, collections, fault>>

(* Entries of an object that goes are left in the lists.                   *)
Listed(t, u) == \E a \in Attr : t.changes[<<u, a>>] > 0

WithoutEntries(t, u) ==
  [t EXCEPT !.changes = [k \in Cell |-> IF k[1] = u THEN 0 ELSE @[k]],
            !.dangling = @ \/ Listed(t, u)]

GiveUp(u) ==
  /\ Alive
  /\ objectHash' = Restrict(objectHash, Held \ {u})
  /\ collections' = Restrict(collections, Held \ {u})
  /\ transactionList' =
       [i \in DOMAIN transactionList |-> WithoutEntries(transactionList[i], u)]
  /\ UNCHANGED <<store, base, usedUuids, fault>>

MayGiveUp(u) ==
  \/ "drops" \in Habits
  \/ \A i \in DOMAIN transactionList : ~Listed(transactionList[i], u)

Release == \E u \in Held : MayGiveUp(u) /\ GiveUp(u)

--------------------------------------------------------------------------------
(* Attributes.  A value is loaded from storage when it is first needed.    *)

Loadable(u) == u \in DOMAIN store

Loaded(u, a) ==
  IF objectHash[u][a] = << >> THEN <<store[u][a]>> ELSE objectHash[u][a]

StoredCollection(t, a) == {s \in DOMAIN store : store[s][a] = t}

LoadedCollection(t, a) ==
  IF collections[t][a] = << >> THEN StoredCollection(t, a) ELSE Last(collections[t][a])

(* The client keeps away from objects whose creation was aborted.          *)
MayUse(u) == u \in Held /\ (u \in DOMAIN store \/ "revives" \in Habits)

Get(u, a) ==
  /\ Alive
  /\ InWriteTransaction
  /\ MayUse(u)
  /\ objectHash[u][a] = << >>
  /\ IF Loadable(u)
     THEN /\ objectHash' = [objectHash EXCEPT ![u][a] = Loaded(u, a)]
          /\ UNCHANGED <<store, base, usedUuids, collections, transactionList, fault>>
     ELSE Dies("assert")

GetAttributeValue == \E u \in Uuid, a \in Attr : Get(u, a)

GetCollection(u, a) ==
  /\ Alive
  /\ InWriteTransaction
  /\ MayUse(u)
  /\ collections[u][a] = << >>
  /\ IF Loadable(u)
     THEN /\ collections' = [collections EXCEPT ![u][a] = <<StoredCollection(u, a)>>]
          /\ UNCHANGED <<store, base, usedUuids, objectHash, transactionList, fault>>
     ELSE Dies("assert")

GetCollectionValue == \E u \in Uuid, a \in PointerAttr : GetCollection(u, a)

(* ResolveBackpointer(attrID, new, old): the object pointed to is fetched  *)
(* and let go before its collection is used.  It is the old value that is  *)
(* taken out of the old object's collection, and the new value that is put *)
(* into the new one's, and neither change is listed in the transaction.    *)
Unusable(t, a) == t # Null /\ t \notin DOMAIN store /\ (t \notin Held \/ collections[t][a] = << >>)

ResolveFault(a, new, old) ==
  IF Unusable(old, a) \/ Unusable(new, a) THEN "assert"
  ELSE IF new # Null /\ new \notin Held THEN "freed" ELSE "none"

Resolved(a, new, old) ==
  [u \in Held |->
     [collections[u] EXCEPT
        ![a] = IF u = new THEN <<LoadedCollection(u, a) \cup {new}>>
               ELSE IF u = old THEN <<LoadedCollection(u, a) \ {old}>> ELSE @]]

(* How a SetAttributeValue that changes the value goes wrong.              *)
SetFault(u, a, new) ==
  IF objectHash[u][a] = << >> /\ ~Loadable(u) THEN "assert"
  ELSE LET old == Last(Loaded(u, a))
       IN  IF a \in PointerAttr /\ new # old THEN ResolveFault(a, new, old) ELSE "none"

(* The calls a client makes.  A dictionary is set one key at a time, and   *)
(* unlike other attributes is listed even when nothing changes.            *)
MaySet(u, a, new) ==
  /\ MayUse(u)
  /\ Len(objectHash[u][a]) < MaxValues
  /\ a \in PointerAttr =>
       \/ new = Null
       \/ MayUse(new)
       \/ "reaches" \in Habits /\ new \in DOMAIN store
  /\ a \in DictionaryAttr => Len(objectHash[u][a]) <= 1 \/ "repeats" \in Habits

OneKey(old, new) == \E k \in Key, v \in Value : new = [old EXCEPT ![k] = v]

Changes(a, new, old) == a \in DictionaryAttr \/ new # old

Pushed(u, a, new) ==
  /\ objectHash' = [objectHash EXCEPT ![u][a] = Append(Loaded(u, a), new)]
  /\ transactionList' = WithCurrent([Current EXCEPT !.changes[<<u, a>>] = @ + 1])
  /\ collections' = IF a \in PointerAttr
                    THEN Resolved(a, new, Last(Loaded(u, a))) ELSE collections
  /\ UNCHANGED <<store, base, usedUuids, fault>>

Set(u, a, new) ==
  /\ Alive
  /\ InWriteTransaction
  /\ new \in Content(a)
  /\ MaySet(u, a, new)
  /\ IF SetFault(u, a, new) # "none" THEN Dies(SetFault(u, a, new))
     ELSE LET old == Last(Loaded(u, a))
          IN  /\ a \in DictionaryAttr => OneKey(old, new)
              /\ Changes(a, new, old)
              /\ Pushed(u, a, new)

SetAttributeValue == \E u \in Uuid, a \in Attr, new \in Contents : Set(u, a, new)

(* A collection takes what it is given, in no transaction and in no list.  *)
SetCollectionValue ==
  /\ "assigns" \in Habits
  /\ Alive
  /\ \E u \in Held, a \in PointerAttr, S \in SUBSET Uuid :
       collections' = [collections EXCEPT ![u][a] = <<S>>]
  /\ UNCHANGED <<store, base, usedUuids, objectHash, transactionList, fault>>

(* ~CoreProject: an open transaction is an assertion; an object that is    *)
(* still held unregisters from the project when it goes, later.            *)
Destroy ==
  /\ Alive
  /\ Dies(IF InTransaction THEN "assert" ELSE IF Held # {} THEN "freed" ELSE "closed")

Close ==
  /\ "leaves" \in Habits \/ (~InTransaction /\ Held = {})
  /\ Destroy

Next ==
  \/ BeginTransaction
  \/ CommitNested
  \/ CommitFinal
  \/ CommitDies
  \/ AbortTransaction
  \/ AbortDies
  \/ Object
  \/ CreateObject
  \/ DeleteObject
  \/ Release
  \/ GetAttributeValue
  \/ GetCollectionValue
  \/ SetAttributeValue
  \/ SetCollectionValue
  \/ Close

Spec == Init /\ [][Next]_vars

--------------------------------------------------------------------------------
(* What a transaction at a given depth holds.                              *)

(* How many values of an attribute belong to transactions deeper than i.   *)
Counts(list, k) == [j \in DOMAIN list |-> list[j].changes[k]]
DeeperIn(list, i, k) == SumFunctionOnSet(Counts(list, k), i + 1 .. Len(list))

Deeper(i, k) == DeeperIn(transactionList, i, k)

CreatedDeeper(i) ==
  UNION {transactionList[j].created : j \in i + 1 .. Len(transactionList)}

ValueAt(i, u, a) ==
  IF u \notin Held \/ objectHash[u][a] = << >> THEN store[u][a]
  ELSE objectHash[u][a][Len(objectHash[u][a]) - Deeper(i, <<u, a>>)]

StoreAt(i) ==
  [u \in DOMAIN store \ CreatedDeeper(i) |-> [a \in Attr |-> ValueAt(i, u, a)]]

Depth == Len(transactionList)
Visible == StoreAt(Depth)

--------------------------------------------------------------------------------
(* Properties.                                                             *)

(* The project holds what nested transactions should: level i is what a    *)
(* client would read if all the transactions deeper than i were aborted.   *)
Nested == INSTANCE NestedTransactions WITH
  levels <- [i \in 1 .. Depth + 1 |-> StoreAt(i - 1)]

(* CoreProject.cpp:206-311: begin, commit and abort at any depth, over one *)
(* storage transaction and one stack of values for each attribute, do what *)
(* copies of the whole project would do.                                   *)
ImplementsNestedTransactions == Nested!Spec

(* CoreProject.cpp:234-272, CoreAttribute.h:178-213: a client that keeps   *)
(* to the calls that are always safe meets no failing assertion and no     *)
(* pointer to something that is gone.                                      *)
NeverDies == fault \in {"none", "closed"}

(* CoreAttribute.h:205: there is always a value to go back to.  Every      *)
(* entry of a list of changes takes one value from its attribute on abort, *)
(* and the value that was loaded is never taken.                           *)
EntriesHaveValues ==
  Alive => \A u \in Held, a \in Attr :
             Deeper(0, <<u, a>>) > 0 => Len(objectHash[u][a]) > Deeper(0, <<u, a>>)

(* CoreAttribute.h:133: the first value an attribute keeps is the one that *)
(* storage has, however many transactions came and went since it was read. *)
LoadedIsStored ==
  Alive => \A u \in Held \cap DOMAIN store, a \in Attr :
             objectHash[u][a] # << >> => objectHash[u][a][1] = store[u][a]

(* CoreProject.cpp:248: values reach storage at the outermost commit only, *)
(* and a new object in storage is in the list of an open transaction, so   *)
(* an abort at any depth knows all it has to take back.                    *)
StorageWaits ==
  Alive /\ InTransaction =>
    \A u \in DOMAIN store :
      \/ u \in DOMAIN base /\ store[u] = base[u]
      \/ u \in CreatedDeeper(0) /\ store[u] = Blank

(* CoreProject.cpp:210: nothing is created, changed or deleted inside a    *)
(* read-only transaction, nor in a transaction nested in it.               *)
ReadOnlyHasNoChanges ==
  \A i, j \in DOMAIN transactionList :
    transactionList[i].readOnly /\ i <= j =>
      transactionList[j] = NewTransaction(TRUE)

(* CoreAttribute.cpp:86: a pointer that a client reads leads to an object  *)
(* that is there, also after aborts that took objects away.                *)
PointersResolve ==
  Alive => \A u \in DOMAIN Visible, a \in PointerAttr :
             Visible[u][a] \in DOMAIN Visible \cup {Null}

(* CoreAttribute.cpp:106: the back-pointer list of an object in use names  *)
(* the objects that point to it.                                           *)
CollectionsMatchPointers ==
  Alive => \A u \in Held, a \in PointerAttr :
             collections[u][a] # << >> =>
               Last(collections[u][a]) = {s \in DOMAIN Visible : Visible[s][a] = u}

================================================================================

----------------------------- MODULE CoreSafeProofs ----------------------------
(***************************************************************************)
(* Proofs about CoreProject for a client that keeps to the calls that are  *)
(* always safe: such a project never dies, pointers resolve at every depth *)
(* of nesting, and the transactions do what copies of the project would.   *)
(***************************************************************************)
EXTENDS CoreNestedProofs

--------------------------------------------------------------------------------
(* A client that keeps to the calls that are always safe: what the lists   *)
(* of transactions say of storage.                                         *)

SafeClient == Habits \subseteq {"assigns"}

(* The objects of level i.                                                 *)
ObjectsAt(i) == DOMAIN store \ CreatedDeeper(i)

(* Nothing is deleted, no attribute in a list is gone, and what a          *)
(* transaction created is there.                                           *)
TransactionsAreSafe ==
  \A i \in DOMAIN transactionList :
    /\ transactionList[i].deleted = {}
    /\ ~transactionList[i].dangling
    /\ transactionList[i].created \subseteq DOMAIN store

CreatedOnce ==
  \A i, j \in DOMAIN transactionList :
    i # j => transactionList[i].created \cap transactionList[j].created = {}

(* An entry is about an object that exists at the level of its             *)
(* transaction.                                                            *)
EntriesAreStored ==
  \A i \in DOMAIN transactionList, u \in Uuid, a \in Attr :
    transactionList[i].changes[<<u, a>>] > 0 => u \in ObjectsAt(i)

ListsAreSafe ==
  /\ TransactionsAreSafe
  /\ CreatedOnce
  /\ DOMAIN base \subseteq DOMAIN store
  /\ EntriesAreStored

LEMMA SameLists ==
  ASSUME ListsAreSafe, UNCHANGED <<transactionList, base, store>>
  PROVE  ListsAreSafe'
BY DEF ListsAreSafe, TransactionsAreSafe, CreatedOnce, EntriesAreStored, ObjectsAt,
       CreatedDeeper

LEMMA ListDomain ==
  ASSUME TypeOK
  PROVE  /\ Depth \in Nat /\ Depth = Len(transactionList)
         /\ DOMAIN transactionList = 1 .. Depth
         /\ \A i \in 1 .. Depth : transactionList[i] \in Transaction
BY DEF TypeOK, Depth

LEMMA BeginLists ==
  ASSUME TInv, TypeOK', ListsAreSafe, StoreInv, BeginTransaction
  PROVE  ListsAreSafe'
<1>1. /\ UNCHANGED store
      /\ DOMAIN base' \subseteq DOMAIN store
  BY DEF BeginTransaction, Begin, StoreInv, ListsAreSafe
<1>2. /\ Depth \in Nat /\ Depth' = Depth + 1
      /\ DOMAIN transactionList = 1 .. Depth /\ DOMAIN transactionList' = 1 .. Depth + 1
      /\ \A i \in 1 .. Depth : transactionList'[i] = transactionList[i]
      /\ \A i \in 0 .. Depth : CreatedDeeper(i)' = CreatedDeeper(i)
  BY BeginLevels, ListDomain DEF TInv, TypeOK, Depth
<1>3. PICK ro \in BOOLEAN : transactionList'[Depth + 1] = NewTransaction(ro)
  BY BeginLevels DEF TInv
<1>4. ASSUME NEW i \in 1 .. Depth + 1
      PROVE  \/ i \in 1 .. Depth
             \/ i = Depth + 1 /\ transactionList'[i] = NewTransaction(ro)
  BY <1>2, <1>3
<1>5. TransactionsAreSafe'
  BY <1>1, <1>2, <1>4 DEF ListsAreSafe, TransactionsAreSafe, NewTransaction
<1>6. CreatedOnce'
  BY <1>2, <1>4 DEF ListsAreSafe, CreatedOnce, NewTransaction
<1>7. EntriesAreStored'
  <2> SUFFICES ASSUME NEW i \in 1 .. Depth + 1, NEW u \in Uuid, NEW a \in Attr,
                      transactionList'[i].changes[<<u, a>>] > 0
               PROVE  u \in ObjectsAt(i)'
    BY <1>2 DEF EntriesAreStored
  <2>1. <<u, a>> \in Cell
    BY DEF Cell
  <2>2. i \in 1 .. Depth
    BY <1>4, <2>1 DEF NewTransaction
  <2>3. transactionList[i].changes[<<u, a>>] > 0 /\ i \in DOMAIN transactionList
    BY <1>2, <2>2
  <2>4. CreatedDeeper(i)' = CreatedDeeper(i)
    BY <1>2, <2>2
  <2>5. u \in DOMAIN store /\ u \notin CreatedDeeper(i)
    BY <2>3 DEF ListsAreSafe, EntriesAreStored, ObjectsAt
  <2> QED
    BY <1>1, <2>4, <2>5 DEF ObjectsAt
<1> QED
  BY <1>1, <1>5, <1>6, <1>7 DEF ListsAreSafe

LEMMA CommitNestedLists ==
  ASSUME TInv, TypeOK', ListsAreSafe, CommitNested
  PROVE  ListsAreSafe'
<1>1. UNCHANGED <<base, store>>
  BY DEF CommitNested
<1> DEFINE n == Depth
           outer == transactionList[n - 1]
           inner == transactionList[n]
<1>2. /\ n \in Nat /\ n > 1
      /\ DOMAIN transactionList = 1 .. n /\ DOMAIN transactionList' = 1 .. n - 1
      /\ transactionList'[n - 1] = Merged(outer, inner)
      /\ \A i \in 1 .. n - 2 : transactionList'[i] = transactionList[i]
      /\ outer \in Transaction /\ inner \in Transaction
  <2>1. n \in Nat /\ n > 1 /\ DOMAIN transactionList = 1 .. n
        /\ \A i \in 1 .. n : transactionList[i] \in Transaction
    BY CommitNestedLevels, ListDomain DEF TInv
  <2> QED
    BY <2>1, CommitNestedMerges DEF TInv
<1>3. /\ Merged(outer, inner).created = outer.created \cup inner.created
      /\ Merged(outer, inner).deleted = outer.deleted \cup inner.deleted
      /\ Merged(outer, inner).dangling = (outer.dangling \/ inner.dangling)
      /\ \A k \in Cell : Merged(outer, inner).changes[k] = outer.changes[k] + inner.changes[k]
  BY <1>2, MergedIsTransaction, MergedHas
<1>4. ASSUME NEW i \in 1 .. n - 1
      PROVE  \/ i \in 1 .. n - 2 /\ transactionList'[i] = transactionList[i]
             \/ i = n - 1 /\ transactionList'[i] = Merged(outer, inner)
  BY <1>2
<1>5. n - 1 \in DOMAIN transactionList /\ n \in DOMAIN transactionList
      /\ \A i \in 1 .. n - 2 : i \in DOMAIN transactionList /\ i # n /\ i # n - 1
  BY <1>2
<1>6. TransactionsAreSafe'
  <2> SUFFICES ASSUME NEW i \in 1 .. n - 1
               PROVE  /\ transactionList'[i].deleted = {}
                      /\ ~transactionList'[i].dangling
                      /\ transactionList'[i].created \subseteq DOMAIN store
    BY <1>1, <1>2 DEF TransactionsAreSafe
  <2>1. CASE i \in 1 .. n - 2 /\ transactionList'[i] = transactionList[i]
    BY <1>5, <2>1 DEF ListsAreSafe, TransactionsAreSafe
  <2>2. CASE i = n - 1 /\ transactionList'[i] = Merged(outer, inner)
    <3>1. /\ outer.deleted = {} /\ ~outer.dangling /\ outer.created \subseteq DOMAIN store
          /\ inner.deleted = {} /\ ~inner.dangling /\ inner.created \subseteq DOMAIN store
      BY <1>5 DEF ListsAreSafe, TransactionsAreSafe
    <3> HIDE DEF outer, inner
    <3>2. /\ Merged(outer, inner).deleted = {}
          /\ Merged(outer, inner).created \subseteq DOMAIN store
      BY <1>3, <3>1
    <3>3. ~Merged(outer, inner).dangling
      BY <1>3, <3>1, Zenon
    <3> QED
      BY <2>2, <3>2, <3>3
  <2> QED
    BY <1>4, <2>1, <2>2
<1>7. CreatedOnce'
  <2> SUFFICES ASSUME NEW i \in 1 .. n - 1, NEW j \in 1 .. n - 1, i # j
               PROVE  transactionList'[i].created \cap transactionList'[j].created = {}
    BY <1>2 DEF CreatedOnce
  <2> DEFINE c(l) == transactionList[l].created
             d(l) == transactionList'[l].created
  <2>1. /\ \A l \in 1 .. n - 2 : d(l) = c(l)
        /\ d(n - 1) = c(n - 1) \cup c(n)
    BY <1>2, <1>3
  <2>2. \A l, m \in 1 .. n : l # m => c(l) \cap c(m) = {}
    BY <1>2 DEF ListsAreSafe, CreatedOnce
  <2> HIDE DEF c, d
  <2>3. d(i) \cap d(j) = {}
    <3>1. CASE i \in 1 .. n - 2 /\ j \in 1 .. n - 2
      <4>1. i \in 1 .. n /\ j \in 1 .. n
        BY <1>2
      <4> QED
        BY <2>1, <2>2, <3>1, <4>1
    <3>2. CASE i = n - 1 /\ j \in 1 .. n - 2
      <4>1. c(n - 1) \cap c(j) = {} /\ c(n) \cap c(j) = {}
        BY <1>2, <2>2, <3>2
      <4>2. d(i) = c(n - 1) \cup c(n) /\ d(j) = c(j)
        BY <2>1, <3>2
      <4> QED
        BY <4>1, <4>2
    <3>3. CASE i \in 1 .. n - 2 /\ j = n - 1
      <4>1. c(i) \cap c(n - 1) = {} /\ c(i) \cap c(n) = {}
        BY <1>2, <2>2, <3>3
      <4>2. d(j) = c(n - 1) \cup c(n) /\ d(i) = c(i)
        BY <2>1, <3>3
      <4> QED
        BY <4>1, <4>2
    <3> QED
      BY <1>4, <3>1, <3>2, <3>3
  <2> QED
    BY <2>3 DEF d
<1>8. EntriesAreStored'
  <2> SUFFICES ASSUME NEW i \in 1 .. n - 1, NEW u \in Uuid, NEW a \in Attr,
                      transactionList'[i].changes[<<u, a>>] > 0
               PROVE  u \in ObjectsAt(i)'
    BY <1>2 DEF EntriesAreStored
  <2>1. CASE i \in 1 .. n - 2 /\ transactionList'[i] = transactionList[i]
    <3>1. CreatedDeeper(i)' = CreatedDeeper(i)
      <4>1. i \in 0 .. n - 2
        BY <2>1
      <4> QED
        BY <4>1, CommitNestedLevels DEF TInv
    <3>2. u \in ObjectsAt(i)
      BY <1>5, <2>1 DEF ListsAreSafe, EntriesAreStored
    <3> QED
      BY <1>1, <3>1, <3>2 DEF ObjectsAt
  <2>2. CASE i = n - 1 /\ transactionList'[i] = Merged(outer, inner)
    <3>1. outer.changes[<<u, a>>] > 0 \/ inner.changes[<<u, a>>] > 0
      <4>1. outer.changes[<<u, a>>] \in Nat /\ inner.changes[<<u, a>>] \in Nat /\ <<u, a>> \in Cell
        BY <1>2, ChangesAreCounts DEF Cell
      <4>2. outer.changes[<<u, a>>] + inner.changes[<<u, a>>] > 0
        <5> HIDE DEF outer, inner
        <5> QED
          BY <1>3, <2>2, <4>1
      <4> QED
        BY <4>1, <4>2
    <3>2. u \in DOMAIN store
      BY <1>5, <3>1 DEF ListsAreSafe, EntriesAreStored, ObjectsAt
    <3>3. CreatedDeeper(i)' = {}
      <4>1. Len(transactionList') = n - 1
        BY CommitNestedLevels DEF TInv, Depth
      <4> QED
        BY <1>2, <2>2, <4>1 DEF CreatedDeeper
    <3> QED
      BY <1>1, <3>2, <3>3 DEF ObjectsAt
  <2> QED
    BY <1>4, <2>1, <2>2
<1> QED
  BY <1>1, <1>6, <1>7, <1>8 DEF ListsAreSafe

LEMMA CommitFinalLists ==
  ASSUME CommitFinal
  PROVE  ListsAreSafe'
<1>1. transactionList' = << >> /\ base' = store' /\ DOMAIN transactionList' = {}
  BY DEF CommitFinal
<1> QED
  BY <1>1 DEF ListsAreSafe, TransactionsAreSafe, CreatedOnce, EntriesAreStored

LEMMA AbortLists ==
  ASSUME TInv, TypeOK', ListsAreSafe, StoreInv, AbortTransaction
  PROVE  ListsAreSafe'
<1>1. UNCHANGED base
  BY DEF AbortTransaction
<1>2. /\ Depth \in Nat \ {0}
      /\ DOMAIN transactionList = 1 .. Depth /\ DOMAIN transactionList' = 1 .. Depth - 1
      /\ \A i \in 1 .. Depth - 1 :
           i \in 1 .. Depth /\ i # Depth /\ transactionList'[i] = transactionList[i]
      /\ Current = transactionList[Depth] /\ Depth \in 1 .. Depth
  BY AbortShortens, ListDomain, CurrentIsTransaction DEF TInv, AbortTransaction
<1>3. CreatedOnce'
  BY <1>2 DEF ListsAreSafe, CreatedOnce
<1>4. CASE Depth = 1
  <2>1. store' = base
    BY <1>4 DEF AbortTransaction, StoreAfterAbort, Depth
  <2>2. DOMAIN transactionList' = {}
    BY <1>2, <1>4
  <2> QED
    BY <1>1, <1>3, <2>1, <2>2 DEF ListsAreSafe, TransactionsAreSafe, EntriesAreStored
<1>5. CASE Depth # 1
  <2>1. DOMAIN store' = DOMAIN store \ Current.created
    BY <1>5 DEF AbortTransaction, StoreAfterAbort, Depth, Restrict
  <2>2. \A i \in 1 .. Depth - 1 : transactionList[i].created \cap Current.created = {}
    BY <1>2 DEF ListsAreSafe, CreatedOnce
  <2>3. TransactionsAreSafe'
    BY <1>2, <2>1, <2>2 DEF ListsAreSafe, TransactionsAreSafe
  <2>4. DOMAIN base \subseteq DOMAIN store'
    <3>1. ASSUME NEW u \in DOMAIN base
          PROVE  u \notin Current.created
      <4>1. u \in Current.created => HasCreated(transactionList, u)
        BY <1>2 DEF HasCreated
      <4>2. u \in Uuid
        BY DEF TInv, TypeOK
      <4> QED
        BY <4>1, <4>2 DEF StoreInv, CreatedAreNew
    <3> QED
      BY <2>1, <3>1 DEF ListsAreSafe
  <2>5. EntriesAreStored'
    <3> SUFFICES ASSUME NEW i \in 1 .. Depth - 1, NEW u \in Uuid, NEW a \in Attr,
                        transactionList'[i].changes[<<u, a>>] > 0
                 PROVE  u \in ObjectsAt(i)'
      BY <1>2 DEF EntriesAreStored
    <3>1. u \in ObjectsAt(i)
      BY <1>2 DEF ListsAreSafe, EntriesAreStored
    <3>2. CreatedDeeper(i) = CreatedDeeper(i)' \cup Current.created
      <4>1. i \in 0 .. Depth - 1
        BY <1>2
      <4> QED
        BY <4>1, AbortLevels DEF TInv
    <3> QED
      BY <2>1, <3>1, <3>2 DEF ObjectsAt
  <2> QED
    BY <1>1, <1>3, <2>3, <2>4, <2>5 DEF ListsAreSafe
<1> QED
  BY <1>4, <1>5

(* A call that changes the innermost transaction in a safe way, and        *)
(* storage by new objects only.                                            *)
LEMMA WithCurrentLists ==
  ASSUME TInv, TypeOK', ListsAreSafe, StoreInv, InTransaction,
         NEW t \in Transaction, transactionList' = WithCurrent(t),
         NEW new \in SUBSET Uuid, new \cap usedUuids = {},
         DOMAIN store' = DOMAIN store \cup new, UNCHANGED base,
         t.created = Current.created \cup new, t.deleted = Current.deleted,
         t.dangling = Current.dangling,
         \A u \in Uuid, a \in Attr : t.changes[<<u, a>>] > 0 =>
           u \in DOMAIN store \/ Current.changes[<<u, a>>] > 0
  PROVE  ListsAreSafe'
<1>1. /\ Depth \in Nat \ {0} /\ Depth \in 1 .. Depth
      /\ DOMAIN transactionList = 1 .. Depth /\ DOMAIN transactionList' = 1 .. Depth
      /\ \A i \in 1 .. Depth - 1 : i \in 1 .. Depth /\ transactionList'[i] = transactionList[i]
      /\ Current = transactionList[Depth] /\ transactionList'[Depth] = t
  BY WithCurrentReplaces, ListDomain, CurrentIsTransaction DEF TInv
<1>2. DOMAIN store \cap new = {} /\ DOMAIN base \subseteq DOMAIN store'
  BY DEF StoreInv, NamesAreUsed, ListsAreSafe
<1>3. ASSUME NEW i \in 1 .. Depth
      PROVE  i \in 1 .. Depth - 1 \/ i = Depth
  BY <1>1
<1>4. TransactionsAreSafe'
  <2>1. Current.deleted = {} /\ ~Current.dangling /\ Current.created \subseteq DOMAIN store
    BY <1>1 DEF ListsAreSafe, TransactionsAreSafe
  <2>2. t.deleted = {} /\ ~t.dangling /\ t.created \subseteq DOMAIN store'
    BY <2>1
  <2> QED
    BY <1>1, <1>3, <2>2 DEF ListsAreSafe, TransactionsAreSafe
<1>5. CreatedOnce'
  <2>1. \A i \in 1 .. Depth - 1 :
          /\ transactionList[i].created \cap Current.created = {}
          /\ transactionList[i].created \cap new = {}
    BY <1>1, <1>2 DEF ListsAreSafe, CreatedOnce, TransactionsAreSafe
  <2> SUFFICES ASSUME NEW i \in 1 .. Depth, NEW j \in 1 .. Depth, i # j
               PROVE  transactionList'[i].created \cap transactionList'[j].created = {}
    BY <1>1 DEF CreatedOnce
  <2>2. CASE i \in 1 .. Depth - 1 /\ j \in 1 .. Depth - 1
    BY <1>1, <2>2 DEF ListsAreSafe, CreatedOnce
  <2>3. CASE i = Depth /\ j \in 1 .. Depth - 1
    BY <1>1, <2>1, <2>3
  <2>4. CASE i \in 1 .. Depth - 1 /\ j = Depth
    BY <1>1, <2>1, <2>4
  <2> QED
    BY <1>3, <2>2, <2>3, <2>4
<1>6. EntriesAreStored'
  <2> SUFFICES ASSUME NEW i \in 1 .. Depth, NEW u \in Uuid, NEW a \in Attr,
                      transactionList'[i].changes[<<u, a>>] > 0
               PROVE  u \in ObjectsAt(i)'
    BY <1>1 DEF EntriesAreStored
  <2>1. CASE i \in 1 .. Depth - 1
    <3>1. u \in ObjectsAt(i)
      BY <1>1, <2>1 DEF ListsAreSafe, EntriesAreStored
    <3>2. CreatedDeeper(i)' = CreatedDeeper(i) \cup t.created
      <4>1. i \in 0 .. Depth - 1 /\ Current.created \subseteq t.created
        BY <2>1
      <4> QED
        BY <4>1, WithCurrentLevels DEF TInv
    <3>3. Current.created \subseteq CreatedDeeper(i)
      <4>1. Depth \in i + 1 .. Len(transactionList)
        BY <1>1, <2>1 DEF Depth
      <4> QED
        BY <1>1, <4>1 DEF CreatedDeeper
    <3> QED
      BY <1>2, <3>1, <3>2, <3>3 DEF ObjectsAt
  <2>2. CASE i = Depth
    <3>1. u \in DOMAIN store
      <4>1. Current.changes[<<u, a>>] > 0 => u \in DOMAIN store
        BY <1>1 DEF ListsAreSafe, EntriesAreStored, ObjectsAt
      <4> QED
        BY <1>1, <2>2, <4>1
    <3>2. CreatedDeeper(i)' = {}
      <4>1. Len(transactionList') = Depth
        BY WithCurrentReplaces DEF TInv
      <4> QED
        BY <1>1, <2>2, <4>1 DEF CreatedDeeper
    <3> QED
      BY <3>1, <3>2 DEF ObjectsAt
  <2> QED
    BY <1>3, <2>1, <2>2
<1> QED
  BY <1>2, <1>4, <1>5, <1>6 DEF ListsAreSafe

LEMMA CreateLists ==
  ASSUME TInv, TypeOK', ListsAreSafe, StoreInv, CreateObject
  PROVE  ListsAreSafe'
<1>1. InTransaction /\ UNCHANGED base
  BY DEF CreateObject, Create, InWriteTransaction
<1>2. PICK u \in Uuid \ usedUuids :
        /\ store' = With(store, u, Blank)
        /\ transactionList' = WithCurrent([Current EXCEPT !.created = @ \cup {u}])
  BY DEF CreateObject, Create
<1> DEFINE t == [Current EXCEPT !.created = @ \cup {u}]
<1>3. Current \in Transaction
  BY <1>1, CurrentIsTransaction DEF TInv
<1>4. /\ t \in Transaction /\ t.changes = Current.changes
      /\ t.created = Current.created \cup {u} /\ t.deleted = Current.deleted
      /\ t.dangling = Current.dangling
  BY <1>3 DEF Transaction
<1>5. DOMAIN store' = DOMAIN store \cup {u} /\ {u} \in SUBSET Uuid /\ {u} \cap usedUuids = {}
  BY <1>2, WithAdds
<1>6. transactionList' = WithCurrent(t)
  BY <1>2
<1> DEFINE new == {u}
<1> HIDE DEF t, new
<1>7. /\ t.created = Current.created \cup new /\ DOMAIN store' = DOMAIN store \cup new
      /\ new \in SUBSET Uuid /\ new \cap usedUuids = {}
  BY <1>4, <1>5 DEF new
<1> QED
  BY <1>1, <1>4, <1>6, <1>7, WithCurrentLists

LEMMA SetLists ==
  ASSUME SafeClient, TInv, TypeOK', ListsAreSafe, StoreInv, SetAttributeValue
  PROVE  ListsAreSafe'
<1>1. PICK u \in Uuid, a \in Attr, new \in Contents : Set(u, a, new)
  BY DEF SetAttributeValue
<1>2. InTransaction /\ u \in DOMAIN store
  BY <1>1 DEF Set, InWriteTransaction, MaySet, MayUse, SafeClient
<1>3. CASE SetFault(u, a, new) # "none"
  BY <1>1, <1>3, SameLists DEF Set, Dies
<1>4. CASE SetFault(u, a, new) = "none"
  <2>1. Pushed(u, a, new)
    BY <1>1, <1>4 DEF Set
  <2>2. PICK t : Listing(t, u, a) /\ transactionList' = WithCurrent(t)
    BY <1>2, <2>1, PushedLists DEF TInv
  <2>3. /\ t \in Transaction /\ t.created = Current.created \cup {}
        /\ t.deleted = Current.deleted /\ t.dangling = Current.dangling
    BY <2>2 DEF Listing
  <2>4. ASSUME NEW v \in Uuid, NEW b \in Attr, t.changes[<<v, b>>] > 0
        PROVE  v \in DOMAIN store \/ Current.changes[<<v, b>>] > 0
    <3>1. <<v, b>> \in Cell
      BY DEF Cell
    <3>2. CASE v = u
      BY <1>2, <3>2
    <3>3. CASE v # u
      BY <2>2, <2>4, <3>1, <3>3 DEF Listing
    <3> QED
      BY <3>2, <3>3
  <2>5. UNCHANGED base /\ DOMAIN store' = DOMAIN store \cup {}
    BY <2>1 DEF Pushed
  <2> DEFINE none == {}
  <2>6. /\ none \in SUBSET Uuid /\ none \cap usedUuids = {}
        /\ DOMAIN store' = DOMAIN store \cup none /\ t.created = Current.created \cup none
    BY <2>3, <2>5
  <2> HIDE DEF none
  <2> QED
    BY <1>2, <2>2, <2>3, <2>4, <2>5, <2>6, WithCurrentLists
<1> QED
  BY <1>3, <1>4

LEMMA ReleaseLists ==
  ASSUME SafeClient, TInv, TypeOK', ListsAreSafe, Release
  PROVE  ListsAreSafe'
<1>1. PICK u \in Held : MayGiveUp(u) /\ GiveUp(u)
  BY DEF Release
<1>2. u \in Uuid /\ UNCHANGED <<store, base>>
      /\ transactionList' = [i \in DOMAIN transactionList |-> WithoutEntries(transactionList[i], u)]
  BY <1>1 DEF GiveUp, TInv, TypeOK, Held
<1>3. \A i \in DOMAIN transactionList : ~Listed(transactionList[i], u)
  BY <1>1 DEF MayGiveUp, SafeClient
<1>4. ASSUME NEW i \in DOMAIN transactionList
      PROVE  /\ transactionList'[i].created = transactionList[i].created
             /\ transactionList'[i].deleted = transactionList[i].deleted
             /\ ~transactionList[i].dangling => ~transactionList'[i].dangling
             /\ \A v \in Uuid, a \in Attr : transactionList'[i].changes[<<v, a>>] > 0 =>
                  transactionList[i].changes[<<v, a>>] > 0
  <2> DEFINE t == transactionList[i]
             c == [k \in Cell |-> IF k[1] = u THEN 0 ELSE t.changes[k]]
             d == t.dangling \/ Listed(t, u)
  <2>1. t \in Transaction
    BY ElementIsTransaction DEF TInv
  <2>2. WithoutEntries(t, u) = [t EXCEPT !.changes = c, !.dangling = d]
    BY DEF WithoutEntries
  <2>3. ~t.dangling => ~d
    BY <1>3
  <2>4. \A v \in Uuid, a \in Attr : c[<<v, a>>] > 0 => t.changes[<<v, a>>] > 0
    BY DEF Cell
  <2>5. transactionList'[i] = [t EXCEPT !.changes = c, !.dangling = d]
    BY <1>2, <2>2
  <2> HIDE DEF t, c, d
  <2>6. /\ transactionList'[i].created = t.created
        /\ transactionList'[i].deleted = t.deleted
        /\ transactionList'[i].changes = c /\ transactionList'[i].dangling = d
    BY <2>1, <2>5 DEF Transaction
  <2>7. ~t.dangling => ~transactionList'[i].dangling
    BY <2>3, <2>6, Zenon
  <2>8. \A v \in Uuid, a \in Attr : transactionList'[i].changes[<<v, a>>] > 0 =>
          t.changes[<<v, a>>] > 0
    BY <2>4, <2>6
  <2> QED
    BY <2>6, <2>7, <2>8 DEF t
<1>5. DOMAIN transactionList' = DOMAIN transactionList /\ DOMAIN transactionList \subseteq Nat
  BY <1>2, ListDomain DEF TInv
<1>6. TransactionsAreSafe'
  BY <1>2, <1>4, <1>5 DEF ListsAreSafe, TransactionsAreSafe
<1>7. CreatedOnce'
  BY <1>4, <1>5 DEF ListsAreSafe, CreatedOnce
<1>8. EntriesAreStored'
  <2>1. \A i \in DOMAIN transactionList : ObjectsAt(i)' = ObjectsAt(i)
    BY <1>1, <1>2, <1>5, GiveUpLevels DEF ObjectsAt, TInv
  <2> QED
    BY <1>4, <1>5, <2>1 DEF ListsAreSafe, EntriesAreStored
<1> QED
  BY <1>2, <1>6, <1>7, <1>8 DEF ListsAreSafe

LEMMA NextLists ==
  ASSUME SafeClient, TInv, TypeOK', StoreInv, ListsAreSafe, [Next]_vars
  PROVE  ListsAreSafe'
<1>1. CASE UNCHANGED <<transactionList, base, store>>
  BY <1>1, SameLists
<1>2. \/ UNCHANGED <<transactionList, base, store>>
      \/ BeginTransaction \/ CommitNested \/ CommitFinal \/ AbortTransaction
      \/ CreateObject \/ Release \/ SetAttributeValue
  BY DEF Next, vars, CommitDies, AbortDies, GetCollectionValue, GetCollection, Object, Fetch,
         GetAttributeValue, Get, DeleteObject, SafeClient, SetCollectionValue, Close, Destroy,
         Dies
<1> QED
  BY <1>1, <1>2, BeginLists, CommitNestedLists, CommitFinalLists, AbortLists, CreateLists,
     ReleaseLists, SetLists

--------------------------------------------------------------------------------
(* What each level of nesting holds, and what the calls do to it.          *)

(* The number of values is that of the entries and the one loaded.  A      *)
(* value that storage refused stays on top of the one loaded.              *)
Condenses(a) == a \notin ValueAttr \/ Malformed = {}

Even(u, a) ==
  /\ a \in DictionaryAttr => Deeper(0, <<u, a>>) <= 1
  /\ Condenses(a) /\ objectHash[u][a] # << >> =>
       Len(objectHash[u][a]) = Deeper(0, <<u, a>>) + 1

ValuesAreSafe == \A u \in Held, a \in Attr : Even(u, a)

Resolves(level) ==
  \A u \in DOMAIN level, a \in PointerAttr : level[u][a] \in DOMAIN level \cup {Null}

LevelsResolve == \A i \in 0 .. Depth : Resolves(StoreAt(i))

SafeInv ==
  /\ ListsAreSafe
  /\ ValuesAreSafe
  /\ LevelsResolve
  /\ fault \in {"none", "closed"}

LEMMA LevelHas ==
  ASSUME NEW i
  PROVE  /\ DOMAIN StoreAt(i) = ObjectsAt(i)
         /\ \A u \in ObjectsAt(i), a \in Attr : StoreAt(i)[u][a] = ValueAt(i, u, a)
BY DEF StoreAt, ObjectsAt

LEMMA EntriesOfPair ==
  ASSUME TypeOK, NEW u \in Uuid, NEW a \in Attr, NEW i \in Nat
  PROVE  Deeper(i, <<u, a>>) \in Nat
<1>1. <<u, a>> \in Cell /\ transactionList \in Seq(Transaction)
  BY DEF Cell, TypeOK
<1> QED
  BY <1>1, DeeperCounts DEF Deeper

LEMMA TopLevel ==
  ASSUME TypeOK
  PROVE  /\ Depth \in Nat
         /\ CreatedDeeper(Depth) = {} /\ ObjectsAt(Depth) = DOMAIN store
         /\ \A u \in Uuid, a \in Attr : Deeper(Depth, <<u, a>>) = 0
<1>1. Depth \in Nat /\ transactionList \in Seq(Transaction) /\ Depth = Len(transactionList)
  BY DEF TypeOK, Depth
<1>2. CreatedDeeper(Depth) = {}
  BY <1>1 DEF CreatedDeeper
<1>3. ASSUME NEW u \in Uuid, NEW a \in Attr
      PROVE  Deeper(Depth, <<u, a>>) = 0
  <2>1. <<u, a>> \in Cell
    BY DEF Cell
  <2> QED
    BY <1>1, <2>1, NoneAreDeeper DEF Deeper
<1> QED
  BY <1>1, <1>2, <1>3 DEF ObjectsAt

(* Inside one transaction, the entries are those of the innermost.         *)
LEMMA OneLevel ==
  ASSUME TypeOK, Len(transactionList) = 1, NEW u \in Uuid, NEW a \in Attr
  PROVE  /\ InTransaction /\ Depth = 1
         /\ Current = transactionList[1] /\ Current \in Transaction
         /\ Deeper(0, <<u, a>>) = Current.changes[<<u, a>>]
<1> DEFINE list == transactionList
           k == <<u, a>>
<1>1. /\ InTransaction /\ Depth = 1 /\ Current = list[1] /\ Current \in Transaction
      /\ list \in Seq(Transaction) /\ k \in Cell /\ Len(list) = 1
  BY OneIsInTransaction, CurrentIsTransaction DEF TypeOK, Cell
<1>2. DeeperIn(list, 0, k) = list[1].changes[k]
  <2> HIDE DEF list, k
  <2>1. list[1].changes[k] \in Nat /\ DeeperIn(list, 0, k) = list[1].changes[k] + DeeperIn(list, 1, k)
    BY <1>1, DeeperOfFirst
  <2>2. DeeperIn(list, 1, k) = 0
    BY <1>1, NoneAreDeeper
  <2> QED
    BY <2>1, <2>2
<1> QED
  BY <1>1, <1>2 DEF Deeper

(* A level is, in the next state, what one was.                            *)
LEMMA SameLevel ==
  ASSUME NEW i, NEW j, ObjectsAt(j)' = ObjectsAt(i),
         \A u \in ObjectsAt(i), a \in Attr : ValueAt(j, u, a)' = ValueAt(i, u, a)
  PROVE  StoreAt(j)' = StoreAt(i)
BY DEF StoreAt, ObjectsAt

LEMMA KeptLevel ==
  ASSUME TypeOK, NEW i, NEW j, UNCHANGED <<store, objectHash>>,
         CreatedDeeper(j)' = CreatedDeeper(i),
         \A u \in Uuid, a \in Attr : Deeper(j, <<u, a>>)' = Deeper(i, <<u, a>>)
  PROVE  StoreAt(j)' = StoreAt(i)
<1>1. ObjectsAt(j)' = ObjectsAt(i) /\ ObjectsAt(i) \subseteq Uuid
  BY DEF ObjectsAt, TypeOK
<1>2. \A u \in ObjectsAt(i), a \in Attr : ValueAt(j, u, a)' = ValueAt(i, u, a)
  BY <1>1 DEF ValueAt, Held
<1> QED
  BY <1>1, <1>2, SameLevel

(* What the innermost level is in the next state.                          *)
LEMMA NewTop ==
  ASSUME TypeOK', NEW n \in Nat, Depth' = n
  PROVE  /\ CreatedDeeper(n)' = {}
         /\ \A u \in Uuid, a \in Attr : Deeper(n, <<u, a>>)' = 0
<1> DEFINE list == transactionList'
<1>1. list \in Seq(Transaction) /\ n = Len(list)
  BY DEF TypeOK, Depth
<1>2. CreatedDeeper(n)' = {}
  BY <1>1 DEF CreatedDeeper
<1>3. ASSUME NEW u \in Uuid, NEW a \in Attr
      PROVE  Deeper(n, <<u, a>>)' = 0
  <2> DEFINE k == <<u, a>>
  <2>1. k \in Cell
    BY DEF Cell
  <2>2. DeeperIn(list, n, k) = 0
    <3> HIDE DEF list, k
    <3> QED
      BY <1>1, <2>1, NoneAreDeeper
  <2> QED
    BY <2>2 DEF Deeper
<1> QED
  BY <1>2, <1>3

LEMMA KeptTop ==
  ASSUME TypeOK, TypeOK', UNCHANGED <<store, objectHash>>, NEW n \in Nat, Depth' = n
  PROVE  StoreAt(n)' = Visible
<1> DEFINE m == Depth
<1>1. /\ CreatedDeeper(n)' = CreatedDeeper(m)
      /\ \A u \in Uuid, a \in Attr : Deeper(n, <<u, a>>)' = Deeper(m, <<u, a>>)
  BY TopLevel, NewTop
<1>2. ObjectsAt(n)' = ObjectsAt(m) /\ ObjectsAt(m) \subseteq Uuid
  BY <1>1 DEF ObjectsAt, TypeOK
<1>3. \A u \in ObjectsAt(m), a \in Attr : ValueAt(n, u, a)' = ValueAt(m, u, a)
  BY <1>1, <1>2 DEF ValueAt, Held
<1> QED
  BY <1>2, <1>3 DEF StoreAt, ObjectsAt, Visible

LEMMA BeginStores ==
  ASSUME TypeOK, TypeOK', BeginTransaction
  PROVE  /\ Depth \in Nat /\ Depth' = Depth + 1
         /\ \A i \in 0 .. Depth : StoreAt(i)' = StoreAt(i)
         /\ \A n \in Nat : n = Depth' => StoreAt(n)' = Visible
<1>1. UNCHANGED <<store, objectHash>>
  BY DEF BeginTransaction, Begin
<1>2. ASSUME NEW i \in 0 .. Depth
      PROVE  StoreAt(i)' = StoreAt(i)
  <2>1. CreatedDeeper(i)' = CreatedDeeper(i)
    BY BeginLevels
  <2>2. \A u \in Uuid, a \in Attr : Deeper(i, <<u, a>>)' = Deeper(i, <<u, a>>)
    BY BeginLevels DEF Cell
  <2> QED
    BY <1>1, <2>1, <2>2, KeptLevel
<1> QED
  BY <1>1, <1>2, BeginLevels, KeptTop

LEMMA CommitNestedStores ==
  ASSUME TypeOK, TypeOK', CommitNested
  PROVE  /\ Depth \in Nat /\ Depth > 1 /\ Depth' = Depth - 1
         /\ \A i \in 0 .. Depth - 2 : StoreAt(i)' = StoreAt(i)
         /\ \A n \in Nat : n = Depth' => StoreAt(n)' = Visible
<1>1. UNCHANGED <<store, objectHash>>
  BY DEF CommitNested
<1>2. ASSUME NEW i \in 0 .. Depth - 2
      PROVE  StoreAt(i)' = StoreAt(i)
  <2>1. CreatedDeeper(i)' = CreatedDeeper(i)
    BY CommitNestedLevels
  <2>2. \A u \in Uuid, a \in Attr : Deeper(i, <<u, a>>)' = Deeper(i, <<u, a>>)
    BY CommitNestedLevels DEF Cell
  <2> QED
    BY <1>1, <2>1, <2>2, KeptLevel
<1> QED
  BY <1>1, <1>2, CommitNestedLevels, KeptTop

LEMMA CommitFinalStores ==
  ASSUME TInv, TypeOK', ListsAreSafe, CommitFinal
  PROVE  Depth = 1 /\ Depth' = 0 /\ StoreAt(0)' = Visible
<1> DEFINE done == {k \in Written : ~Refused(k)}
<1>1. /\ InTransaction /\ Depth = 1 /\ Current = transactionList[1]
      /\ 1 \in DOMAIN transactionList
  BY OneIsInTransaction, CurrentIsTransaction, ListDomain DEF CommitFinal, TInv
<1>2. Current.deleted = {}
  BY <1>1 DEF ListsAreSafe, TransactionsAreSafe
<1>3. /\ store' = [u \in DOMAIN store |->
                    [a \in Attr |-> IF <<u, a>> \in done THEN LastValue(<<u, a>>)
                                    ELSE store[u][a]]]
      /\ objectHash' = [u \in DOMAIN objectHash |->
                         [a \in Attr |-> IF <<u, a>> \in done
                                         THEN Condensed(objectHash[u][a])
                                         ELSE objectHash[u][a]]]
      /\ transactionList' = << >>
  BY <1>2 DEF CommitFinal
<1>4. done \subseteq Written
  OBVIOUS
<1> HIDE DEF done
<1>5. Depth' = 0
  BY <1>3 DEF Depth
<1>6. ObjectsAt(0)' = ObjectsAt(1) /\ ObjectsAt(1) = DOMAIN store /\ DOMAIN store \subseteq Uuid
  <2>1. CreatedDeeper(0)' = {}
    BY <1>5, NewTop
  <2> QED
    BY <1>1, <1>3, <2>1, TopLevel DEF ObjectsAt, TInv, TypeOK
<1>7. ASSUME NEW u \in DOMAIN store, NEW a \in Attr
      PROVE  ValueAt(0, u, a)' = ValueAt(1, u, a)
  <2>1. Deeper(0, <<u, a>>)' = 0 /\ Deeper(1, <<u, a>>) = 0
    BY <1>1, <1>5, <1>6, NewTop, TopLevel DEF TInv
  <2>2. Held' = Held
    BY <1>3 DEF Held
  <2>3. CASE <<u, a>> \in done
    <3> DEFINE s == objectHash[u][a]
    <3>1. u \in Held /\ s \in Seq(Contents) /\ s # << >>
      BY <1>1, <1>4, <1>6, <2>3, WrittenAreContents
    <3>2. objectHash'[u][a] = <<s[Len(s)]>>
      BY <1>3, <2>3, <3>1 DEF Condensed, Last, Held
    <3>3. ValueAt(0, u, a)' = s[Len(s)]
      BY <2>1, <2>2, <3>1, <3>2 DEF ValueAt
    <3>4. ValueAt(1, u, a) = s[Len(s)]
      <4>1. Len(s) - 0 = Len(s)
        BY <3>1
      <4>2. ValueAt(1, u, a) = s[Len(s) - 0]
        BY <2>1, <3>1 DEF ValueAt
      <4> QED
        BY <4>1, <4>2
    <3> QED
      BY <3>3, <3>4
  <2>4. CASE <<u, a>> \notin done
    <3>1. store'[u][a] = store[u][a] /\ (u \in Held => objectHash'[u][a] = objectHash[u][a])
      BY <1>3, <2>4 DEF Held
    <3> QED
      BY <2>1, <2>2, <3>1 DEF ValueAt
  <2> QED
    BY <2>3, <2>4
<1> QED
  BY <1>1, <1>5, <1>6, <1>7 DEF Visible, StoreAt, ObjectsAt

(* The values that an abort leaves, seen from a level that stays.          *)
LEMMA RevertedValues ==
  ASSUME NEW s \in Seq(Contents), NEW n \in Nat, NEW d \in Nat, NEW m \in Nat, d + n <= m,
         m > 0 => Len(s) > m, s # << >>
  PROVE  /\ Reverted(s, n) # << >>
         /\ Reverted(s, n)[Len(Reverted(s, n)) - d] = s[Len(s) - (n + d)]
<1> DEFINE l == Len(s) - n
           i == Len(s) - (n + d)
<1>1. l \in 1 .. Len(s) /\ Len(s) \in Nat /\ i \in 1 .. l /\ l - d = i
  OBVIOUS
<1>2. Reverted(s, n) = SubSeq(s, 1, l)
  BY DEF Reverted
<1> HIDE DEF l, i
<1>3. /\ Len(SubSeq(s, 1, l)) = l /\ SubSeq(s, 1, l)[i] = s[i]
      /\ SubSeq(s, 1, l) # << >>
  BY <1>1
<1>4. Reverted(s, n) # << >> /\ Reverted(s, n)[Len(Reverted(s, n)) - d] = s[i]
  BY <1>1, <1>2, <1>3
<1> QED
  BY <1>4 DEF i

LEMMA AbortStores ==
  ASSUME TInv, StoreInv, ListsAreSafe, EntriesBacked, AbortTransaction
  PROVE  /\ Depth \in Nat \ {0} /\ Depth' = Depth - 1
         /\ \A i \in 0 .. Depth - 1 : StoreAt(i)' = StoreAt(i)
<1>1. /\ Depth \in Nat \ {0} /\ Depth' = Depth - 1
      /\ DOMAIN transactionList = 1 .. Depth /\ Depth = Len(transactionList)
      /\ Current = transactionList[Depth] /\ Held' = Held
  BY AbortLevels, ListDomain, CurrentIsTransaction DEF TInv, AbortTransaction, Held
<1>2. \A u \in DOMAIN store' : u \in DOMAIN store /\ store'[u] = store[u]
  <2>1. CASE Depth = 1
    <3>1. store' = base
      BY <1>1, <2>1 DEF AbortTransaction, StoreAfterAbort
    <3>2. ASSUME NEW u \in DOMAIN base
          PROVE  u \in DOMAIN store /\ base[u] = store[u]
      <4>1. u \in DOMAIN store /\ u \in Uuid
        BY DEF ListsAreSafe, TInv, TypeOK
      <4> QED
        BY <4>1 DEF StoreInv, StoreWaits, CreatedAreNew
    <3> QED
      BY <3>1, <3>2
  <2>2. CASE Depth # 1
    <3>1. store' = Restrict(store, DOMAIN store \ Current.created)
      BY <1>1, <2>2 DEF AbortTransaction, StoreAfterAbort
    <3> QED
      BY <3>1 DEF Restrict
  <2> QED
    BY <2>1, <2>2
<1> SUFFICES ASSUME NEW i \in 0 .. Depth - 1
             PROVE  StoreAt(i)' = StoreAt(i)
  BY <1>1
<1>3. CreatedDeeper(i) = CreatedDeeper(i)' \cup Current.created
  BY AbortLevels DEF TInv
<1>4. ObjectsAt(i)' = ObjectsAt(i)
  <2>1. CASE Depth = 1
    <3>1. store' = base /\ i = 0
      BY <1>1, <2>1 DEF AbortTransaction, StoreAfterAbort
    <3>2. CreatedDeeper(0)' = {}
      BY <1>1, <2>1, <3>1 DEF CreatedDeeper, Depth
    <3>3. \A u \in Uuid : u \in CreatedDeeper(0) <=> HasCreated(transactionList, u)
      BY <1>1 DEF CreatedDeeper, HasCreated
    <3>4. DOMAIN store \subseteq Uuid /\ DOMAIN base \subseteq Uuid
      BY DEF TInv, TypeOK
    <3>5. \A u \in DOMAIN base : u \in DOMAIN store /\ u \notin CreatedDeeper(0)
      BY <3>3, <3>4 DEF ListsAreSafe, StoreInv, CreatedAreNew
    <3>6. \A u \in DOMAIN store : u \in DOMAIN base \/ u \in CreatedDeeper(0)
      BY <3>3, <3>4 DEF StoreInv, StoreWaits
    <3> QED
      BY <3>1, <3>2, <3>5, <3>6 DEF ObjectsAt
  <2>2. CASE Depth # 1
    <3>1. DOMAIN store' = DOMAIN store \ Current.created
      BY <1>1, <2>2 DEF AbortTransaction, StoreAfterAbort, Restrict
    <3> QED
      BY <1>3, <3>1 DEF ObjectsAt
  <2> QED
    BY <2>1, <2>2
<1>5. ASSUME NEW u \in ObjectsAt(i), NEW a \in Attr
      PROVE  ValueAt(i, u, a)' = ValueAt(i, u, a)
  <2> DEFINE n == Current.changes[<<u, a>>]
             s == objectHash[u][a]
             d == Deeper(i, <<u, a>>)'
  <2>1. u \in Uuid /\ u \in DOMAIN store' /\ store'[u] = store[u]
    <3>1. u \in DOMAIN store' /\ u \in DOMAIN store
      BY <1>4, <1>5 DEF ObjectsAt
    <3> QED
      BY <1>2, <3>1 DEF TInv, TypeOK
  <2>2. CASE u \notin Held
    BY <1>1, <2>1, <2>2 DEF ValueAt
  <2>3. CASE u \in Held
    <3>1. /\ s \in Seq(Contents) /\ objectHash'[u][a] = Reverted(s, n)
      BY <2>3 DEF AbortTransaction, TInv, TypeOK, Held
    <3>2. /\ n \in Nat /\ d \in Nat /\ Deeper(i, <<u, a>>) = n + d
      <4>1. <<u, a>> \in Cell
        BY <2>1 DEF Cell
      <4> DEFINE k == <<u, a>>
      <4> HIDE DEF k
      <4>2. k \in Cell => /\ Current.changes[k] \in Nat /\ Deeper(i, k)' \in Nat
                         /\ Deeper(i, k) = Current.changes[k] + Deeper(i, k)'
        BY AbortLevels DEF TInv
      <4> QED
        BY <4>1, <4>2 DEF k
    <3> DEFINE m == Deeper(0, <<u, a>>)
    <3>3. m \in Nat /\ n + d <= m
      <4>1. i \in 0 .. Len(transactionList) /\ transactionList \in Seq(Transaction)
            /\ <<u, a>> \in Cell
        BY <1>1, <2>1 DEF Cell, TInv, TypeOK
      <4>2. Deeper(i, <<u, a>>) <= m
        BY <4>1, DeeperIsLess DEF Deeper
      <4>3. m \in Nat
        BY <2>1, EntriesOfPair DEF TInv
      <4> QED
        BY <3>2, <4>2, <4>3
    <3>4. m > 0 => Len(s) > m
      BY <2>3 DEF EntriesBacked, Backed
    <3> HIDE DEF n, d, m
    <3>5. CASE s = << >>
      <4>1. m = 0
        BY <3>3, <3>4, <3>5
      <4>2. n = 0
        BY <3>2, <3>3, <4>1
      <4>3. Reverted(s, n) = << >>
        BY <3>5, <4>2 DEF Reverted
      <4> QED
        BY <1>1, <2>1, <3>1, <3>5, <4>3 DEF ValueAt
    <3>6. CASE s # << >>
      <4>1. /\ Reverted(s, n) # << >>
            /\ Reverted(s, n)[Len(Reverted(s, n)) - d] = s[Len(s) - (n + d)]
        <5>1. d + n <= m
          BY <3>2, <3>3
        <5> HIDE DEF s
        <5> QED
          BY <3>1, <3>2, <3>3, <3>4, <3>6, <5>1, RevertedValues
      <4>2. ValueAt(i, u, a)' = Reverted(s, n)[Len(Reverted(s, n)) - d]
        BY <1>1, <2>3, <3>1, <4>1 DEF ValueAt, d
      <4>3. ValueAt(i, u, a) = s[Len(s) - (n + d)]
        BY <2>3, <3>2, <3>6 DEF ValueAt
      <4> QED
        BY <4>1, <4>2, <4>3
    <3> QED
      BY <3>5, <3>6
  <2> QED
    BY <2>2, <2>3
<1> QED
  BY <1>4, <1>5, SameLevel

(* Calls that change neither storage nor the lists: a value or an object   *)
(* comes into memory.                                                      *)
LEMMA LoadedStores ==
  ASSUME TInv, UNCHANGED <<store, transactionList>>,
         \A i \in 0 .. Depth, u \in DOMAIN store, a \in Attr :
           ValueAt(i, u, a)' = ValueAt(i, u, a)
  PROVE  Depth' = Depth /\ \A i \in 0 .. Depth : StoreAt(i)' = StoreAt(i)
<1>1. \A i : ObjectsAt(i)' = ObjectsAt(i) /\ ObjectsAt(i) \subseteq DOMAIN store
  BY DEF ObjectsAt, CreatedDeeper
<1>2. Depth' = Depth
  BY DEF Depth
<1> QED
  BY <1>1, <1>2, SameLevel

LEMMA ObjectStores ==
  ASSUME TInv, Object
  PROVE  Depth' = Depth /\ \A i \in 0 .. Depth : StoreAt(i)' = StoreAt(i)
<1>1. PICK u \in Uuid \ Held :
        IF u \in DOMAIN store
        THEN objectHash' = With(objectHash, u, NotLoaded)
        ELSE UNCHANGED objectHash
  BY DEF Object, Fetch, Dies
<1>2. UNCHANGED <<store, transactionList>>
  BY DEF Object, Fetch, Dies
<1>3. ASSUME NEW i \in 0 .. Depth, NEW v \in DOMAIN store, NEW a \in Attr
      PROVE  ValueAt(i, v, a)' = ValueAt(i, v, a)
  <2>1. Deeper(i, <<v, a>>)' = Deeper(i, <<v, a>>)
    BY <1>2 DEF Deeper
  <2>2. CASE u \in DOMAIN store
    <3>1. /\ Held' = Held \cup {u} /\ \A w \in Held : objectHash'[w] = objectHash[w]
          /\ objectHash'[u][a] = << >>
      BY <1>1, <2>2 DEF With, Held, NotLoaded
    <3> QED
      BY <1>1, <1>2, <2>1, <3>1 DEF ValueAt
  <2>3. CASE u \notin DOMAIN store
    BY <1>1, <1>2, <2>1, <2>3 DEF ValueAt, Held
  <2> QED
    BY <2>2, <2>3
<1> QED
  BY <1>2, <1>3, LoadedStores

LEMMA GetStores ==
  ASSUME TInv, EntriesBacked, GetAttributeValue
  PROVE  Depth' = Depth /\ \A i \in 0 .. Depth : StoreAt(i)' = StoreAt(i)
<1>1. PICK u \in Uuid, a \in Attr :
        /\ u \in Held /\ objectHash[u][a] = << >>
        /\ IF Loadable(u)
           THEN objectHash' = [objectHash EXCEPT ![u][a] = Loaded(u, a)]
           ELSE UNCHANGED objectHash
  BY DEF GetAttributeValue, Get, MayUse, Dies
<1>2. UNCHANGED <<store, transactionList>>
  BY DEF GetAttributeValue, Get, Dies
<1>3. ASSUME NEW i \in 0 .. Depth, NEW v \in DOMAIN store, NEW b \in Attr
      PROVE  ValueAt(i, v, b)' = ValueAt(i, v, b)
  <2>1. \A j, k : Deeper(j, k)' = Deeper(j, k)
    BY <1>2 DEF Deeper
  <2>2. CASE Loadable(u)
    <3>1. /\ Held' = Held /\ objectHash'[u][a] = Loaded(u, a)
          /\ \A w \in Held, c \in Attr :
               w # u \/ c # a => objectHash'[w][c] = objectHash[w][c]
      <4>1. Loaded(u, a) \in Seq(Contents)
        BY <1>1, <2>2, LoadedIsSequence DEF TInv
      <4> QED
        BY <1>1, <2>2, <4>1, ChangedValuesType DEF TInv, Held
    <3>2. CASE v = u /\ b = a
      <4>1. objectHash'[u][a] = <<store[u][a]>>
        BY <1>1, <3>1 DEF Loaded
      <4>2. Deeper(i, <<u, a>>) = 0
        <5>1. Deeper(0, <<u, a>>) \in Nat /\ ~(Deeper(0, <<u, a>>) > 0)
          <6>1. Len(objectHash[u][a]) = 0
            BY <1>1
          <6>2. Deeper(0, <<u, a>>) \in Nat
            BY EntriesOfPair DEF TInv
          <6> QED
            BY <1>1, <6>1, <6>2 DEF EntriesBacked, Backed
        <5>2. Deeper(i, <<u, a>>) \in Nat /\ Deeper(i, <<u, a>>) <= Deeper(0, <<u, a>>)
          <6>1. i \in 0 .. Len(transactionList) /\ transactionList \in Seq(Transaction)
                /\ <<u, a>> \in Cell /\ i \in Nat
            BY DEF Cell, TInv, TypeOK, Depth
          <6> QED
            BY <6>1, DeeperIsLess, EntriesOfPair DEF Deeper, TInv
        <5> QED
          BY <5>1, <5>2
      <4> QED
        BY <1>1, <1>2, <2>1, <3>1, <3>2, <4>1, <4>2 DEF ValueAt
    <3>3. CASE v # u \/ b # a
      BY <1>2, <2>1, <3>1, <3>3 DEF ValueAt
    <3> QED
      BY <3>2, <3>3
  <2>3. CASE ~Loadable(u)
    BY <1>1, <1>2, <2>1, <2>3 DEF ValueAt, Held
  <2> QED
    BY <2>2, <2>3
<1> QED
  BY <1>2, <1>3, LoadedStores

(* An object that is given up has no entries: what it kept of its          *)
(* attributes is what storage has, but for a value that storage refused.   *)
LEMMA ReleaseStores ==
  ASSUME SafeClient, TInv, ValuesAreSafe, FirstIsStored, Release
  PROVE  /\ Depth \in Nat /\ Depth' = Depth
         /\ \A i \in 0 .. Depth :
              /\ ObjectsAt(i)' = ObjectsAt(i)
              /\ \A u \in ObjectsAt(i), a \in Attr :
                   Condenses(a) => ValueAt(i, u, a)' = ValueAt(i, u, a)
<1>1. PICK u \in Held : MayGiveUp(u) /\ GiveUp(u)
  BY DEF Release
<1>2. u \in Uuid /\ UNCHANGED store
  BY <1>1 DEF GiveUp, TInv, TypeOK, Held
<1>3. /\ Depth \in Nat /\ Depth' = Depth
      /\ \A i \in Nat : CreatedDeeper(i)' = CreatedDeeper(i)
      /\ \A i \in Nat, v \in Uuid \ {u}, a \in Attr :
           Deeper(i, <<v, a>>)' = Deeper(i, <<v, a>>)
  BY <1>1, <1>2, GiveUpLevels DEF TInv
<1>4. Held' = Held \ {u} /\ \A v \in Held' : objectHash'[v] = objectHash[v]
  BY <1>1 DEF GiveUp, Restrict, Held
<1>5. ASSUME NEW i \in Nat, NEW a \in Attr
      PROVE  Deeper(i, <<u, a>>) = 0
  <2> DEFINE list == transactionList
             k == <<u, a>>
  <2>1. \A j \in DOMAIN list : list[j].changes[k] = 0
    <3>1. \A j \in DOMAIN list : ~Listed(list[j], u)
      BY <1>1 DEF MayGiveUp, SafeClient
    <3>2. \A j \in DOMAIN list : list[j].changes[k] \in Nat
      BY <1>2, ElementIsTransaction, ChangesAreCounts DEF TInv
    <3> QED
      BY <3>1, <3>2 DEF Listed
  <2>2. list \in Seq(Transaction) /\ k \in Cell
    BY <1>2 DEF TInv, TypeOK, Cell
  <2>3. DeeperIn(list, i, k) = 0
    <3> HIDE DEF list, k
    <3> QED
      BY <2>1, <2>2, DeeperOfNone
  <2> QED
    BY <2>3 DEF Deeper
<1>6. ASSUME NEW i \in 0 .. Depth
      PROVE  /\ ObjectsAt(i)' = ObjectsAt(i)
             /\ \A v \in ObjectsAt(i), a \in Attr :
                  Condenses(a) => ValueAt(i, v, a)' = ValueAt(i, v, a)
  <2>1. i \in Nat
    BY <1>3
  <2>2. ObjectsAt(i)' = ObjectsAt(i)
    BY <1>2, <1>3, <2>1 DEF ObjectsAt
  <2>3. ASSUME NEW v \in ObjectsAt(i), NEW a \in Attr, Condenses(a)
        PROVE  ValueAt(i, v, a)' = ValueAt(i, v, a)
    <3>1. v \in DOMAIN store /\ v \in Uuid
      BY DEF ObjectsAt, TInv, TypeOK
    <3>2. CASE v # u
      BY <1>2, <1>3, <1>4, <2>1, <3>1, <3>2 DEF ValueAt
    <3>3. CASE v = u
      <4>1. ValueAt(i, v, a)' = store[u][a]
        BY <1>2, <1>4, <3>3 DEF ValueAt
      <4>2. CASE objectHash[u][a] = << >>
        BY <3>3, <4>1, <4>2 DEF ValueAt
      <4>3. CASE objectHash[u][a] # << >>
        <5>1. Len(objectHash[u][a]) = 1
          <6>1. Deeper(0, <<u, a>>) = 0
            BY <1>5
          <6>2. Even(u, a)
            BY DEF ValuesAreSafe
          <6>3. Len(objectHash[u][a]) = Deeper(0, <<u, a>>) + 1
            BY <2>3, <4>3, <6>2 DEF Even
          <6> QED
            BY <6>1, <6>3
        <5>2. objectHash[u][a][1] = store[u][a]
          BY <3>1, <3>3, <4>3 DEF FirstIsStored
        <5>3. ValueAt(i, u, a) = objectHash[u][a][1 - 0]
          BY <1>5, <2>1, <4>3, <5>1 DEF ValueAt
        <5> QED
          BY <3>3, <4>1, <5>2, <5>3
      <4> QED
        BY <4>2, <4>3
    <3> QED
      BY <3>2, <3>3
  <2> QED
    BY <2>2, <2>3
<1> QED
  BY <1>3, <1>6

LEMMA CreateStores ==
  ASSUME TInv, TypeOK', StoreInv, CreateObject
  PROVE  /\ Depth \in Nat \ {0} /\ Depth' = Depth
         /\ \A i \in 0 .. Depth - 1 : StoreAt(i)' = StoreAt(i)
         /\ \E u \in Uuid \ DOMAIN Visible :
              \A n \in Nat : n = Depth => StoreAt(n)' = With(Visible, u, Blank)
<1>1. InTransaction
  BY DEF CreateObject, Create, InWriteTransaction
<1>2. PICK u \in Uuid \ usedUuids :
        /\ store' = With(store, u, Blank)
        /\ objectHash' = With(objectHash, u, NotLoaded)
        /\ transactionList' = WithCurrent([Current EXCEPT !.created = @ \cup {u}])
  BY DEF CreateObject, Create
<1> DEFINE t == [Current EXCEPT !.created = @ \cup {u}]
<1>3. /\ t \in Transaction /\ t.changes = Current.changes
      /\ t.created = Current.created \cup {u} /\ Current.created \subseteq t.created
  BY <1>1, CurrentIsTransaction DEF Transaction, TInv
<1>4. transactionList' = WithCurrent(t)
  BY <1>2
<1> HIDE DEF t
<1>5. /\ Depth \in Nat \ {0} /\ Depth' = Depth
      /\ \A i \in 0 .. Depth - 1 : CreatedDeeper(i)' = CreatedDeeper(i) \cup {u}
      /\ \A i \in 0 .. Depth - 1, v \in Uuid, a \in Attr :
           Deeper(i, <<v, a>>)' = Deeper(i, <<v, a>>)
  <2>1. /\ Depth \in Nat \ {0} /\ Depth' = Depth
        /\ \A i \in 0 .. Depth - 1 : CreatedDeeper(i)' = CreatedDeeper(i) \cup t.created
    BY <1>1, <1>3, <1>4, WithCurrentLevels DEF TInv
  <2>2. \A i \in 0 .. Depth - 1 : Current.created \subseteq CreatedDeeper(i)
    <3>1. Current = transactionList[Depth]
      BY <1>1, CurrentIsTransaction DEF Depth, TInv
    <3>2. \A i \in 0 .. Depth - 1 : Depth \in i + 1 .. Len(transactionList)
      BY <2>1 DEF Depth
    <3> QED
      BY <3>1, <3>2 DEF CreatedDeeper
  <2>3. \A i \in 0 .. Depth - 1, v \in Uuid, a \in Attr :
          Deeper(i, <<v, a>>)' = Deeper(i, <<v, a>>)
    BY <1>1, <1>3, <1>4, SameChangesLevels DEF TInv
  <2> QED
    BY <1>3, <2>1, <2>2, <2>3
<1>6. /\ u \notin DOMAIN store /\ u \notin Held /\ DOMAIN store \subseteq Uuid
      /\ DOMAIN store' = DOMAIN store \cup {u} /\ store'[u] = Blank
      /\ \A v \in DOMAIN store : store'[v] = store[v]
      /\ Held' = Held \cup {u} /\ objectHash'[u] = NotLoaded
      /\ \A v \in Held : objectHash'[v] = objectHash[v]
  BY <1>2 DEF StoreInv, NamesAreUsed, With, Held, TInv, TypeOK
<1>7. ASSUME NEW i \in 0 .. Depth - 1
      PROVE  StoreAt(i)' = StoreAt(i)
  <2>1. ObjectsAt(i)' = ObjectsAt(i)
    BY <1>5, <1>6 DEF ObjectsAt
  <2>2. ASSUME NEW v \in ObjectsAt(i), NEW a \in Attr
        PROVE  ValueAt(i, v, a)' = ValueAt(i, v, a)
    <3>1. v \in DOMAIN store /\ v \in Uuid /\ v # u
      BY <1>6 DEF ObjectsAt
    <3> QED
      BY <1>5, <1>6, <3>1 DEF ValueAt
  <2> QED
    BY <2>1, <2>2, SameLevel
<1>8. ASSUME NEW n \in Nat, n = Depth
      PROVE  StoreAt(n)' = With(Visible, u, Blank)
  <2>1. /\ ObjectsAt(n) = DOMAIN store /\ CreatedDeeper(n)' = {}
        /\ \A v \in Uuid, a \in Attr :
             Deeper(n, <<v, a>>)' = 0 /\ Deeper(n, <<v, a>>) = 0
    BY <1>5, <1>8, TopLevel, NewTop DEF TInv
  <2>2. ObjectsAt(n)' = DOMAIN store \cup {u}
    BY <1>6, <2>1 DEF ObjectsAt
  <2>3. DOMAIN Visible = DOMAIN store
    BY <1>8, <2>1 DEF Visible, StoreAt, ObjectsAt
  <2>4. ASSUME NEW v \in DOMAIN store, NEW a \in Attr
        PROVE  ValueAt(n, v, a)' = ValueAt(n, v, a)
    <3>1. v \in Uuid /\ v # u
      BY <1>6
    <3> QED
      BY <1>6, <2>1, <3>1 DEF ValueAt
  <2>5. \A a \in Attr : ValueAt(n, u, a)' = Blank[a]
    BY <1>6 DEF ValueAt, NotLoaded
  <2>6. Blank = [a \in Attr |-> Blank[a]]
    BY DEF Blank
  <2>7. \A v \in DOMAIN store : Visible[v] = [a \in Attr |-> ValueAt(n, v, a)]
    BY <1>8, <2>1 DEF Visible, StoreAt, ObjectsAt
  <2>8. StoreAt(n)' = [v \in DOMAIN store \cup {u} |-> [a \in Attr |-> ValueAt(n, v, a)']]
    BY <2>2 DEF StoreAt, ObjectsAt
  <2>9. ASSUME NEW v \in DOMAIN store \cup {u}
        PROVE  [a \in Attr |-> ValueAt(n, v, a)'] = IF v = u THEN Blank ELSE Visible[v]
    <3>1. CASE v = u
      BY <2>5, <2>6, <3>1
    <3>2. CASE v # u
      BY <2>4, <2>7, <3>2
    <3> QED
      BY <3>1, <3>2
  <2> QED
    BY <2>3, <2>8, <2>9 DEF With
<1>9. u \in Uuid \ DOMAIN Visible
  <2>1. DOMAIN Visible = DOMAIN store
    BY TopLevel DEF Visible, StoreAt, ObjectsAt, TInv
  <2> QED
    BY <1>6, <2>1
<1> QED
  BY <1>5, <1>7, <1>8, <1>9

(* What a client that sets a value does to the levels.                     *)
LEMMA PushedStores ==
  ASSUME TInv, TypeOK', EntriesBacked, InWriteTransaction,
         NEW u \in Held, NEW a \in Attr, NEW new \in Contents, new \in Content(a),
         u \in DOMAIN store, Pushed(u, a, new)
  PROVE  /\ Depth \in Nat \ {0} /\ Depth' = Depth
         /\ \A i \in 0 .. Depth - 1 : StoreAt(i)' = StoreAt(i)
         /\ \A n \in Nat : n = Depth =>
              StoreAt(n)' = [Visible EXCEPT ![u] = [@ EXCEPT ![a] = new]]
<1>1. InTransaction /\ u \in Uuid /\ Loadable(u)
  BY DEF InWriteTransaction, TInv, TypeOK, Held, Loadable
<1>2. /\ Loaded(u, a) \in Seq(Contents) /\ Loaded(u, a) # << >>
      /\ Held' = Held /\ UNCHANGED store
      /\ objectHash'[u][a] = Append(Loaded(u, a), new)
      /\ \A v \in Held, b \in Attr :
           v # u \/ b # a => objectHash'[v][b] = objectHash[v][b]
  BY <1>1, PushedElim
<1>3. /\ Depth \in Nat \ {0} /\ Depth' = Depth
      /\ \A i \in 0 .. Depth - 1 : CreatedDeeper(i)' = CreatedDeeper(i)
      /\ \A i \in 0 .. Depth - 1 :
           /\ Deeper(i, <<u, a>>)' = Deeper(i, <<u, a>>) + 1
           /\ \A v \in Uuid, b \in Attr :
                v # u \/ b # a => Deeper(i, <<v, b>>)' = Deeper(i, <<v, b>>)
  BY <1>1, PushedLevels DEF TInv
<1>4. DOMAIN store \subseteq Uuid
  BY DEF TInv, TypeOK
<1>5. ASSUME NEW i \in 0 .. Depth - 1
      PROVE  ValueAt(i, u, a)' = ValueAt(i, u, a)
  <2> DEFINE s == objectHash[u][a]
             l == Loaded(u, a)
             d == Deeper(i, <<u, a>>)
             m == Deeper(0, <<u, a>>)
  <2>1. /\ d \in Nat /\ m \in Nat /\ d <= m
    <3>1. i \in 0 .. Len(transactionList) /\ transactionList \in Seq(Transaction)
          /\ <<u, a>> \in Cell /\ i \in Nat
      BY <1>1, <1>3 DEF Cell, TInv, TypeOK, Depth
    <3>2. d <= m
      BY <3>1, DeeperIsLess DEF Deeper
    <3> QED
      BY <1>1, <3>1, <3>2, EntriesOfPair DEF TInv
  <2>2. m > 0 => Len(s) > m
    BY DEF EntriesBacked, Backed
  <2>3. /\ Len(l) > d /\ l[Len(l) - d] = ValueAt(i, u, a) /\ l \in Seq(Contents)
    <3>1. CASE s = << >>
      <4>1. m = 0 /\ d = 0
        <5>1. Len(s) = 0
          BY <3>1
        <5> HIDE DEF s, m, d
        <5> QED
          BY <2>1, <2>2, <5>1
      <4>2. l = <<store[u][a]>>
        BY <3>1 DEF Loaded
      <4>3. ValueAt(i, u, a) = store[u][a]
        BY <3>1 DEF ValueAt
      <4> HIDE DEF l, d, m
      <4> QED
        BY <1>2, <4>1, <4>2, <4>3 DEF l
    <3>2. CASE s # << >>
      <4>1. l = s
        BY <3>2 DEF Loaded
      <4>2. ValueAt(i, u, a) = s[Len(s) - d]
        BY <3>2 DEF ValueAt
      <4>3. Len(s) > d
        <5>1. Len(s) \in Nat \ {0}
          BY <1>2, <3>2, <4>1
        <5> HIDE DEF s, m, d
        <5> QED
          BY <2>1, <2>2, <5>1
      <4> QED
        BY <1>2, <4>1, <4>2, <4>3
    <3> QED
      BY <3>1, <3>2
  <2>4. /\ Append(l, new) # << >> /\ Append(l, new)[Len(Append(l, new)) - (d + 1)] = l[Len(l) - d]
    <3> HIDE DEF l, d
    <3>1. Len(Append(l, new)) = Len(l) + 1 /\ Len(l) \in Nat /\ Len(l) - d \in 1 .. Len(l)
      BY <2>1, <2>3
    <3>2. Len(Append(l, new)) - (d + 1) = Len(l) - d
      BY <2>1, <3>1
    <3> QED
      BY <2>3, <3>1, <3>2
  <2>5. ValueAt(i, u, a)' = Append(l, new)[Len(Append(l, new)) - (d + 1)]
    BY <1>2, <1>3, <2>4 DEF ValueAt
  <2> QED
    BY <2>3, <2>4, <2>5
<1>6. ASSUME NEW i \in 0 .. Depth - 1
      PROVE  StoreAt(i)' = StoreAt(i)
  <2>1. ObjectsAt(i)' = ObjectsAt(i) /\ ObjectsAt(i) \subseteq Uuid
    BY <1>2, <1>3, <1>4 DEF ObjectsAt
  <2>2. ASSUME NEW v \in ObjectsAt(i), NEW b \in Attr
        PROVE  ValueAt(i, v, b)' = ValueAt(i, v, b)
    <3>1. CASE v = u /\ b = a
      BY <1>5, <3>1
    <3>2. CASE v # u \/ b # a
      BY <1>2, <1>3, <2>1, <3>2 DEF ValueAt
    <3> QED
      BY <3>1, <3>2
  <2> QED
    BY <2>1, <2>2, SameLevel
<1>7. ASSUME NEW n \in Nat, n = Depth
      PROVE  StoreAt(n)' = [Visible EXCEPT ![u] = [@ EXCEPT ![a] = new]]
  <2>1. /\ ObjectsAt(n) = DOMAIN store /\ CreatedDeeper(n)' = {}
        /\ \A v \in Uuid, b \in Attr :
             Deeper(n, <<v, b>>)' = 0 /\ Deeper(n, <<v, b>>) = 0
    BY <1>3, <1>7, TopLevel, NewTop DEF TInv
  <2>2. ObjectsAt(n)' = DOMAIN store
    BY <1>2, <2>1 DEF ObjectsAt
  <2>3. ValueAt(n, u, a)' = new
    <3> DEFINE l == Loaded(u, a)
               longer == Append(l, new)
    <3>1. longer # << >> /\ longer[Len(longer) - 0] = new
      <4> HIDE DEF l
      <4>1. longer # << >> /\ Len(longer) = Len(l) + 1 /\ Len(l) \in Nat
            /\ longer[Len(l) + 1] = new
        BY <1>2 DEF l
      <4>2. Len(longer) - 0 = Len(l) + 1
        BY <4>1
      <4> QED
        BY <4>1, <4>2
    <3>2. objectHash'[u][a] = longer /\ Deeper(n, <<u, a>>)' = 0
      BY <1>1, <1>2, <2>1
    <3> HIDE DEF longer
    <3> QED
      BY <1>2, <3>1, <3>2 DEF ValueAt
  <2>4. ASSUME NEW v \in DOMAIN store, NEW b \in Attr, v # u \/ b # a
        PROVE  ValueAt(n, v, b)' = ValueAt(n, v, b)
    BY <1>2, <1>4, <2>1, <2>4 DEF ValueAt
  <2>5. Visible = [v \in DOMAIN store |-> [b \in Attr |-> ValueAt(n, v, b)]]
    BY <1>7, <2>1 DEF Visible, StoreAt, ObjectsAt
  <2>6. StoreAt(n)' = [v \in DOMAIN store |-> [b \in Attr |-> ValueAt(n, v, b)']]
    BY <2>2 DEF StoreAt, ObjectsAt
  <2> DEFINE next == [v \in DOMAIN store |-> [b \in Attr |-> ValueAt(n, v, b)']]
             level == [v \in DOMAIN store |-> [b \in Attr |-> ValueAt(n, v, b)]]
  <2>7. next = [level EXCEPT ![u] = [@ EXCEPT ![a] = new]]
    <3>1. next[u] = [level[u] EXCEPT ![a] = new]
      BY <2>3, <2>4
    <3>2. \A v \in DOMAIN store : v # u => next[v] = level[v]
      BY <2>4
    <3>3. next = [v \in DOMAIN store |-> IF v = u THEN [level[u] EXCEPT ![a] = new] ELSE level[v]]
      <4>1. \A v \in DOMAIN store :
               next[v] = IF v = u THEN [level[u] EXCEPT ![a] = new] ELSE level[v]
        BY <3>1, <3>2
      <4>2. next = [v \in DOMAIN store |-> next[v]]
        OBVIOUS
      <4> HIDE DEF next, level
      <4> QED
        BY <4>1, <4>2
    <3>4. level = [v \in DOMAIN store |-> level[v]]
      OBVIOUS
    <3> HIDE DEF next, level
    <3> QED
      BY <3>3, <3>4
  <2> HIDE DEF next, level
  <2> QED
    BY <2>5, <2>6, <2>7 DEF next, level
<1> QED
  BY <1>3, <1>6, <1>7

--------------------------------------------------------------------------------
(* Nothing goes wrong: the calls that may die do not.                      *)

(* What a client reads is the last value of an attribute, loaded or not.   *)
LEMMA LastIsVisible ==
  ASSUME TInv, NEW u \in Held, u \in DOMAIN store, NEW a \in Attr
  PROVE  /\ Loaded(u, a) \in Seq(Contents) /\ Loaded(u, a) # << >>
         /\ u \in DOMAIN Visible /\ DOMAIN Visible = DOMAIN store
         /\ Visible[u][a] = Last(Loaded(u, a))
<1> DEFINE n == Depth
           s == objectHash[u][a]
<1>1. u \in Uuid /\ Loadable(u)
  BY DEF TInv, TypeOK, Held, Loadable
<1>2. n \in Nat /\ ObjectsAt(n) = DOMAIN store /\ Deeper(n, <<u, a>>) = 0
  BY <1>1, TopLevel DEF TInv
<1>3. DOMAIN Visible = DOMAIN store /\ Visible[u][a] = ValueAt(n, u, a)
  BY <1>2 DEF Visible, StoreAt, ObjectsAt
<1>4. Loaded(u, a) \in Seq(Contents) /\ Loaded(u, a) # << >>
  BY <1>1, LoadedIsSequence DEF TInv
<1>5. CASE s = << >>
  <2>1. Loaded(u, a) = <<store[u][a]>>
    BY <1>5 DEF Loaded
  <2>2. Last(Loaded(u, a)) = store[u][a]
    BY <2>1 DEF Last
  <2> QED
    BY <1>3, <1>4, <1>5, <2>2 DEF ValueAt
<1>6. CASE s # << >>
  <2>1. Loaded(u, a) = s
    BY <1>6 DEF Loaded
  <2>2. Len(s) - 0 = Len(s)
    BY <1>4, <2>1
  <2>3. ValueAt(n, u, a) = s[Len(s) - 0]
    BY <1>2, <1>6 DEF ValueAt
  <2>4. Last(Loaded(u, a)) = s[Len(s)]
    BY <2>1 DEF Last
  <2> HIDE DEF s
  <2> QED
    BY <1>3, <1>4, <2>2, <2>3, <2>4
<1> QED
  BY <1>5, <1>6

LEMMA VisibleResolves ==
  ASSUME TypeOK, LevelsResolve
  PROVE  \A u \in DOMAIN Visible, a \in PointerAttr :
           Visible[u][a] \in DOMAIN Visible \cup {Null}
<1>1. Depth \in 0 .. Depth
  BY TopLevel
<1> QED
  BY <1>1 DEF LevelsResolve, Resolves, Visible

(* A value that is set: the pointers that are replaced and set resolve.    *)
LEMMA SafeSet ==
  ASSUME SafeClient, TInv, LevelsResolve, SetAttributeValue
  PROVE  /\ InWriteTransaction
         /\ \E u \in Held, a \in Attr, new \in Contents :
              /\ u \in DOMAIN store /\ new \in Content(a)
              /\ MaySet(u, a, new)
              /\ Pushed(u, a, new)
              /\ a \in PointerAttr => new \in DOMAIN store \cup {Null}
<1>1. PICK u \in Uuid, a \in Attr, new \in Contents : Set(u, a, new)
  BY DEF SetAttributeValue
<1>2. /\ InWriteTransaction /\ MaySet(u, a, new) /\ new \in Content(a)
      /\ u \in Held /\ u \in DOMAIN store
  BY <1>1 DEF Set, MaySet, MayUse, SafeClient
<1>3. a \in PointerAttr => new = Null \/ (new \in Held /\ new \in DOMAIN store)
  BY <1>2 DEF MaySet, MayUse, SafeClient
<1>4. a \in PointerAttr => Last(Loaded(u, a)) \in DOMAIN store \cup {Null}
  BY <1>2, LastIsVisible, VisibleResolves DEF TInv
<1>5. SetFault(u, a, new) = "none"
  BY <1>2, <1>3, <1>4 DEF SetFault, Loadable, ResolveFault, Unusable
<1>6. Pushed(u, a, new)
  BY <1>1, <1>5 DEF Set
<1> QED
  BY <1>2, <1>3, <1>6

(* Inside the outermost transaction, what it lists is in storage, and the  *)
(* last values of pointers are not refused.                                *)
LEMMA WrittenAreSafe ==
  ASSUME TInv, ListsAreSafe, LevelsResolve, Len(transactionList) = 1,
         NEW u, NEW a, <<u, a>> \in Written
  PROVE  /\ u \in Held /\ u \in Uuid /\ a \in Attr /\ u \in DOMAIN store
         /\ objectHash[u][a] \in Seq(Contents) /\ Len(objectHash[u][a]) > 1
         /\ LastValue(<<u, a>>) = Visible[u][a]
         /\ Condenses(a) => ~Refused(<<u, a>>)
<1>1. /\ InTransaction /\ Depth = 1 /\ Current = transactionList[1]
      /\ 1 \in DOMAIN transactionList
  BY OneIsInTransaction, CurrentIsTransaction, ListDomain DEF TInv
<1>2. u \in Uuid /\ a \in Attr /\ Current.changes[<<u, a>>] > 0
  BY DEF Written, Cell
<1>3. u \in ObjectsAt(1)
  BY <1>1, <1>2 DEF ListsAreSafe, EntriesAreStored
<1>4. u \in DOMAIN store
  BY <1>3 DEF ObjectsAt
<1>5. u \in Held
  BY <1>1, <1>2 DEF TInv, ListedAreHeld
<1>6. Len(objectHash[u][a]) > 1
  BY DEF Written
<1>7. objectHash[u][a] \in Seq(Contents) /\ objectHash[u][a] # << >>
  <2>1. Len(<< >>) = 0
    OBVIOUS
  <2> QED
    BY <1>2, <1>5, <1>6, <2>1 DEF TInv, TypeOK, Held
<1>8. LastValue(<<u, a>>) = Visible[u][a]
  BY <1>2, <1>4, <1>5, <1>7, LastIsVisible DEF LastValue, Loaded
<1>9. a \in PointerAttr => LastValue(<<u, a>>) \in DOMAIN store \cup {Null}
  BY <1>2, <1>4, <1>5, <1>8, LastIsVisible, VisibleResolves DEF TInv
<1> QED
  BY <1>2, <1>4, <1>5, <1>6, <1>7, <1>8, <1>9 DEF Refused, Condenses

--------------------------------------------------------------------------------
(* The values of attributes are as many as their entries, and one.         *)

LEMMA EvenStays ==
  ASSUME NEW u, NEW a, Even(u, a), objectHash'[u][a] = objectHash[u][a],
         Deeper(0, <<u, a>>)' = Deeper(0, <<u, a>>)
  PROVE  Even(u, a)'
BY DEF Even

LEMMA SameEven ==
  ASSUME TInv, ValuesAreSafe, UNCHANGED objectHash,
         \A u \in Uuid, a \in Attr : Deeper(0, <<u, a>>)' = Deeper(0, <<u, a>>)
  PROVE  ValuesAreSafe'
<1>1. Held' = Held /\ Held \subseteq Uuid
  BY DEF Held, TInv, TypeOK
<1> QED
  BY <1>1, EvenStays DEF ValuesAreSafe

LEMMA BeginEven ==
  ASSUME TInv, ValuesAreSafe, BeginTransaction
  PROVE  ValuesAreSafe'
<1>1. UNCHANGED objectHash
  BY DEF BeginTransaction, Begin
<1>2. \A u \in Uuid, a \in Attr : Deeper(0, <<u, a>>)' = Deeper(0, <<u, a>>)
  <2>1. 0 \in 0 .. Depth
    BY TopLevel DEF TInv
  <2> QED
    BY <2>1, BeginLevels DEF TInv, Cell
<1> QED
  BY <1>1, <1>2, SameEven

LEMMA CommitNestedEven ==
  ASSUME TInv, ValuesAreSafe, CommitNested
  PROVE  ValuesAreSafe'
<1>1. UNCHANGED objectHash
  BY DEF CommitNested
<1>2. \A u \in Uuid, a \in Attr : Deeper(0, <<u, a>>)' = Deeper(0, <<u, a>>)
  <2>1. 0 \in 0 .. Depth - 2
    BY CommitNestedLevels DEF TInv
  <2> QED
    BY <2>1, CommitNestedLevels DEF TInv, Cell
<1> QED
  BY <1>1, <1>2, SameEven

LEMMA CommitFinalEven ==
  ASSUME TInv, TypeOK', ListsAreSafe, ValuesAreSafe, LevelsResolve, CommitFinal
  PROVE  ValuesAreSafe'
<1> DEFINE done == {k \in Written : ~Refused(k)}
<1>1. /\ Len(transactionList) = 1
      /\ objectHash' = [u \in DOMAIN objectHash |->
                         [a \in Attr |-> IF <<u, a>> \in done
                                         THEN Condensed(objectHash[u][a])
                                         ELSE objectHash[u][a]]]
      /\ transactionList' = << >>
  BY DEF CommitFinal
<1>2. Depth' = 0
  BY <1>1 DEF Depth
<1>3. Held' = Held /\ Held \subseteq Uuid
  BY <1>1 DEF Held, TInv, TypeOK
<1> SUFFICES ASSUME NEW u \in Held, NEW a \in Attr
             PROVE  Even(u, a)'
  BY <1>3 DEF ValuesAreSafe
<1>4. Deeper(0, <<u, a>>)' = 0
  BY <1>2, <1>3, NewTop
<1>5. SUFFICES ASSUME Condenses(a), objectHash'[u][a] # << >>
               PROVE  Len(objectHash'[u][a]) = 1
  <2> SUFFICES ASSUME Condenses(a) /\ objectHash'[u][a] # << >> =>
                        Len(objectHash'[u][a]) = 1
               PROVE  Even(u, a)'
    OBVIOUS
  <2>1. Deeper(0, <<u, a>>)' <= 1 /\ Deeper(0, <<u, a>>)' + 1 = 1
    BY <1>4
  <2> QED
    BY <2>1 DEF Even
<1>6. CASE <<u, a>> \in done
  <2>1. objectHash'[u][a] = <<Last(objectHash[u][a])>>
    BY <1>1, <1>6 DEF Condensed, Held
  <2> QED
    BY <2>1
<1>7. CASE <<u, a>> \notin done
  <2> DEFINE s == objectHash[u][a]
  <2>1. objectHash'[u][a] = s
    BY <1>1, <1>7 DEF Held
  <2>2. <<u, a>> \notin Written
    BY <1>1, <1>5, <1>7, WrittenAreSafe
  <2>3. s \in Seq(Contents) /\ Len(s) \in Nat /\ Len(s) # 0
    <3>1. s \in Seq(Contents)
      BY DEF TInv, TypeOK, Held
    <3> QED
      BY <1>5, <2>1, <3>1
  <2>4. Deeper(0, <<u, a>>) = Current.changes[<<u, a>>] /\ Current.changes[<<u, a>>] \in Nat
    BY <1>1, <1>3, OneLevel, EntriesOfPair DEF TInv
  <2>5. Len(s) = Deeper(0, <<u, a>>) + 1
    BY <1>5, <2>1 DEF ValuesAreSafe, Even
  <2>6. ~(Current.changes[<<u, a>>] > 0 /\ Len(s) > 1)
    BY <1>3, <2>2 DEF Written, Cell
  <2>7. Len(s) = 1
    <3> HIDE DEF s
    <3> QED
      BY <2>3, <2>4, <2>5, <2>6
  <2> QED
    BY <2>1, <2>7
<1> QED
  BY <1>6, <1>7

LEMMA AbortEven ==
  ASSUME TInv, ValuesAreSafe, EntriesBacked, AbortTransaction
  PROVE  ValuesAreSafe'
<1>1. Held' = Held /\ Held \subseteq Uuid
  BY DEF Held, TInv, TypeOK, AbortTransaction
<1> SUFFICES ASSUME NEW u \in Held, NEW a \in Attr
             PROVE  Even(u, a)'
  BY <1>1 DEF ValuesAreSafe
<1> DEFINE s == objectHash[u][a]
           n == Current.changes[<<u, a>>]
           d == Deeper(0, <<u, a>>)'
           m == Deeper(0, <<u, a>>)
<1>2. /\ n \in Nat /\ d \in Nat /\ m = n + d
  <2> DEFINE k == <<u, a>>
  <2>1. k \in Cell /\ 0 \in 0 .. Depth - 1
    BY <1>1, AbortLevels DEF Cell, TInv
  <2> HIDE DEF k
  <2>2. Current.changes[k] \in Nat /\ Deeper(0, k)' \in Nat
        /\ Deeper(0, k) = Current.changes[k] + Deeper(0, k)'
    BY <2>1, AbortLevels DEF TInv
  <2> QED
    BY <2>2 DEF k
<1>3. objectHash'[u][a] = Reverted(s, n) /\ s \in Seq(Contents)
  BY DEF AbortTransaction, TInv, TypeOK, Held
<1>4. m > 0 => Len(s) > m
  BY DEF EntriesBacked, Backed
<1>5. Even(u, a)
  BY DEF ValuesAreSafe
<1>6. a \in DictionaryAttr => d <= 1
  <2>1. a \in DictionaryAttr => m <= 1
    BY <1>5 DEF Even
  <2> HIDE DEF d, m, n
  <2> QED
    BY <1>2, <2>1
<1>7. ASSUME Condenses(a), objectHash'[u][a] # << >>
      PROVE  Len(objectHash'[u][a]) = d + 1
  <2>1. s # << >>
    <3> SUFFICES ASSUME s = << >> PROVE FALSE
      OBVIOUS
    <3>1. Len(s) = 0
      OBVIOUS
    <3>2. n = 0
      <4> HIDE DEF s, d, m, n
      <4> QED
        BY <1>2, <1>4, <3>1
    <3>3. Reverted(s, n) = << >>
      BY <3>2 DEF Reverted
    <3> QED
      BY <1>3, <1>7, <3>3
  <2>2. Len(s) = m + 1
    BY <1>5, <1>7, <2>1 DEF Even
  <2> HIDE DEF s, d, m, n
  <2>3. Len(s) - n = d + 1 /\ Len(s) - n \in 1 .. Len(s)
    BY <1>2, <1>3, <2>2
  <2> DEFINE l == Len(s) - n
  <2>4. Reverted(s, n) = SubSeq(s, 1, l)
    BY DEF Reverted
  <2>5. Len(SubSeq(s, 1, l)) = l
    BY <1>3, <2>3
  <2> QED
    BY <1>3, <2>3, <2>4, <2>5
<1> HIDE DEF d
<1>8. d = Deeper(0, <<u, a>>)'
  BY DEF d
<1> QED
  BY <1>6, <1>7, <1>8 DEF Even

(* An object comes into memory without values.                             *)
LEMMA ComesInEven ==
  ASSUME TInv, ValuesAreSafe, NEW u \in Uuid \ Held, objectHash' = With(objectHash, u, NotLoaded),
         \A v \in Uuid, a \in Attr : Deeper(0, <<v, a>>)' = Deeper(0, <<v, a>>)
  PROVE  ValuesAreSafe'
<1>1. /\ Held' = Held \cup {u} /\ Held \subseteq Uuid /\ objectHash'[u] = NotLoaded
      /\ \A v \in Held : objectHash'[v] = objectHash[v]
  BY DEF With, Held, TInv, TypeOK
<1>2. ASSUME NEW a \in Attr
      PROVE  Even(u, a)'
  <2>1. Deeper(0, <<u, a>>)' = 0
    BY UnheldHasNoEntries
  <2>2. objectHash'[u][a] = << >>
    BY <1>1 DEF NotLoaded
  <2> QED
    BY <2>1, <2>2 DEF Even
<1> QED
  BY <1>1, <1>2, EvenStays DEF ValuesAreSafe

LEMMA ObjectEven ==
  ASSUME TInv, ValuesAreSafe, Object
  PROVE  ValuesAreSafe'
<1>1. PICK u \in Uuid \ Held : Fetch(u)
  BY DEF Object
<1>2. \A v \in Uuid, a \in Attr : Deeper(0, <<v, a>>)' = Deeper(0, <<v, a>>)
  BY <1>1, SameEntries DEF Fetch, Dies, TInv
<1> QED
  BY <1>1, <1>2, ComesInEven, SameEven DEF Fetch, Dies

LEMMA CreateEven ==
  ASSUME TInv, StoreInv, ValuesAreSafe, CreateObject
  PROVE  ValuesAreSafe'
<1>1. InTransaction
  BY DEF CreateObject, Create, InWriteTransaction
<1>2. PICK u \in Uuid \ usedUuids :
        /\ objectHash' = With(objectHash, u, NotLoaded)
        /\ transactionList' = WithCurrent([Current EXCEPT !.created = @ \cup {u}])
  BY DEF CreateObject, Create
<1> DEFINE t == [Current EXCEPT !.created = @ \cup {u}]
<1>3. /\ t \in Transaction /\ t.changes = Current.changes
      /\ Current.created \subseteq t.created
  BY <1>1, CurrentIsTransaction DEF Transaction, TInv
<1> HIDE DEF t
<1>4. \A v \in Uuid, a \in Attr : Deeper(0, <<v, a>>)' = Deeper(0, <<v, a>>)
  <2>1. 0 \in 0 .. Depth - 1
    BY <1>1, CurrentIsTransaction DEF TInv
  <2> QED
    BY <1>1, <1>2, <1>3, <2>1, SameChangesLevels DEF TInv, t
<1>5. u \notin Held
  BY DEF StoreInv, NamesAreUsed
<1> QED
  BY <1>2, <1>4, <1>5, ComesInEven

LEMMA ReleaseEven ==
  ASSUME TInv, ValuesAreSafe, Release
  PROVE  ValuesAreSafe'
<1>1. PICK u \in Held : GiveUp(u)
  BY DEF Release
<1>2. Held' = Held \ {u} /\ Held \subseteq Uuid /\ \A v \in Held' : objectHash'[v] = objectHash[v]
  BY <1>1 DEF GiveUp, Restrict, Held, TInv, TypeOK
<1>3. \A v \in Uuid \ {u}, a \in Attr : Deeper(0, <<v, a>>)' = Deeper(0, <<v, a>>)
  BY <1>1, <1>2, GiveUpLevels DEF TInv
<1> QED
  BY <1>2, <1>3, EvenStays DEF ValuesAreSafe

LEMMA GetEven ==
  ASSUME TInv, EntriesBacked, ValuesAreSafe, GetAttributeValue
  PROVE  ValuesAreSafe'
<1>1. PICK u \in Uuid, a \in Attr :
        /\ u \in Held /\ objectHash[u][a] = << >>
        /\ IF Loadable(u)
           THEN objectHash' = [objectHash EXCEPT ![u][a] = Loaded(u, a)]
           ELSE UNCHANGED objectHash
  BY DEF GetAttributeValue, Get, MayUse, Dies
<1>2. UNCHANGED transactionList
  BY DEF GetAttributeValue, Get, Dies
<1>3. \A v \in Uuid, b \in Attr : Deeper(0, <<v, b>>)' = Deeper(0, <<v, b>>)
  BY <1>2, SameEntries DEF TInv
<1>4. CASE Loadable(u)
  <2>1. /\ Held' = Held /\ Held \subseteq Uuid /\ objectHash'[u][a] = Loaded(u, a)
        /\ \A v \in Held, b \in Attr :
             v # u \/ b # a => objectHash'[v][b] = objectHash[v][b]
    <3>1. Loaded(u, a) \in Seq(Contents)
      BY <1>1, <1>4, LoadedIsSequence DEF TInv
    <3> QED
      BY <1>1, <1>4, <3>1, ChangedValuesType DEF TInv, TypeOK, Held
  <2>2. Even(u, a)'
    <3>1. Deeper(0, <<u, a>>)' = 0
      <4>1. Deeper(0, <<u, a>>) \in Nat /\ Len(objectHash[u][a]) = 0
        BY <1>1, EntriesOfPair DEF TInv
      <4>2. Deeper(0, <<u, a>>) > 0 => Len(objectHash[u][a]) > Deeper(0, <<u, a>>)
        BY <1>1 DEF EntriesBacked, Backed
      <4>3. Deeper(0, <<u, a>>) = 0
        BY <4>1, <4>2
      <4> QED
        BY <1>3, <4>3
    <3>2. objectHash'[u][a] = <<store[u][a]>>
      BY <1>1, <2>1 DEF Loaded
    <3>3. Len(objectHash'[u][a]) = 1
      BY <3>2
    <3> QED
      BY <3>1, <3>3 DEF Even
  <2> QED
    BY <1>3, <2>1, <2>2, EvenStays DEF ValuesAreSafe
<1>5. CASE ~Loadable(u)
  BY <1>1, <1>3, <1>5, SameEven
<1> QED
  BY <1>4, <1>5

LEMMA SetEven ==
  ASSUME SafeClient, TInv, EntriesBacked, ValuesAreSafe, LevelsResolve, SetAttributeValue
  PROVE  ValuesAreSafe'
<1>1. /\ InWriteTransaction /\ InTransaction
  BY SafeSet DEF InWriteTransaction
<1>2. PICK u \in Held, a \in Attr, new \in Contents :
        /\ u \in DOMAIN store /\ new \in Content(a)
        /\ MaySet(u, a, new)
        /\ Pushed(u, a, new)
  BY SafeSet
<1> DEFINE l == Loaded(u, a)
           m == Deeper(0, <<u, a>>)
<1>3. /\ l \in Seq(Contents) /\ l # << >>
      /\ Held' = Held /\ Held \subseteq Uuid
      /\ objectHash'[u][a] = Append(l, new)
      /\ \A v \in Held, b \in Attr :
           v # u \/ b # a => objectHash'[v][b] = objectHash[v][b]
  BY <1>1, <1>2, PushedElim DEF TInv, TypeOK, Held, Loadable
<1>4. /\ Deeper(0, <<u, a>>)' = m + 1
      /\ \A v \in Uuid, b \in Attr :
           v # u \/ b # a => Deeper(0, <<v, b>>)' = Deeper(0, <<v, b>>)
  <2>1. 0 \in 0 .. Depth - 1
    BY <1>1, CurrentIsTransaction DEF TInv
  <2> QED
    BY <1>1, <1>2, <1>3, <2>1, PushedLevels DEF TInv
<1>5. m \in Nat
  BY <1>2, <1>3, EntriesOfPair DEF TInv
<1>6. m > 0 => Len(objectHash[u][a]) > m
  BY DEF EntriesBacked, Backed
<1>7. Even(u, a)
  BY DEF ValuesAreSafe
<1>8. a \in DictionaryAttr => m = 0
  <2>1. a \in DictionaryAttr => Len(objectHash[u][a]) <= 1
    BY <1>2 DEF MaySet, SafeClient
  <2>2. Len(objectHash[u][a]) \in Nat
    BY <1>2 DEF TInv, TypeOK, Held
  <2> HIDE DEF m
  <2> QED
    BY <1>5, <1>6, <2>1, <2>2
<1>9. ASSUME Condenses(a)
      PROVE  Len(l) = m + 1
  <2>1. CASE objectHash[u][a] = << >>
    <3>1. m = 0
      <4>1. Len(objectHash[u][a]) = 0
        BY <2>1
      <4> HIDE DEF m
      <4> QED
        BY <1>5, <1>6, <4>1
    <3>2. l = <<store[u][a]>>
      BY <2>1 DEF Loaded
    <3>3. Len(l) = 1
      BY <3>2
    <3> QED
      BY <3>1, <3>3
  <2>2. CASE objectHash[u][a] # << >>
    <3>1. l = objectHash[u][a]
      BY <2>2 DEF Loaded
    <3> QED
      BY <1>7, <1>9, <2>2, <3>1 DEF Even
  <2> QED
    BY <2>1, <2>2
<1>10. Len(Append(l, new)) = Len(l) + 1
  BY <1>3
<1>11. Even(u, a)'
  <2>1. a \in DictionaryAttr => Deeper(0, <<u, a>>)' <= 1
    BY <1>4, <1>8
  <2>2. Condenses(a) => Len(objectHash'[u][a]) = Deeper(0, <<u, a>>)' + 1
    BY <1>3, <1>4, <1>9, <1>10
  <2> QED
    BY <2>1, <2>2 DEF Even
<1> QED
  BY <1>3, <1>4, <1>11, EvenStays DEF ValuesAreSafe

LEMMA NextEven ==
  ASSUME SafeClient, TInv, TypeOK', StoreInv, EntriesBacked, ListsAreSafe, ValuesAreSafe,
         LevelsResolve, [Next]_vars
  PROVE  ValuesAreSafe'
<1>1. CASE UNCHANGED <<transactionList, objectHash>>
  BY <1>1, SameEven, SameEntries DEF TInv
<1>2. \/ UNCHANGED <<transactionList, objectHash>>
      \/ BeginTransaction \/ CommitNested \/ CommitFinal \/ AbortTransaction \/ Object
      \/ CreateObject \/ Release \/ GetAttributeValue \/ SetAttributeValue
  BY DEF Next, vars, CommitDies, AbortDies, GetCollectionValue, GetCollection,
         DeleteObject, SafeClient, SetCollectionValue, Close, Destroy, Dies
<1> QED
  BY <1>1, <1>2, BeginEven, CommitNestedEven, CommitFinalEven, AbortEven, ObjectEven,
     CreateEven, ReleaseEven, GetEven, SetEven

--------------------------------------------------------------------------------
(* Pointers resolve at every level, so also after any abort.               *)

LEMMA SameResolve ==
  ASSUME TInv, LevelsResolve, Depth' = Depth,
         \A i \in 0 .. Depth : StoreAt(i)' = StoreAt(i)
  PROVE  LevelsResolve'
BY DEF LevelsResolve, Resolves

(* The new innermost level resolves, and the levels around it are as they  *)
(* were.                                                                   *)
LEMMA TopResolves ==
  ASSUME TInv, TypeOK', LevelsResolve,
         \A i \in 0 .. Depth' - 1 : i \in 0 .. Depth /\ StoreAt(i)' = StoreAt(i),
         \A n \in Nat : n = Depth' => Resolves(StoreAt(n)')
  PROVE  LevelsResolve'
<1>1. Depth' \in Nat
  BY DEF TypeOK, Depth
<1>2. \A i \in 0 .. Depth' : i \in Nat /\ (i = Depth' \/ i \in 0 .. Depth' - 1)
  <2> DEFINE m == Depth'
  <2>1. m \in Nat
    BY <1>1
  <2> HIDE DEF m
  <2>2. \A i \in 0 .. m : i \in Nat /\ (i = m \/ i \in 0 .. m - 1)
    BY <2>1
  <2> QED
    BY <2>2 DEF m
<1>3. \A i \in 0 .. Depth' - 1 : Resolves(StoreAt(i))
  BY DEF LevelsResolve
<1> QED
  BY <1>2, <1>3 DEF LevelsResolve, Resolves

LEMMA CreateResolves ==
  ASSUME TInv, TypeOK', StoreInv, LevelsResolve, CreateObject
  PROVE  LevelsResolve'
<1>1. PICK u \in Uuid \ DOMAIN Visible :
        \A n \in Nat : n = Depth => StoreAt(n)' = With(Visible, u, Blank)
  BY CreateStores
<1>2. Depth' = Depth /\ Depth \in Nat \ {0}
      /\ \A i \in 0 .. Depth - 1 : StoreAt(i)' = StoreAt(i)
  BY CreateStores
<1> DEFINE level == With(Visible, u, Blank)
<1>3. Resolves(level)
  <2>1. \A a \in PointerAttr : Blank[a] = Null
    BY DEF Blank, Attr
  <2>2. /\ DOMAIN level = DOMAIN Visible \cup {u} /\ level[u] = Blank
        /\ \A v \in DOMAIN Visible : level[v] = Visible[v]
    BY DEF With
  <2>3. \A v \in DOMAIN Visible, a \in PointerAttr : Visible[v][a] \in DOMAIN Visible \cup {Null}
    BY VisibleResolves DEF TInv
  <2> HIDE DEF level
  <2> QED
    BY <2>1, <2>2, <2>3 DEF Resolves
<1>4. /\ \A n \in Nat : n = Depth' => StoreAt(n)' = level
      /\ \A i \in 0 .. Depth' - 1 : i \in 0 .. Depth /\ StoreAt(i)' = StoreAt(i)
  BY <1>1, <1>2
<1>5. \A n \in Nat : n = Depth' => Resolves(StoreAt(n)')
  BY <1>3, <1>4
<1> QED
  BY <1>4, <1>5, TopResolves

LEMMA SetResolves ==
  ASSUME SafeClient, TInv, TypeOK', EntriesBacked, LevelsResolve, SetAttributeValue
  PROVE  LevelsResolve'
<1>1. PICK u \in Held, a \in Attr, new \in Contents :
        /\ u \in DOMAIN store /\ new \in Content(a)
        /\ MaySet(u, a, new)
        /\ Pushed(u, a, new)
        /\ a \in PointerAttr => new \in DOMAIN store \cup {Null}
  BY SafeSet
<1> DEFINE level == [Visible EXCEPT ![u] = [@ EXCEPT ![a] = new]]
<1>2. /\ \A n \in Nat : n = Depth' => StoreAt(n)' = level
      /\ \A i \in 0 .. Depth' - 1 : i \in 0 .. Depth /\ StoreAt(i)' = StoreAt(i)
  BY <1>1, SafeSet, PushedStores
<1>3. Resolves(level)
  <2>1. \A v \in DOMAIN Visible, b \in PointerAttr : Visible[v][b] \in DOMAIN Visible \cup {Null}
    BY VisibleResolves DEF TInv
  <2>2. DOMAIN Visible = DOMAIN store
    BY <1>1, LastIsVisible
  <2>3. \A v \in DOMAIN Visible, b \in PointerAttr : level[v][b] \in {Visible[v][b], new}
        /\ (v # u \/ b # a => level[v][b] = Visible[v][b])
    <3>1. DOMAIN Visible[u] = Attr
      BY <1>1, <2>2 DEF Visible, StoreAt
    <3> QED
      BY <1>1, <2>2, <3>1
  <2>4. DOMAIN level = DOMAIN Visible
    OBVIOUS
  <2> HIDE DEF level
  <2> QED
    BY <1>1, <2>1, <2>2, <2>3, <2>4 DEF Resolves
<1>4. \A n \in Nat : n = Depth' => Resolves(StoreAt(n)')
  BY <1>2, <1>3
<1> QED
  BY <1>2, <1>4, TopResolves

LEMMA ReleaseResolves ==
  ASSUME SafeClient, TInv, ValuesAreSafe, FirstIsStored, LevelsResolve, Release
  PROVE  LevelsResolve'
<1>1. /\ Depth \in Nat /\ Depth' = Depth
      /\ \A i \in 0 .. Depth :
           /\ ObjectsAt(i)' = ObjectsAt(i)
           /\ \A u \in ObjectsAt(i), a \in Attr :
                Condenses(a) => ValueAt(i, u, a)' = ValueAt(i, u, a)
  BY ReleaseStores
<1>2. \A a \in PointerAttr : a \in Attr /\ Condenses(a)
  BY ConstantsAssumption DEF Attr, Condenses
<1> SUFFICES ASSUME NEW i \in 0 .. Depth
             PROVE  Resolves(StoreAt(i))'
  BY <1>1 DEF LevelsResolve
<1>3. DOMAIN StoreAt(i) = ObjectsAt(i) /\ DOMAIN StoreAt(i)' = ObjectsAt(i)
  BY <1>1 DEF StoreAt, ObjectsAt
<1>4. \A u \in ObjectsAt(i), a \in PointerAttr : StoreAt(i)'[u][a] = StoreAt(i)[u][a]
  <2>1. \A u \in ObjectsAt(i), a \in Attr : StoreAt(i)[u][a] = ValueAt(i, u, a)
    BY LevelHas
  <2>2. \A u \in ObjectsAt(i)', a \in Attr : StoreAt(i)'[u][a] = ValueAt(i, u, a)'
    BY DEF StoreAt, ObjectsAt
  <2> QED
    BY <1>1, <1>2, <2>1, <2>2
<1>5. Resolves(StoreAt(i))
  BY DEF LevelsResolve
<1> QED
  BY <1>3, <1>4, <1>5 DEF Resolves

LEMMA NextResolves ==
  ASSUME SafeClient, TInv, TypeOK', StoreInv, EntriesBacked, FirstIsStored, ListsAreSafe,
         ValuesAreSafe, LevelsResolve, [Next]_vars
  PROVE  LevelsResolve'
<1>1. Resolves(Visible) /\ Depth \in Nat
  BY VisibleResolves, TopLevel DEF Resolves, TInv
<1>2. CASE UNCHANGED <<store, objectHash, transactionList>>
  <2>1. Depth' = Depth /\ \A i \in 0 .. Depth : StoreAt(i)' = StoreAt(i)
    BY <1>2 DEF Depth, StoreAt, ValueAt, CreatedDeeper, Deeper, Held
  <2> QED
    BY <2>1, SameResolve
<1>3. CASE BeginTransaction
  <2>1. /\ \A n \in Nat : n = Depth' => StoreAt(n)' = Visible
        /\ \A i \in 0 .. Depth' - 1 : i \in 0 .. Depth /\ StoreAt(i)' = StoreAt(i)
    BY <1>3, BeginStores DEF TInv
  <2> QED
    BY <1>1, <2>1, TopResolves
<1>4. CASE CommitNested
  <2>1. /\ \A n \in Nat : n = Depth' => StoreAt(n)' = Visible
        /\ \A i \in 0 .. Depth' - 1 : i \in 0 .. Depth /\ StoreAt(i)' = StoreAt(i)
    BY <1>4, CommitNestedStores DEF TInv
  <2> QED
    BY <1>1, <2>1, TopResolves
<1>5. CASE CommitFinal
  <2>1. /\ \A n \in Nat : n = Depth' => StoreAt(n)' = Visible
        /\ \A i \in 0 .. Depth' - 1 : i \in 0 .. Depth /\ StoreAt(i)' = StoreAt(i)
    BY <1>5, CommitFinalStores
  <2> QED
    BY <1>1, <2>1, TopResolves
<1>6. CASE AbortTransaction
  <2>1. /\ Depth \in Nat \ {0} /\ Depth' = Depth - 1
        /\ \A i \in 0 .. Depth - 1 : StoreAt(i)' = StoreAt(i)
    BY <1>6, AbortStores
  <2> QED
    BY <2>1 DEF LevelsResolve, Resolves
<1>7. CASE Object \/ GetAttributeValue
  BY <1>7, ObjectStores, GetStores, SameResolve
<1>8. \/ UNCHANGED <<store, objectHash, transactionList>>
      \/ BeginTransaction \/ CommitNested \/ CommitFinal \/ AbortTransaction \/ Object
      \/ CreateObject \/ Release \/ GetAttributeValue \/ SetAttributeValue
  BY DEF Next, vars, CommitDies, AbortDies, GetCollectionValue, GetCollection,
         DeleteObject, SafeClient, SetCollectionValue, Close, Destroy, Dies
<1> QED
  BY <1>2, <1>3, <1>4, <1>5, <1>6, <1>7, <1>8, CreateResolves, SetResolves, ReleaseResolves

--------------------------------------------------------------------------------
(* No call dies.                                                           *)

(* What the storage of an object that is written had is a pointer that     *)
(* resolves: what level 0 has of it, or that of a new object.              *)
LEMMA CommitIsSafe ==
  ASSUME TInv, StoreInv, FirstIsStored, ListsAreSafe, ValuesAreSafe, LevelsResolve,
         Len(transactionList) = 1
  PROVE  CommitFault = "none"
<1>1. /\ InTransaction /\ Depth = 1 /\ Current = transactionList[1]
      /\ 1 \in DOMAIN transactionList
  BY OneIsInTransaction, CurrentIsTransaction, ListDomain DEF TInv
<1>2. ~Current.dangling /\ Current.deleted = {}
  BY <1>1 DEF ListsAreSafe, TransactionsAreSafe
<1>3. ASSUME NEW k \in Written
      PROVE  /\ k[1] \in DOMAIN store
             /\ k[2] \in PointerAttr => store[k[1]][k[2]] \in DOMAIN store \cup {Null}
             /\ k[2] \in DictionaryAttr => ~(Current.changes[k] > 1)
  <2>1. PICK u \in Uuid, a \in Attr : k = <<u, a>>
    BY DEF Written, Cell
  <2>2. u \in Held /\ u \in DOMAIN store
    BY <1>1, <2>1, WrittenAreSafe DEF CommitFinal
  <2>3. ASSUME a \in PointerAttr
        PROVE  store[u][a] \in DOMAIN store \cup {Null}
    <3>1. CASE u \in ObjectsAt(0)
      <4>1. ValueAt(0, u, a) = store[u][a]
        <5> DEFINE s == objectHash[u][a]
                   d == Deeper(0, <<u, a>>)
        <5>1. Condenses(a)
          BY <2>3, ConstantsAssumption DEF Condenses
        <5>2. d \in Nat
          BY <2>1, EntriesOfPair DEF TInv
        <5>3. s # << >> => Len(s) = d + 1 /\ s[1] = store[u][a]
          BY <2>1, <2>2, <5>1 DEF ValuesAreSafe, Even, FirstIsStored
        <5>4. ValueAt(0, u, a) = IF s = << >> THEN store[u][a] ELSE s[Len(s) - d]
          BY <2>2 DEF ValueAt
        <5> HIDE DEF s, d
        <5> QED
          BY <5>2, <5>3, <5>4
      <4>2. Resolves(StoreAt(0))
        BY <1>1 DEF LevelsResolve
      <4>3. DOMAIN StoreAt(0) = ObjectsAt(0) /\ StoreAt(0)[u][a] = ValueAt(0, u, a)
        BY <2>1, <3>1, LevelHas
      <4> QED
        BY <2>3, <3>1, <4>1, <4>2, <4>3 DEF Resolves, ObjectsAt
    <3>2. CASE u \notin ObjectsAt(0)
      <4>1. u \in CreatedDeeper(0)
        BY <2>2, <3>2 DEF ObjectsAt
      <4>2. HasCreated(transactionList, u)
        BY <1>1, <4>1 DEF CreatedDeeper, HasCreated
      <4>3. u \notin DOMAIN base
        BY <2>1, <4>2 DEF StoreInv, CreatedAreNew
      <4>4. store[u] = Blank
        BY <2>2, <4>3 DEF StoreInv, StoreWaits
      <4> QED
        BY <2>1, <2>3, <4>4 DEF Blank
    <3> QED
      BY <3>1, <3>2
  <2>4. ASSUME a \in DictionaryAttr
        PROVE  ~(Current.changes[k] > 1)
    <3>1. Deeper(0, <<u, a>>) <= 1
      BY <2>1, <2>2, <2>4 DEF ValuesAreSafe, Even
    <3>2. Deeper(0, <<u, a>>) = Current.changes[<<u, a>>]
      BY <1>1, <2>1, OneLevel DEF TInv
    <3>3. Deeper(0, <<u, a>>) \in Nat
      BY <2>1, EntriesOfPair DEF TInv
    <3> QED
      BY <2>1, <3>1, <3>2, <3>3
  <2> QED
    BY <2>1, <2>2, <2>3, <2>4
<1>4. ~CommitCrashes
  BY <1>3 DEF CommitCrashes
<1>5. ~CommitAsserts
  BY <1>2, <1>3 DEF CommitAsserts
<1> QED
  BY <1>2, <1>4, <1>5 DEF CommitFault

(* What the innermost transaction lists is among all entries.              *)
LEMMA LastIsDeeper ==
  ASSUME NEW list \in Seq(Transaction), NEW k \in Cell, list # << >>
  PROVE  /\ list[Len(list)].changes[k] \in Nat
         /\ DeeperIn(list, 0, k) \in Nat
         /\ list[Len(list)].changes[k] <= DeeperIn(list, 0, k)
<1> DEFINE m == Len(list) - 1
<1>1. Len(list) \in Nat /\ m \in Nat /\ m <= Len(list) /\ 0 < Len(list)
  OBVIOUS
<1>2. /\ list[Len(list)].changes[k] \in Nat
      /\ DeeperIn(list, 0, k) = list[Len(list)].changes[k] + EntriesIn(list, k, 0, m)
  BY <1>1, DeeperOfLast
<1>3. EntriesIn(list, k, 0, m) \in Nat
  <2> HIDE DEF m
  <2> QED
    BY <1>1, EntriesAreCounted
<1> QED
  BY <1>2, <1>3

LEMMA AbortIsSafe ==
  ASSUME TInv, EntriesBacked, ListsAreSafe, InTransaction
  PROVE  AbortFault = "none"
<1>1. /\ Depth \in Nat \ {0} /\ Current = transactionList[Depth] /\ Depth = Len(transactionList)
      /\ Depth \in DOMAIN transactionList
      /\ transactionList \in Seq(Transaction)
  BY CurrentIsTransaction, ListDomain DEF TInv, TypeOK, Depth
<1>2. ~Current.dangling /\ Current.created \subseteq DOMAIN store
  BY <1>1 DEF ListsAreSafe, TransactionsAreSafe
<1>3. ASSUME NEW k \in Cell, Current.changes[k] > 0
      PROVE  ~(Len(objectHash[k[1]][k[2]]) <= Current.changes[k])
  <2>1. PICK u \in Uuid, a \in Attr : k = <<u, a>>
    BY DEF Cell
  <2>2. u \in Held
    BY <1>1, <1>3, <2>1 DEF TInv, ListedAreHeld
  <2> DEFINE s == objectHash[u][a]
             n == Current.changes[<<u, a>>]
             m == Deeper(0, <<u, a>>)
  <2>3. m \in Nat /\ n \in Nat /\ n <= m
    <3> DEFINE list == transactionList
               c == <<u, a>>
    <3>1. list \in Seq(Transaction) /\ c \in Cell /\ list # << >>
      BY <1>1, <2>1 DEF Cell, InTransaction
    <3>2. n = list[Len(list)].changes[c] /\ m = DeeperIn(list, 0, c)
      BY <1>1 DEF Deeper
    <3> HIDE DEF list, c, m, n
    <3> QED
      BY <3>1, <3>2, LastIsDeeper
  <2>4. m > 0 => Len(s) > m
    BY <2>1, <2>2 DEF EntriesBacked, Backed
  <2>5. s \in Seq(Contents) /\ n > 0
    BY <1>3, <2>1, <2>2 DEF TInv, TypeOK, Held
  <2>6. Len(s) \in Nat /\ n > 0
    BY <2>5
  <2>7. ~(Len(s) <= n)
    <3> HIDE DEF s, m, n
    <3> QED
      BY <2>3, <2>4, <2>6
  <2> QED
    BY <2>1, <2>7
<1> QED
  BY <1>2, <1>3 DEF AbortFault

LEMMA NextNoFault ==
  ASSUME SafeClient, TInv, StoreInv, EntriesBacked, FirstIsStored, SafeInv, [Next]_vars
  PROVE  fault' \in {"none", "closed"}
<1>1. CASE UNCHANGED fault
  BY <1>1 DEF SafeInv
<1>2. CASE CommitDies
  BY <1>2, CommitIsSafe DEF CommitDies, SafeInv
<1>3. CASE AbortDies
  BY <1>3, AbortIsSafe DEF AbortDies, SafeInv
<1>4. CASE Object
  BY <1>4, <1>1 DEF Object, Fetch, SafeClient
<1>5. CASE GetAttributeValue
  BY <1>5, <1>1 DEF GetAttributeValue, Get, MayUse, Loadable, SafeClient
<1>6. CASE GetCollectionValue
  BY <1>6, <1>1 DEF GetCollectionValue, GetCollection, MayUse, Loadable, SafeClient
<1>7. CASE SetAttributeValue
  BY <1>7, <1>1, SafeSet DEF SafeInv, Pushed
<1>8. CASE Close
  BY <1>8 DEF Close, Destroy, Dies, SafeClient
<1>9. \/ UNCHANGED fault
      \/ CommitDies \/ AbortDies \/ Object \/ GetAttributeValue \/ GetCollectionValue
      \/ SetAttributeValue \/ Close
  BY DEF Next, vars, BeginTransaction, Begin, CommitNested, CommitFinal, AbortTransaction,
         CreateObject, Create, DeleteObject, Release, GiveUp, SetCollectionValue
<1> QED
  BY <1>1, <1>2, <1>3, <1>4, <1>5, <1>6, <1>7, <1>8, <1>9

(* All that the inductive step rests on.                                   *)
AllInv ==
  /\ TInv
  /\ StoreInv
  /\ FirstIsStored
  /\ EntriesBacked
  /\ SafeInv

LEMMA InitAllInv == Init => AllInv
<1> SUFFICES ASSUME Init PROVE AllInv
  OBVIOUS
<1>1. TInv /\ StoreInv
  BY InitTInv, InitStore
<1>2. Held = {} /\ transactionList = << >> /\ Depth = 0 /\ base = store
  BY DEF Init, Held, Depth
<1>3. FirstIsStored /\ EntriesBacked /\ ValuesAreSafe
  BY <1>2 DEF FirstIsStored, EntriesBacked, ValuesAreSafe
<1>4. ListsAreSafe
  BY <1>2 DEF ListsAreSafe, TransactionsAreSafe, CreatedOnce, EntriesAreStored
<1>5. Resolves(StoreAt(0))
  <2>1. DOMAIN StoreAt(0) = ObjectsAt(0) /\ ObjectsAt(0) \subseteq DOMAIN store
        /\ \A u \in ObjectsAt(0), a \in Attr : StoreAt(0)[u][a] = ValueAt(0, u, a)
    BY LevelHas DEF ObjectsAt
  <2>2. \A u \in ObjectsAt(0), a \in Attr : ValueAt(0, u, a) = Blank[a]
    BY <1>2, <2>1 DEF ValueAt, Init
  <2>3. \A a \in PointerAttr : a \in Attr /\ Blank[a] = Null
    BY DEF Blank, Attr
  <2> QED
    BY <2>1, <2>2, <2>3 DEF Resolves
<1>6. LevelsResolve
  BY <1>2, <1>5 DEF LevelsResolve
<1>7. fault \in {"none", "closed"}
  BY DEF Init
<1> QED
  BY <1>1, <1>3, <1>4, <1>6, <1>7 DEF AllInv, SafeInv

LEMMA NextAllInv ==
  ASSUME SafeClient, AllInv, [Next]_vars
  PROVE  AllInv'
<1>1. TInv /\ StoreInv /\ FirstIsStored /\ EntriesBacked /\ SafeInv
  BY DEF AllInv
<1>2. TInv' /\ TypeOK'
  BY <1>1, NextTInv DEF TInv
<1>3. StoreInv' /\ FirstIsStored' /\ EntriesBacked'
  BY <1>1, <1>2, NextStore, NextValues, NextBacked
<1>4. ListsAreSafe' /\ ValuesAreSafe' /\ LevelsResolve'
  BY <1>1, <1>2, NextLists, NextEven, NextResolves DEF SafeInv
<1>5. fault' \in {"none", "closed"}
  BY <1>1, NextNoFault
<1> QED
  BY <1>2, <1>3, <1>4, <1>5 DEF AllInv, SafeInv

LEMMA SafeCorrect ==
  ASSUME SafeClient
  PROVE  Spec => []AllInv
BY InitAllInv, NextAllInv, PTL DEF Spec

(* CoreProject.cpp:234-272, CoreAttribute.h:178-213: whatever the sets of  *)
(* objects, attributes, values and keys and however deep transactions go,  *)
(* a client that keeps to the calls that are always safe meets no failing  *)
(* assertion and no pointer to something that is gone.                     *)
THEOREM SafeClientsLive ==
  ASSUME SafeClient
  PROVE  Spec => []NeverDies
<1>1. AllInv => NeverDies
  BY DEF AllInv, SafeInv, NeverDies
<1> QED
  BY <1>1, SafeCorrect, PTL

(* CoreAttribute.cpp:86: a pointer that such a client reads leads to an    *)
(* object that is there, also after aborts that took objects away: it does *)
(* so at every level that an abort may go back to.                         *)
THEOREM PointersLead ==
  ASSUME SafeClient
  PROVE  Spec => []PointersResolve
<1>1. AllInv => PointersResolve
  <2> SUFFICES ASSUME AllInv PROVE PointersResolve
    OBVIOUS
  <2> QED
    BY VisibleResolves DEF AllInv, SafeInv, TInv, PointersResolve
<1> QED
  BY <1>1, SafeCorrect, PTL

--------------------------------------------------------------------------------
(* The project implements NestedTransactions.                              *)

(* Sequences given by their elements.                                      *)
IsList(s, n) == s = [i \in 1 .. n |-> s[i]]

LEMMA IsSequence ==
  ASSUME NEW n \in Nat, NEW s, IsList(s, n)
  PROVE  s \in Seq({s[i] : i \in 1 .. n}) /\ Len(s) = n
BY DEF IsList

LEMMA IsFront ==
  ASSUME NEW n \in Nat \ {0}, NEW s, IsList(s, n)
  PROVE  /\ Last(s) = s[n]
         /\ IsList(Front(s), n - 1)
         /\ \A i \in 1 .. n - 1 : Front(s)[i] = s[i]
<1> DEFINE S == {s[i] : i \in 1 .. n}
<1>1. s \in Seq(S) /\ Len(s) = n
  BY IsSequence
<1> HIDE DEF S
<1>2. s # << >>
  BY <1>1
<1>3. Front(s) \in Seq(S) /\ Len(Front(s)) = n - 1 /\ \A i \in 1 .. n - 1 : Front(s)[i] = s[i]
  BY <1>1, <1>2, FrontShortens
<1> DEFINE f == Front(s)
<1>4. f = [i \in 1 .. n - 1 |-> f[i]]
  <2>1. f \in Seq(S) /\ Len(f) = n - 1
    BY <1>3
  <2> HIDE DEF f
  <2> QED
    BY <2>1
<1> QED
  BY <1>1, <1>2, <1>3, <1>4, LastIsElement DEF IsList

LEMMA IsAppended ==
  ASSUME NEW n \in Nat, NEW s, IsList(s, n), NEW t, IsList(t, n + 1),
         \A i \in 1 .. n : t[i] = s[i]
  PROVE  t = Append(s, t[n + 1])
<1> DEFINE S == {s[i] : i \in 1 .. n} \cup {t[n + 1]}
           e == t[n + 1]
<1>1. s \in Seq(S) /\ Len(s) = n
  <2>1. s \in [1 .. n -> S]
    BY DEF IsList
  <2> HIDE DEF S
  <2> QED
    BY <2>1
<1>2. t \in Seq(S) /\ Len(t) = n + 1
  <2>1. n + 1 \in Nat /\ \A i \in 1 .. n + 1 : i = n + 1 \/ i \in 1 .. n
    OBVIOUS
  <2>2. t \in [1 .. n + 1 -> S]
    BY <2>1 DEF IsList
  <2> HIDE DEF S
  <2> QED
    BY <2>1, <2>2
<1>3. e \in S /\ t[n + 1] = e
  OBVIOUS
<1> HIDE DEF S, e
<1>4. Append(s, e) \in Seq(S) /\ Len(Append(s, e)) = n + 1
      /\ \A i \in 1 .. n + 1 : Append(s, e)[i] = t[i]
  BY <1>1, <1>3
<1>5. t = Append(s, e)
  BY <1>2, <1>4, SeqEqual
<1> QED
  BY <1>5 DEF e

(* What the levels become when one is added, taken away, or changed.       *)
LEMMA OneMore ==
  ASSUME NEW n \in Nat \ {0}, NEW s, IsList(s, n), NEW t, IsList(t, n + 1),
         \A i \in 1 .. n : t[i] = s[i], t[n + 1] = s[n]
  PROVE  t = Append(s, Last(s))
<1>1. t = Append(s, t[n + 1])
  BY IsAppended
<1>2. Last(s) = s[n]
  BY IsFront
<1> QED
  BY <1>1, <1>2

LEMMA OneLess ==
  ASSUME NEW n \in Nat \ {0}, NEW s, IsList(s, n), NEW t, IsList(t, n - 1),
         \A i \in 1 .. n - 1 : t[i] = s[i]
  PROVE  t = Front(s)
<1> DEFINE f == Front(s)
<1>1. IsList(f, n - 1) /\ \A i \in 1 .. n - 1 : f[i] = s[i]
  BY IsFront
<1> HIDE DEF f
<1>2. t = f
  BY <1>1 DEF IsList
<1> QED
  BY <1>2 DEF f

LEMMA LastReplaced ==
  ASSUME NEW n \in Nat \ {0}, NEW s, IsList(s, n), NEW t, IsList(t, n),
         \A i \in 1 .. n - 1 : t[i] = s[i]
  PROVE  t = Append(Front(s), t[n])
<1> DEFINE m == n - 1
           f == Front(s)
<1>1. /\ m \in Nat /\ m + 1 = n /\ IsList(f, m) /\ \A i \in 1 .. m : t[i] = f[i]
  BY IsFront
<1>2. IsList(t, m + 1)
  BY <1>1
<1> HIDE DEF m, f
<1>3. t = Append(f, t[m + 1])
  BY <1>1, <1>2, IsAppended
<1> QED
  BY <1>1, <1>3 DEF f

LEMMA LastTwoMerged ==
  ASSUME NEW n \in Nat, n > 1, NEW s, IsList(s, n), NEW t, IsList(t, n - 1),
         \A i \in 1 .. n - 2 : t[i] = s[i], t[n - 1] = s[n]
  PROVE  t = Append(Front(Front(s)), Last(s))
<1> DEFINE m == n - 1
           f == Front(s)
<1>1. n \in Nat \ {0} /\ m \in Nat \ {0} /\ IsList(t, m) /\ m - 1 = n - 2 /\ t[m] = s[n]
  OBVIOUS
<1>2. Last(s) = s[n] /\ IsList(f, m) /\ \A i \in 1 .. m : f[i] = s[i]
  BY <1>1, IsFront
<1>3. \A i \in 1 .. m - 1 : t[i] = f[i]
  BY <1>1, <1>2
<1> HIDE DEF m, f
<1>4. t = Append(Front(f), t[m])
  BY <1>1, <1>2, <1>3, LastReplaced
<1> QED
  BY <1>1, <1>2, <1>4 DEF f

Levels == [i \in 1 .. Depth + 1 |-> StoreAt(i - 1)]

(* The levels, and how those of two states compare.                        *)
LEMMA LevelsAre ==
  ASSUME TypeOK
  PROVE  /\ Depth + 1 \in Nat \ {0} /\ IsList(Levels, Depth + 1)
         /\ Levels[Depth + 1] = Visible /\ Last(Levels) = Visible
         /\ Len(Levels) = Depth + 1
<1>1. Depth + 1 \in Nat \ {0} /\ Depth \in Nat /\ Depth + 1 - 1 = Depth
  BY TopLevel
<1>2. IsList(Levels, Depth + 1) /\ Levels[Depth + 1] = Visible
  BY <1>1 DEF Levels, Visible, IsList
<1> QED
  BY <1>1, <1>2, IsFront, IsSequence

LEMMA LevelsNext ==
  ASSUME TypeOK, TypeOK', NEW d \in Nat, Depth' = d
  PROVE  /\ IsList(Levels', d + 1)
         /\ \A i \in 1 .. d + 1 : i - 1 \in 0 .. d /\ Levels'[i] = StoreAt(i - 1)'
         /\ \A i \in 1 .. Depth + 1 : i - 1 \in 0 .. Depth /\ Levels[i] = StoreAt(i - 1)
BY TopLevel DEF Levels, IsList

(* A call that leaves the levels as they are.                              *)
LEMMA StutterRefines ==
  ASSUME TInv, TypeOK', Depth' = Depth, \A i \in 0 .. Depth : StoreAt(i)' = StoreAt(i)
  PROVE  Levels' = Levels
<1>1. PICK d \in Nat : d = Depth
  BY TopLevel DEF TInv
<1>2. /\ IsList(Levels', d + 1) /\ IsList(Levels, d + 1)
      /\ \A i \in 1 .. d + 1 : Levels'[i] = Levels[i]
  BY <1>1, LevelsAre, LevelsNext DEF TInv
<1> QED
  BY <1>2 DEF IsList

LEMMA BeginRefines ==
  ASSUME TInv, TypeOK', BeginTransaction
  PROVE  Levels' = Append(Levels, Last(Levels))
<1>1. PICK n \in Nat \ {0} : n = Depth + 1
  BY TopLevel DEF TInv
<1>2. /\ IsList(Levels, n) /\ Levels[n] = Visible /\ Depth' = n
      /\ \A i \in 1 .. n : i - 1 \in 0 .. Depth /\ Levels[i] = StoreAt(i - 1)
      /\ \A i \in 0 .. Depth : StoreAt(i)' = StoreAt(i)
      /\ StoreAt(n)' = Visible
  BY <1>1, LevelsAre, LevelsNext, BeginStores DEF TInv
<1>3. /\ IsList(Levels', n + 1)
      /\ \A i \in 1 .. n + 1 : Levels'[i] = StoreAt(i - 1)'
  BY <1>2, LevelsNext DEF TInv
<1>4. \A i \in 1 .. n : Levels'[i] = Levels[i]
  BY <1>2, <1>3
<1>5. Levels'[n + 1] = Levels[n]
  <2>1. n + 1 \in 1 .. n + 1 /\ n + 1 - 1 = n
    OBVIOUS
  <2> QED
    BY <1>2, <1>3, <2>1
<1> DEFINE s == Levels
           t == Levels'
<1> HIDE DEF s, t
<1> QED
  BY <1>2, <1>3, <1>4, <1>5, OneMore DEF s, t

(* An inner commit, and the outermost.                                     *)
LEMMA CommitRefines ==
  ASSUME TInv, TypeOK', ListsAreSafe, CommitNested \/ CommitFinal
  PROVE  Len(Levels) > 1 /\ Levels' = Append(Front(Front(Levels)), Last(Levels))
<1>1. /\ Depth \in Nat /\ Depth > 0 /\ Depth' = Depth - 1
      /\ \A i \in 0 .. Depth - 2 : StoreAt(i)' = StoreAt(i)
      /\ \A m \in Nat : m = Depth' => StoreAt(m)' = Visible
  <2>1. CASE CommitNested
    BY <2>1, CommitNestedStores DEF TInv
  <2>2. CASE CommitFinal
    BY <2>2, CommitFinalStores
  <2> QED
    BY <2>1, <2>2
<1>2. PICK n \in Nat : n = Depth + 1
  BY <1>1
<1>3. PICK d \in Nat : d = Depth'
  BY <1>1
<1>4. n > 1 /\ d = n - 2 /\ d + 1 = n - 1 /\ StoreAt(d)' = Visible /\ n \in Nat \ {0}
  BY <1>1, <1>2, <1>3
<1>5. /\ IsList(Levels, n) /\ Levels[n] = Visible /\ Len(Levels) = n
      /\ \A i \in 1 .. n : Levels[i] = StoreAt(i - 1)
      /\ IsList(Levels', d + 1)
      /\ \A i \in 1 .. d + 1 : Levels'[i] = StoreAt(i - 1)'
  BY <1>2, <1>3, LevelsAre, LevelsNext DEF TInv
<1>6. \A i \in 1 .. n - 2 : Levels'[i] = Levels[i]
  <2>1. \A i \in 1 .. n - 2 : i \in 1 .. n /\ i \in 1 .. d + 1 /\ i - 1 \in 0 .. Depth - 2
    BY <1>1, <1>2, <1>4
  <2> QED
    BY <1>1, <1>5, <2>1
<1>7. Levels'[n - 1] = Levels[n]
  <2>1. d + 1 \in 1 .. d + 1 /\ d + 1 - 1 = d
    BY <1>4
  <2>2. Levels'[d + 1] = StoreAt(d)'
    BY <1>5, <2>1
  <2> QED
    BY <1>4, <1>5, <2>2
<1>8. IsList(Levels', n - 1)
  BY <1>4, <1>5
<1> DEFINE s == Levels
           t == Levels'
<1> HIDE DEF s, t
<1>9. t = Append(Front(Front(s)), Last(s))
  BY <1>4, <1>5, <1>6, <1>7, <1>8, LastTwoMerged DEF s, t
<1> QED
  BY <1>4, <1>5, <1>9 DEF s, t

LEMMA AbortRefines ==
  ASSUME TInv, TypeOK', StoreInv, ListsAreSafe, EntriesBacked, AbortTransaction
  PROVE  Len(Levels) > 1 /\ Levels' = Front(Levels)
<1>1. /\ Depth \in Nat \ {0} /\ Depth' = Depth - 1
      /\ \A i \in 0 .. Depth - 1 : StoreAt(i)' = StoreAt(i)
  BY AbortStores
<1>2. PICK n \in Nat \ {0} : n = Depth + 1
  BY <1>1
<1>3. PICK d \in Nat : d = Depth'
  BY <1>1
<1>4. n > 1 /\ d + 1 = n - 1
  BY <1>1, <1>2, <1>3
<1>5. /\ IsList(Levels, n) /\ Len(Levels) = n
      /\ \A i \in 1 .. n : Levels[i] = StoreAt(i - 1)
      /\ IsList(Levels', d + 1)
      /\ \A i \in 1 .. d + 1 : Levels'[i] = StoreAt(i - 1)'
  BY <1>2, <1>3, LevelsAre, LevelsNext DEF TInv
<1>6. \A i \in 1 .. n - 1 : Levels'[i] = Levels[i]
  <2>1. \A i \in 1 .. n - 1 : i \in 1 .. n /\ i \in 1 .. d + 1 /\ i - 1 \in 0 .. Depth - 1
    BY <1>1, <1>2, <1>4
  <2> QED
    BY <1>1, <1>5, <2>1
<1>7. IsList(Levels', n - 1)
  BY <1>4, <1>5
<1> DEFINE s == Levels
           t == Levels'
<1> HIDE DEF s, t
<1>8. t = Front(s)
  BY <1>5, <1>6, <1>7, OneLess DEF s, t
<1> QED
  BY <1>4, <1>5, <1>8 DEF s, t

(* A call that changes the innermost level only.                           *)
LEMMA TopRefines ==
  ASSUME TInv, TypeOK', Depth \in Nat \ {0}, Depth' = Depth,
         \A i \in 0 .. Depth - 1 : StoreAt(i)' = StoreAt(i),
         NEW level, \A m \in Nat : m = Depth => StoreAt(m)' = level
  PROVE  Len(Levels) > 1 /\ Levels' = Append(Front(Levels), level)
<1>1. PICK d \in Nat \ {0} : d = Depth
  OBVIOUS
<1>2. PICK n \in Nat \ {0} : n = d + 1
  OBVIOUS
<1>3. n > 1 /\ n - 1 = d
  BY <1>2
<1>4. /\ IsList(Levels, n) /\ Len(Levels) = n
      /\ \A i \in 1 .. n : Levels[i] = StoreAt(i - 1)
      /\ IsList(Levels', n)
      /\ \A i \in 1 .. n : Levels'[i] = StoreAt(i - 1)'
  BY <1>1, <1>2, LevelsAre, LevelsNext DEF TInv
<1>5. \A i \in 1 .. n - 1 : Levels'[i] = Levels[i]
  <2>1. \A i \in 1 .. n - 1 : i \in 1 .. n /\ i - 1 \in 0 .. Depth - 1
    BY <1>1, <1>2, <1>3
  <2> QED
    BY <1>4, <2>1
<1>6. Levels'[n] = level
  <2>1. n \in 1 .. n
    BY <1>2
  <2>2. StoreAt(d)' = level
    BY <1>1
  <2> QED
    BY <1>3, <1>4, <2>1, <2>2
<1> DEFINE s == Levels
           t == Levels'
<1> HIDE DEF s, t
<1>7. t = Append(Front(s), t[n])
  BY <1>4, <1>5, LastReplaced DEF s, t
<1> QED
  BY <1>3, <1>4, <1>6, <1>7 DEF s, t

(* The abstract specification takes its sequence operators from the same   *)
(* module.                                                                 *)
LEMMA SameOperators ==
  \A s : Nested!Last(s) = Last(s) /\ Nested!Front(s) = Front(s)
BY DEF Nested!Last, Last, Nested!Front, Front

LEMMA EditRefines ==
  ASSUME NEW level, level \in Nested!Created(Last(Levels)) \cup Nested!Changed(Last(Levels)),
         Len(Levels) > 1, Levels' = Append(Front(Levels), level)
  PROVE  Nested!Edit
<1>1. Nested!InTransaction
  BY DEF Nested!InTransaction, Levels
<1>2. Levels' \in {Append(Front(Levels), s) :
                     s \in Nested!Created(Last(Levels)) \cup Nested!Deleted(Last(Levels))
                             \cup Nested!Changed(Last(Levels))}
  OBVIOUS
<1> QED
  BY <1>1, <1>2, SameOperators DEF Nested!Edit, Levels

LEMMA InitRefines ==
  ASSUME Init
  PROVE  Nested!Init
<1>1. /\ TInv /\ Held = {} /\ transactionList = << >> /\ Depth = 0
      /\ store = [u \in {Root} |-> Blank]
  BY InitTInv DEF Init, Held, Depth
<1>2. StoreAt(0) = [u \in {Root} |-> Blank]
  <2>1. CreatedDeeper(0) = {}
    BY <1>1, TopLevel DEF TInv
  <2>2. StoreAt(0) = [u \in {Root} |-> [a \in Attr |-> Blank[a]]]
    BY <1>1, <2>1 DEF StoreAt, ValueAt
  <2>3. Blank = [a \in Attr |-> Blank[a]]
    BY DEF Blank
  <2> QED
    BY <2>2, <2>3
<1>3. Levels = <<[u \in {Root} |-> Blank]>>
  <2>1. IsList(Levels, 1) /\ Levels[1] = StoreAt(0)
    BY <1>1 DEF Levels, IsList
  <2> QED
    BY <1>2, <2>1 DEF IsList
<1> QED
  BY <1>3 DEF Nested!Init, Levels

LEMMA NextRefines ==
  ASSUME SafeClient, Malformed = {}, AllInv, AllInv', [Next]_vars
  PROVE  [Nested!Next]_Levels
<1>1. /\ TInv /\ TypeOK' /\ StoreInv /\ FirstIsStored /\ EntriesBacked
      /\ ListsAreSafe /\ ValuesAreSafe /\ LevelsResolve
  BY DEF AllInv, SafeInv, TInv
<1>2. CASE UNCHANGED <<store, objectHash, transactionList>>
  <2>1. Depth' = Depth /\ \A i \in 0 .. Depth : StoreAt(i)' = StoreAt(i)
    BY <1>2 DEF Depth, StoreAt, ValueAt, CreatedDeeper, Deeper, Held
  <2> QED
    BY <1>1, <2>1, StutterRefines
<1>3. CASE BeginTransaction
  <2>1. Levels' = Append(Levels, Last(Levels))
    BY <1>1, <1>3, BeginRefines
  <2> QED
    BY <2>1, SameOperators DEF Nested!Next, Nested!BeginTransaction, Levels
<1>4. CASE CommitNested \/ CommitFinal
  <2>1. Len(Levels) > 1 /\ Levels' = Append(Front(Front(Levels)), Last(Levels))
    BY <1>1, <1>4, CommitRefines
  <2> QED
    BY <2>1, SameOperators
       DEF Nested!Next, Nested!CommitTransaction, Nested!InTransaction, Levels
<1>5. CASE AbortTransaction
  <2>1. Len(Levels) > 1 /\ Levels' = Front(Levels)
    BY <1>1, <1>5, AbortRefines
  <2> QED
    BY <2>1, SameOperators
       DEF Nested!Next, Nested!AbortTransaction, Nested!InTransaction, Levels
<1>6. CASE CreateObject
  <2>1. PICK u \in Uuid \ DOMAIN Visible :
          \A n \in Nat : n = Depth => StoreAt(n)' = With(Visible, u, Blank)
    BY <1>1, <1>6, CreateStores
  <2>2. Len(Levels) > 1 /\ Levels' = Append(Front(Levels), With(Visible, u, Blank))
    BY <1>1, <1>6, <2>1, CreateStores, TopRefines
  <2>3. Last(Levels) = Visible
    BY <1>1, LevelsAre DEF TInv
  <2>4. With(Visible, u, Blank) \in Nested!Created(Last(Levels))
    BY <2>3 DEF Nested!Created, With
  <2> QED
    BY <2>2, <2>4, EditRefines DEF Nested!Next
<1>7. CASE SetAttributeValue
  <2>1. PICK u \in Held, a \in Attr, new \in Contents :
          /\ u \in DOMAIN store /\ new \in Content(a)
          /\ Pushed(u, a, new)
    BY <1>1, <1>7, SafeSet
  <2> DEFINE level == [Visible EXCEPT ![u] = [@ EXCEPT ![a] = new]]
  <2>2. Len(Levels) > 1 /\ Levels' = Append(Front(Levels), level)
    <3>1. /\ Depth \in Nat \ {0} /\ Depth' = Depth
          /\ \A i \in 0 .. Depth - 1 : StoreAt(i)' = StoreAt(i)
          /\ \A n \in Nat : n = Depth => StoreAt(n)' = level
      BY <1>1, <1>7, <2>1, SafeSet, PushedStores
    <3> HIDE DEF level
    <3> QED
      BY <1>1, <3>1, TopRefines
  <2>3. Last(Levels) = Visible /\ u \in DOMAIN Visible
    BY <1>1, <2>1, LevelsAre, LastIsVisible DEF TInv
  <2>4. level \in Nested!Changed(Last(Levels))
    BY <2>3 DEF Nested!Changed
  <2> QED
    BY <2>2, <2>4, EditRefines DEF Nested!Next
<1>8. CASE Release
  <2>1. /\ Depth' = Depth
        /\ \A i \in 0 .. Depth :
             /\ ObjectsAt(i)' = ObjectsAt(i)
             /\ \A u \in ObjectsAt(i), a \in Attr : ValueAt(i, u, a)' = ValueAt(i, u, a)
    BY <1>1, <1>8, ReleaseStores DEF Condenses
  <2>2. \A i \in 0 .. Depth : StoreAt(i)' = StoreAt(i)
    BY <2>1, SameLevel
  <2> QED
    BY <1>1, <2>1, <2>2, StutterRefines
<1>9. CASE Object \/ GetAttributeValue
  BY <1>1, <1>9, ObjectStores, GetStores, StutterRefines
<1>10. \/ UNCHANGED <<store, objectHash, transactionList>>
       \/ BeginTransaction \/ CommitNested \/ CommitFinal \/ AbortTransaction \/ Object
       \/ CreateObject \/ Release \/ GetAttributeValue \/ SetAttributeValue
  BY DEF Next, vars, CommitDies, AbortDies, GetCollectionValue, GetCollection,
         DeleteObject, SafeClient, SetCollectionValue, Close, Destroy, Dies
<1> QED
  BY <1>2, <1>3, <1>4, <1>5, <1>6, <1>7, <1>8, <1>9, <1>10

(* CoreProject.cpp:206-311: one storage transaction, one stack of values   *)
(* for each attribute and the lists of changes do, for begin, commit and   *)
(* abort at any depth, what copies of the whole project would do.          *)
THEOREM NestedIsImplemented ==
  ASSUME SafeClient, Malformed = {}
  PROVE  Spec => ImplementsNestedTransactions
<1>1. Init => Nested!Init
  BY InitRefines
<1>2. AllInv /\ AllInv' /\ [Next]_vars => [Nested!Next]_Levels
  BY NextRefines
<1>3. Spec => []AllInv
  BY SafeCorrect
<1> QED
  BY <1>1, <1>2, <1>3, PTL DEF Spec, ImplementsNestedTransactions, Nested!Spec, Levels

================================================================================

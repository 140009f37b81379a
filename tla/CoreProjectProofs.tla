--------------------------- MODULE CoreProjectProofs ---------------------------
(***************************************************************************)
(* Proofs about CoreProject, for every set of objects, attributes, values  *)
(* and keys, every depth of transactions and whatever clients do.          *)
(***************************************************************************)
EXTENDS CoreProject, SequenceTheorems, TLAPS

--------------------------------------------------------------------------------
(* Sequences: the innermost element, and those around it.                  *)

LEMMA LastIsElement ==
  ASSUME NEW S, NEW s \in Seq(S), s # << >>
  PROVE  /\ Len(s) \in Nat \ {0}
         /\ Last(s) = s[Len(s)]
         /\ Last(s) \in S
<1>1. Len(s) \in Nat \ {0}
  OBVIOUS
<1>2. s[Len(s)] \in S
  BY <1>1
<1> QED
  BY <1>1, <1>2 DEF Last

LEMMA FrontShortens ==
  ASSUME NEW S, NEW s \in Seq(S), s # << >>
  PROVE  /\ Front(s) \in Seq(S)
         /\ Len(Front(s)) = Len(s) - 1
         /\ \A i \in 1 .. Len(s) - 1 : Front(s)[i] = s[i]
<1> DEFINE n == Len(s) - 1
<1>1. n \in Nat /\ n <= Len(s)
  OBVIOUS
<1>2. Front(s) = SubSeq(s, 1, n)
  BY DEF Front
<1> HIDE DEF n
<1>3. /\ SubSeq(s, 1, n) \in Seq(S)
      /\ Len(SubSeq(s, 1, n)) = n
      /\ \A i \in 1 .. n : SubSeq(s, 1, n)[i] = s[i]
  BY <1>1
<1> QED
  BY <1>2, <1>3 DEF n

LEMMA ReplacedLast ==
  ASSUME NEW S, NEW s \in Seq(S), s # << >>, NEW t \in S
  PROVE  /\ [s EXCEPT ![Len(s)] = t] \in Seq(S)
         /\ Len([s EXCEPT ![Len(s)] = t]) = Len(s)
         /\ [s EXCEPT ![Len(s)] = t][Len(s)] = t
         /\ \A i \in 1 .. Len(s) - 1 : [s EXCEPT ![Len(s)] = t][i] = s[i]
BY LastIsElement

LEMMA PrefixIsSequence ==
  ASSUME NEW S, NEW s \in Seq(S), NEW n \in Nat
  PROVE  SubSeq(s, 1, Len(s) - n) \in Seq(S)
<1>1. CASE n <= Len(s)
  BY <1>1
<1>2. CASE n > Len(s)
  BY <1>2
<1> QED
  BY <1>1, <1>2

--------------------------------------------------------------------------------
(* Transactions.                                                           *)

LEMMA NewIsTransaction ==
  ASSUME NEW ro \in BOOLEAN
  PROVE  NewTransaction(ro) \in Transaction
BY DEF NewTransaction, Transaction

LEMMA MergedIsTransaction ==
  ASSUME NEW outer \in Transaction, NEW inner \in Transaction
  PROVE  /\ Merged(outer, inner) \in Transaction
         /\ Merged(outer, inner).readOnly = outer.readOnly
         /\ Merged(outer, inner).created = outer.created \cup inner.created
<1> DEFINE changes == [k \in Cell |-> outer.changes[k] + inner.changes[k]]
           dangling == outer.dangling \/ inner.dangling
<1>1. changes \in [Cell -> Nat]
  BY DEF Transaction
<1>2. dangling \in BOOLEAN
  OBVIOUS
<1>3. Merged(outer, inner) =
        [outer EXCEPT !.created = @ \cup inner.created, !.deleted = @ \cup inner.deleted,
                      !.changes = changes, !.dangling = dangling]
  BY DEF Merged
<1> HIDE DEF changes, dangling
<1> QED
  BY <1>1, <1>2, <1>3 DEF Transaction

LEMMA WithoutIsTransaction ==
  ASSUME NEW t \in Transaction, NEW u \in Uuid
  PROVE  /\ WithoutEntries(t, u) \in Transaction
         /\ WithoutEntries(t, u).readOnly = t.readOnly
         /\ WithoutEntries(t, u).created = t.created
<1>1. Listed(t, u) \in BOOLEAN
  BY DEF Listed
<1>2. [k \in Cell |-> IF k[1] = u THEN 0 ELSE t.changes[k]] \in [Cell -> Nat]
  BY DEF Transaction
<1> QED
  BY <1>1, <1>2 DEF WithoutEntries, Transaction

(* The innermost transaction and the list with it replaced.                *)
LEMMA CurrentIsTransaction ==
  ASSUME TypeOK, InTransaction
  PROVE  /\ Depth \in Nat \ {0}
         /\ Current = transactionList[Depth]
         /\ Current \in Transaction
BY LastIsElement DEF TypeOK, InTransaction, Current, Depth

LEMMA WithCurrentReplaces ==
  ASSUME TypeOK, InTransaction, NEW t \in Transaction
  PROVE  /\ WithCurrent(t) \in Seq(Transaction)
         /\ Len(WithCurrent(t)) = Depth
         /\ WithCurrent(t)[Depth] = t
         /\ \A i \in 1 .. Depth - 1 : WithCurrent(t)[i] = transactionList[i]
BY ReplacedLast DEF TypeOK, InTransaction, WithCurrent, Depth

(* The list after an inner commit.                                         *)
LEMMA CommitNestedMerges ==
  ASSUME TypeOK, CommitNested
  PROVE  /\ transactionList' \in Seq(Transaction)
         /\ Depth \in Nat /\ Depth > 1
         /\ Len(transactionList') = Depth - 1
         /\ transactionList'[Depth - 1] =
              Merged(transactionList[Depth - 1], transactionList[Depth])
         /\ \A i \in 1 .. Depth - 2 : transactionList'[i] = transactionList[i]
<1> DEFINE around == Front(transactionList)
           t == Merged(around[Len(around)], Current)
<1>1. Len(transactionList) \in Nat /\ Len(transactionList) > 1 /\ InTransaction
  BY DEF TypeOK, CommitNested, InTransaction
<1>2. /\ around \in Seq(Transaction)
      /\ Len(around) = Depth - 1
      /\ \A i \in 1 .. Depth - 1 : around[i] = transactionList[i]
  BY <1>1, FrontShortens DEF TypeOK, InTransaction, Depth
<1>3. around # << >> /\ around[Len(around)] = transactionList[Depth - 1]
  BY <1>1, <1>2 DEF Depth
<1>4. t \in Transaction
  BY <1>1, <1>2, <1>3, LastIsElement, MergedIsTransaction, CurrentIsTransaction
<1>5. transactionList' = [around EXCEPT ![Len(around)] = t]
  BY DEF CommitNested
<1> HIDE DEF around
<1>6. t = Merged(transactionList[Depth - 1], transactionList[Depth])
  BY <1>1, <1>3, CurrentIsTransaction
<1> HIDE DEF t
<1> QED
  BY <1>1, <1>2, <1>3, <1>4, <1>5, <1>6, ReplacedLast DEF Depth

(* Contents.                                                               *)
LEMMA BlankIsObject == Blank \in [Attr -> Contents]
<1>1. \A a \in Attr : Blank[a] \in Contents
  BY ConstantsAssumption DEF Blank, Contents
<1> QED
  BY <1>1 DEF Blank

LEMMA NotLoadedIsObject == NotLoaded \in [Attr -> Seq(Contents)]
BY DEF NotLoaded

LEMMA LastValueIsContent ==
  ASSUME TypeOK, NEW u \in Held, NEW a \in Attr, objectHash[u][a] # << >>
  PROVE  LastValue(<<u, a>>) \in Contents
<1>1. objectHash[u][a] \in Seq(Contents)
  BY DEF TypeOK, Held
<1> QED
  BY <1>1, LastIsElement DEF LastValue

--------------------------------------------------------------------------------
(* Types, and whose attributes the lists name.                             *)

(* The attributes in the lists of changes are those of objects in memory:  *)
(* what commit writes is there to be read.                                 *)
ListedAreHeld ==
  \A i \in DOMAIN transactionList, u \in Uuid, a \in Attr :
    transactionList[i].changes[<<u, a>>] > 0 => u \in Held

TInv == TypeOK /\ ListedAreHeld

LEMMA ElementIsTransaction ==
  ASSUME TypeOK, NEW i \in DOMAIN transactionList
  PROVE  transactionList[i] \in Transaction
BY DEF TypeOK

LEMMA ChangesAreCounts ==
  ASSUME NEW t \in Transaction, NEW u \in Uuid, NEW a \in Attr
  PROVE  t.changes[<<u, a>>] \in Nat
BY DEF Transaction, Cell

LEMMA InitTInv == Init => TInv
<1> SUFFICES ASSUME Init PROVE TInv
  OBVIOUS
<1>1. Root \in Uuid
  BY ConstantsAssumption
<1>2. store = [u \in {Root} |-> Blank] /\ base = store
  BY DEF Init
<1>3. DOMAIN store \subseteq Uuid /\ store \in [DOMAIN store -> [Attr -> Contents]]
  BY <1>1, <1>2, BlankIsObject
<1>4. transactionList \in Seq(Transaction) /\ DOMAIN transactionList = {}
  BY DEF Init
<1> QED
  BY <1>1, <1>2, <1>3, <1>4 DEF Init, TInv, TypeOK, ListedAreHeld

LEMMA DiesTInv ==
  ASSUME TInv, NEW how \in {"assert", "freed", "crash", "closed"}, Dies(how)
  PROVE  TInv'
BY DEF TInv, TypeOK, ListedAreHeld, Held, Dies

LEMMA StutterTInv ==
  ASSUME TInv, UNCHANGED vars
  PROVE  TInv'
BY DEF TInv, TypeOK, ListedAreHeld, Held, vars

LEMMA BeginTInv ==
  ASSUME TInv, BeginTransaction
  PROVE  TInv'
<1>1. PICK ro \in BOOLEAN :
        transactionList' = Append(transactionList, NewTransaction(ro))
  BY DEF BeginTransaction, Begin
<1>2. NewTransaction(ro) \in Transaction /\ transactionList \in Seq(Transaction)
  BY NewIsTransaction DEF TInv, TypeOK
<1>3. TypeOK'
  BY <1>1, <1>2 DEF TInv, TypeOK, BeginTransaction, Begin
<1>4. ASSUME NEW i \in DOMAIN transactionList', NEW u \in Uuid, NEW a \in Attr,
             transactionList'[i].changes[<<u, a>>] > 0
      PROVE  u \in Held'
  <2>1. NewTransaction(ro).changes[<<u, a>>] = 0
    BY DEF NewTransaction, Cell
  <2>2. i \in DOMAIN transactionList /\ transactionList'[i] = transactionList[i]
    BY <1>1, <1>2, <1>4, <2>1
  <2> QED
    BY <1>4, <2>2 DEF TInv, ListedAreHeld, Held, BeginTransaction, Begin
<1> QED
  BY <1>3, <1>4 DEF TInv, ListedAreHeld

LEMMA CommitNestedTInv ==
  ASSUME TInv, CommitNested
  PROVE  TInv'
<1> USE DEF TInv
<1>1. TypeOK'
  BY CommitNestedMerges DEF TypeOK, CommitNested
<1>2. ASSUME NEW i \in DOMAIN transactionList', NEW u \in Uuid, NEW a \in Attr,
             transactionList'[i].changes[<<u, a>>] > 0
      PROVE  u \in Held'
  <2>1. Held' = Held
    BY DEF CommitNested, Held
  <2>2. i \in 1 .. Depth - 1 /\ Depth \in Nat /\ DOMAIN transactionList = 1 .. Depth
    BY CommitNestedMerges DEF TypeOK, Depth
  <2>3. CASE i < Depth - 1
    BY <1>2, <2>1, <2>2, <2>3, CommitNestedMerges DEF ListedAreHeld
  <2>4. CASE i = Depth - 1
    <3> DEFINE outer == transactionList[Depth - 1]
               inner == transactionList[Depth]
    <3>1. Depth - 1 \in DOMAIN transactionList /\ Depth \in DOMAIN transactionList
      BY <2>2, CommitNestedMerges
    <3>2. outer.changes[<<u, a>>] \in Nat /\ inner.changes[<<u, a>>] \in Nat
      BY <3>1, ElementIsTransaction, ChangesAreCounts
    <3>3. Merged(outer, inner).changes[<<u, a>>] =
            outer.changes[<<u, a>>] + inner.changes[<<u, a>>]
      <4>1. outer \in Transaction
        BY <3>1, ElementIsTransaction
      <4> QED
        BY <4>1 DEF Merged, Cell, Transaction
    <3>4. transactionList'[i] = Merged(outer, inner)
      BY <2>4, CommitNestedMerges
    <3> HIDE DEF outer, inner
    <3>5. outer.changes[<<u, a>>] > 0 \/ inner.changes[<<u, a>>] > 0
      BY <1>2, <3>2, <3>3, <3>4
    <3> QED
      BY <2>1, <3>1, <3>5 DEF outer, inner, ListedAreHeld
  <2> QED
    BY <2>2, <2>3, <2>4
<1> QED
  BY <1>1, <1>2 DEF ListedAreHeld

LEMMA OneIsInTransaction ==
  ASSUME TypeOK, Len(transactionList) = 1
  PROVE  InTransaction /\ Depth = 1
<1>1. Len(<< >>) = 0
  OBVIOUS
<1>2. transactionList # << >>
  BY <1>1
<1> QED
  BY <1>2 DEF InTransaction, Depth

(* What an outermost commit writes.                                        *)
LEMMA WrittenAreContents ==
  ASSUME TInv, InTransaction, NEW u \in Uuid, NEW a \in Attr, <<u, a>> \in Written
  PROVE  /\ u \in Held
         /\ objectHash[u][a] \in Seq(Contents)
         /\ Len(objectHash[u][a]) > 1
         /\ objectHash[u][a] # << >>
         /\ LastValue(<<u, a>>) \in Contents
<1>1. Len(objectHash[u][a]) > 1 /\ Current.changes[<<u, a>>] > 0
  BY DEF Written
<1>2. Depth \in DOMAIN transactionList /\ Current = transactionList[Depth]
  BY CurrentIsTransaction DEF TInv, TypeOK, Depth
<1>3. u \in Held
  BY <1>1, <1>2 DEF TInv, ListedAreHeld
<1>4. objectHash[u][a] \in Seq(Contents)
  BY <1>3 DEF TInv, TypeOK, Held
<1>5. objectHash[u][a] # << >>
  BY <1>1, <1>4
<1>6. LastValue(<<u, a>>) \in Contents
  BY <1>4, <1>5, LastIsElement DEF LastValue
<1> QED
  BY <1>1, <1>3, <1>4, <1>5, <1>6

LEMMA CommitFinalTInv ==
  ASSUME TInv, CommitFinal
  PROVE  TInv'
<1> DEFINE done == {k \in Written : ~Refused(k)}
<1>1. InTransaction
  BY OneIsInTransaction DEF CommitFinal, TInv
<1>2. ASSUME NEW u \in Uuid, NEW a \in Attr, <<u, a>> \in done
      PROVE  /\ LastValue(<<u, a>>) \in Contents
             /\ Condensed(objectHash[u][a]) \in Seq(Contents)
  <2>1. LastValue(<<u, a>>) \in Contents
    BY <1>1, <1>2, WrittenAreContents
  <2>2. Condensed(objectHash[u][a]) = <<LastValue(<<u, a>>)>>
    BY DEF Condensed, LastValue
  <2> QED
    BY <2>1, <2>2
<1>3. /\ store' = [u \in DOMAIN store \ Current.deleted |->
                    [a \in Attr |-> IF <<u, a>> \in done THEN LastValue(<<u, a>>)
                                    ELSE store[u][a]]]
      /\ objectHash' = [u \in DOMAIN objectHash |->
                         [a \in Attr |-> IF <<u, a>> \in done
                                         THEN Condensed(objectHash[u][a])
                                         ELSE objectHash[u][a]]]
      /\ base' = store' /\ transactionList' = << >>
      /\ UNCHANGED <<usedUuids, collections, fault>>
  BY DEF CommitFinal
<1> HIDE DEF done
<1>4. DOMAIN store' \subseteq Uuid /\ store' \in [DOMAIN store' -> [Attr -> Contents]]
  BY <1>2, <1>3 DEF TInv, TypeOK
<1>5. ASSUME NEW u \in DOMAIN objectHash
      PROVE  objectHash'[u] \in [Attr -> Seq(Contents)]
  <2>1. u \in Uuid /\ objectHash[u] \in [Attr -> Seq(Contents)]
    BY DEF TInv, TypeOK
  <2> QED
    BY <1>2, <1>3, <2>1
<1>6. transactionList' \in Seq(Transaction) /\ DOMAIN transactionList' = {}
  BY <1>3
<1>7. DOMAIN objectHash' = DOMAIN objectHash
  BY <1>3
<1> QED
  BY <1>3, <1>4, <1>5, <1>6, <1>7 DEF TInv, TypeOK, ListedAreHeld

LEMMA AbortShortens ==
  ASSUME TypeOK, AbortTransaction
  PROVE  /\ Depth \in Nat \ {0}
         /\ transactionList' \in Seq(Transaction)
         /\ Len(transactionList') = Depth - 1
         /\ DOMAIN transactionList' = 1 .. Depth - 1
         /\ \A i \in 1 .. Depth - 1 : transactionList'[i] = transactionList[i]
<1>1. transactionList \in Seq(Transaction) /\ transactionList # << >>
  BY DEF TypeOK, AbortTransaction, InTransaction
<1>2. transactionList' = Front(transactionList)
  BY DEF AbortTransaction
<1>3. Depth \in Nat \ {0}
  BY <1>1 DEF Depth
<1> QED
  BY <1>1, <1>2, <1>3, FrontShortens DEF Depth

LEMMA AbortTInv ==
  ASSUME TInv, AbortTransaction
  PROVE  TInv'
<1>1. InTransaction /\ Current \in Transaction
  BY CurrentIsTransaction DEF AbortTransaction, TInv
<1>2. DOMAIN store' \subseteq Uuid /\ store' \in [DOMAIN store' -> [Attr -> Contents]]
  BY DEF AbortTransaction, StoreAfterAbort, Restrict, TInv, TypeOK
<1>3. ASSUME NEW u \in DOMAIN objectHash
      PROVE  objectHash'[u] \in [Attr -> Seq(Contents)]
  <2>1. u \in Uuid /\ objectHash[u] \in [Attr -> Seq(Contents)]
    BY DEF TInv, TypeOK
  <2>2. ASSUME NEW a \in Attr
        PROVE  Reverted(objectHash[u][a], Current.changes[<<u, a>>]) \in Seq(Contents)
    BY <1>1, <2>1, ChangesAreCounts, PrefixIsSequence DEF Reverted
  <2> QED
    BY <2>2 DEF AbortTransaction
<1>4. /\ transactionList' \in Seq(Transaction)
      /\ \A i \in DOMAIN transactionList' :
           i \in DOMAIN transactionList /\ transactionList'[i] = transactionList[i]
  BY AbortShortens, SMTT(30) DEF TInv, TypeOK, Depth
<1>5. DOMAIN objectHash' = DOMAIN objectHash
  BY DEF AbortTransaction
<1>6. UNCHANGED <<base, usedUuids, collections, fault>>
  BY DEF AbortTransaction
<1>7. TypeOK'
  BY <1>2, <1>3, <1>4, <1>5, <1>6 DEF TInv, TypeOK
<1>8. ListedAreHeld'
  BY <1>4, <1>5 DEF TInv, ListedAreHeld, Held
<1> QED
  BY <1>7, <1>8 DEF TInv

LEMMA WithAdds ==
  ASSUME NEW f, NEW u, NEW x
  PROVE  /\ DOMAIN With(f, u, x) = DOMAIN f \cup {u}
         /\ With(f, u, x)[u] = x
         /\ \A v \in DOMAIN f \ {u} : With(f, u, x)[v] = f[v]
BY DEF With

LEMMA WithKeepsType ==
  ASSUME NEW S, NEW f, \A v \in DOMAIN f : f[v] \in S, NEW u, NEW x \in S
  PROVE  \A v \in DOMAIN With(f, u, x) : With(f, u, x)[v] \in S
BY DEF With

(* An object that is fetched or created comes into memory blank.           *)
LEMMA ComesIntoMemory ==
  ASSUME TypeOK, NEW u \in Uuid,
         objectHash' = With(objectHash, u, NotLoaded),
         collections' = With(collections, u, NoCollections)
  PROVE  /\ DOMAIN objectHash' = Held \cup {u}
         /\ DOMAIN objectHash' \subseteq Uuid
         /\ \A v \in DOMAIN objectHash' : objectHash'[v] \in [Attr -> Seq(Contents)]
         /\ DOMAIN collections' = DOMAIN objectHash'
         /\ \A v \in DOMAIN collections' :
              collections'[v] \in [PointerAttr -> Seq(SUBSET Uuid)]
<1>1. NotLoaded \in [Attr -> Seq(Contents)]
  BY DEF NotLoaded
<1>2. NoCollections \in [PointerAttr -> Seq(SUBSET Uuid)]
  BY DEF NoCollections
<1>3. DOMAIN objectHash' = Held \cup {u} /\ DOMAIN collections' = Held \cup {u}
  BY DEF With, TypeOK, Held
<1>4. \A v \in DOMAIN objectHash' : objectHash'[v] \in [Attr -> Seq(Contents)]
  <2>1. \A v \in DOMAIN objectHash : objectHash[v] \in [Attr -> Seq(Contents)]
    BY DEF TypeOK
  <2> QED
    BY <1>1, <2>1, WithKeepsType
<1>5. \A v \in DOMAIN collections' : collections'[v] \in [PointerAttr -> Seq(SUBSET Uuid)]
  <2>1. \A v \in DOMAIN collections : collections[v] \in [PointerAttr -> Seq(SUBSET Uuid)]
    BY DEF TypeOK
  <2> QED
    BY <1>2, <2>1, WithKeepsType
<1> QED
  BY <1>3, <1>4, <1>5 DEF TypeOK, Held

LEMMA ObjectTInv ==
  ASSUME TInv, Object
  PROVE  TInv'
<1>1. PICK u \in Uuid \ Held :
        IF u \in DOMAIN store
        THEN /\ objectHash' = With(objectHash, u, NotLoaded)
             /\ collections' = With(collections, u, NoCollections)
             /\ UNCHANGED <<store, base, usedUuids, transactionList, fault>>
        ELSE Dies("assert")
  BY DEF Object, Fetch
<1>2. CASE u \in DOMAIN store
  <2>1. /\ DOMAIN objectHash' = Held \cup {u}
        /\ TypeOK'
    BY <1>1, <1>2, ComesIntoMemory DEF TInv, TypeOK
  <2> QED
    BY <1>1, <1>2, <2>1 DEF TInv, ListedAreHeld, Held
<1>3. CASE u \notin DOMAIN store
  BY <1>1, <1>3, DiesTInv
<1> QED
  BY <1>2, <1>3

(* A call that changes the innermost transaction, but not its lists of     *)
(* attributes, and lets no object go.                                      *)
LEMMA WithCurrentTInv ==
  ASSUME TInv, InTransaction, NEW t \in Transaction,
         transactionList' = WithCurrent(t),
         \A u \in Uuid, a \in Attr : t.changes[<<u, a>>] > 0 =>
            u \in Held' \/ Current.changes[<<u, a>>] > 0,
         Held \subseteq Held'
  PROVE  transactionList' \in Seq(Transaction) /\ ListedAreHeld'
<1>1. /\ transactionList' \in Seq(Transaction)
      /\ Depth \in Nat \ {0}
      /\ DOMAIN transactionList' = 1 .. Depth
      /\ DOMAIN transactionList = 1 .. Depth
      /\ transactionList'[Depth] = t
      /\ Current = transactionList[Depth]
      /\ \A i \in 1 .. Depth - 1 : transactionList'[i] = transactionList[i]
  BY WithCurrentReplaces, CurrentIsTransaction DEF TInv, TypeOK, Depth
<1>2. ASSUME NEW i \in DOMAIN transactionList', NEW u \in Uuid, NEW a \in Attr,
             transactionList'[i].changes[<<u, a>>] > 0
      PROVE  u \in Held'
  <2>1. CASE i = Depth
    BY <1>1, <1>2, <2>1 DEF TInv, ListedAreHeld
  <2>2. CASE i # Depth
    <3>1. i \in 1 .. Depth - 1
      BY <1>1, <2>2
    <3> QED
      BY <1>1, <1>2, <3>1 DEF TInv, ListedAreHeld
  <2> QED
    BY <2>1, <2>2
<1> QED
  BY <1>1, <1>2 DEF ListedAreHeld

LEMMA CreateTInv ==
  ASSUME TInv, CreateObject
  PROVE  TInv'
<1>1. InTransaction
  BY DEF CreateObject, Create, InWriteTransaction
<1>2. PICK u \in Uuid \ usedUuids :
        /\ usedUuids' = usedUuids \cup {u}
        /\ store' = With(store, u, Blank)
        /\ objectHash' = With(objectHash, u, NotLoaded)
        /\ collections' = With(collections, u, NoCollections)
        /\ transactionList' = WithCurrent([Current EXCEPT !.created = @ \cup {u}])
  BY DEF CreateObject, Create
<1> DEFINE t == [Current EXCEPT !.created = @ \cup {u}]
<1>3. t \in Transaction /\ t.changes = Current.changes
  BY <1>1, CurrentIsTransaction DEF Transaction, TInv
<1>4. Held' = Held \cup {u}
  BY <1>2, WithAdds DEF Held
<1>5. DOMAIN store' \subseteq Uuid /\ store' \in [DOMAIN store' -> [Attr -> Contents]]
  <2>1. DOMAIN store' = DOMAIN store \cup {u}
    BY <1>2, WithAdds
  <2>2. \A v \in DOMAIN store' : store'[v] \in [Attr -> Contents]
    <3>1. \A v \in DOMAIN store : store[v] \in [Attr -> Contents]
      BY DEF TInv, TypeOK
    <3> QED
      BY <1>2, <3>1, BlankIsObject, WithKeepsType
  <2>3. store' = [v \in DOMAIN store' |-> store'[v]]
    BY <1>2 DEF With
  <2> QED
    BY <2>1, <2>2, <2>3 DEF TInv, TypeOK
<1> HIDE DEF t
<1>6. transactionList' \in Seq(Transaction) /\ ListedAreHeld'
  BY <1>1, <1>2, <1>3, <1>4, WithCurrentTInv DEF t
<1>7. UNCHANGED <<base, fault>>
  BY DEF CreateObject, Create
<1> QED
  BY <1>2, <1>5, <1>6, <1>7, ComesIntoMemory DEF TInv, TypeOK

LEMMA DeleteTInv ==
  ASSUME TInv, DeleteObject
  PROVE  TInv'
<1>1. InTransaction
  BY DEF DeleteObject, InWriteTransaction
<1>2. PICK u \in DOMAIN store \ (Held \cup {Root}) :
        /\ store' = Restrict(store, DOMAIN store \ {u})
        /\ transactionList' = WithCurrent([Current EXCEPT !.deleted = @ \cup {u}])
  BY DEF DeleteObject
<1> DEFINE t == [Current EXCEPT !.deleted = @ \cup {u}]
<1>3. t \in Transaction /\ t.changes = Current.changes
  BY <1>1, CurrentIsTransaction DEF Transaction, TInv, TypeOK
<1>4. DOMAIN store' \subseteq Uuid /\ store' \in [DOMAIN store' -> [Attr -> Contents]]
  BY <1>2 DEF Restrict, TInv, TypeOK
<1>5. UNCHANGED <<base, usedUuids, objectHash, collections, fault>>
  BY DEF DeleteObject
<1> HIDE DEF t
<1>6. transactionList' \in Seq(Transaction) /\ ListedAreHeld'
  BY <1>1, <1>2, <1>3, <1>5, WithCurrentTInv DEF t, Held
<1> QED
  BY <1>4, <1>5, <1>6 DEF TInv, TypeOK

LEMMA ReleaseTInv ==
  ASSUME TInv, Release
  PROVE  TInv'
<1>1. PICK u \in Held :
        /\ objectHash' = Restrict(objectHash, Held \ {u})
        /\ collections' = Restrict(collections, Held \ {u})
        /\ transactionList' =
             [i \in DOMAIN transactionList |-> WithoutEntries(transactionList[i], u)]
  BY DEF Release, GiveUp
<1>2. u \in Uuid /\ Held' = Held \ {u}
  BY <1>1 DEF TInv, TypeOK, Held, Restrict
<1>3. transactionList' \in Seq(Transaction) /\ DOMAIN transactionList' = DOMAIN transactionList
  <2>1. \A i \in DOMAIN transactionList :
          WithoutEntries(transactionList[i], u) \in Transaction
    BY <1>2, WithoutIsTransaction, ElementIsTransaction DEF TInv
  <2>2. Len(transactionList) \in Nat /\ DOMAIN transactionList = 1 .. Len(transactionList)
    BY DEF TInv, TypeOK
  <2>3. transactionList' \in [1 .. Len(transactionList) -> Transaction]
    BY <1>1, <2>1, <2>2
  <2> QED
    BY <1>1, <2>2, <2>3
<1>4. UNCHANGED <<store, base, usedUuids, fault>>
  BY DEF Release, GiveUp
<1>5. TypeOK'
  BY <1>1, <1>2, <1>3, <1>4 DEF TInv, TypeOK, Held, Restrict
<1>6. ASSUME NEW i \in DOMAIN transactionList', NEW v \in Uuid, NEW a \in Attr,
             transactionList'[i].changes[<<v, a>>] > 0
      PROVE  v \in Held'
  <2>1. transactionList'[i] = WithoutEntries(transactionList[i], u)
    BY <1>1, <1>3
  <2>2. transactionList[i] \in Transaction
    BY <1>3, ElementIsTransaction DEF TInv
  <2>3. transactionList'[i].changes[<<v, a>>] =
          IF v = u THEN 0 ELSE transactionList[i].changes[<<v, a>>]
    BY <2>1, <2>2 DEF WithoutEntries, Transaction, Cell
  <2>4. v # u /\ transactionList[i].changes[<<v, a>>] > 0
    BY <1>6, <2>3
  <2> QED
    BY <1>2, <1>3, <2>4 DEF TInv, ListedAreHeld
<1> QED
  BY <1>5, <1>6 DEF TInv, ListedAreHeld

(* A value that is loaded, and one that is set on top of it.               *)
LEMMA LoadedIsSequence ==
  ASSUME TypeOK, NEW u \in Held, NEW a \in Attr, objectHash[u][a] # << >> \/ Loadable(u)
  PROVE  Loaded(u, a) \in Seq(Contents) /\ Loaded(u, a) # << >>
<1>1. objectHash[u][a] \in Seq(Contents)
  BY DEF TypeOK, Held
<1>2. CASE objectHash[u][a] = << >>
  <2>1. store[u][a] \in Contents
    BY <1>2 DEF Loadable, TypeOK
  <2>2. Loaded(u, a) = <<store[u][a]>>
    BY <1>2 DEF Loaded
  <2> QED
    BY <2>1, <2>2
<1>3. CASE objectHash[u][a] # << >>
  BY <1>1, <1>3 DEF Loaded
<1> QED
  BY <1>2, <1>3

LEMMA ChangedValuesType ==
  ASSUME TypeOK, NEW u \in Held, NEW a \in Attr, NEW s \in Seq(Contents),
         objectHash' = [objectHash EXCEPT ![u][a] = s]
  PROVE  /\ DOMAIN objectHash' = Held
         /\ \A v \in DOMAIN objectHash' : objectHash'[v] \in [Attr -> Seq(Contents)]
         /\ objectHash'[u][a] = s
         /\ \A v \in Held, b \in Attr :
              v # u \/ b # a => objectHash'[v][b] = objectHash[v][b]
BY DEF TypeOK, Held

LEMMA GetTInv ==
  ASSUME TInv, GetAttributeValue
  PROVE  TInv'
<1>1. PICK u \in Uuid, a \in Attr :
        /\ MayUse(u)
        /\ IF Loadable(u)
           THEN /\ objectHash' = [objectHash EXCEPT ![u][a] = Loaded(u, a)]
                /\ UNCHANGED <<store, base, usedUuids, collections, transactionList, fault>>
           ELSE Dies("assert")
  BY DEF GetAttributeValue, Get
<1>2. u \in Held
  BY <1>1 DEF MayUse
<1>3. CASE Loadable(u)
  <2>1. Loaded(u, a) \in Seq(Contents)
    BY <1>2, <1>3, LoadedIsSequence DEF TInv
  <2>2. /\ DOMAIN objectHash' = Held
        /\ \A v \in DOMAIN objectHash' : objectHash'[v] \in [Attr -> Seq(Contents)]
    BY <1>1, <1>2, <1>3, <2>1, ChangedValuesType DEF TInv
  <2> QED
    BY <1>1, <1>3, <2>2 DEF TInv, TypeOK, ListedAreHeld, Held
<1>4. CASE ~Loadable(u)
  BY <1>1, <1>4, DiesTInv
<1> QED
  BY <1>3, <1>4

LEMMA GetCollectionTInv ==
  ASSUME TInv, GetCollectionValue
  PROVE  TInv'
<1>1. PICK u \in Uuid, a \in PointerAttr :
        /\ MayUse(u)
        /\ IF Loadable(u)
           THEN /\ collections' = [collections EXCEPT ![u][a] = <<StoredCollection(u, a)>>]
                /\ UNCHANGED <<store, base, usedUuids, objectHash, transactionList, fault>>
           ELSE Dies("assert")
  BY DEF GetCollectionValue, GetCollection
<1>2. CASE Loadable(u)
  <2>1. StoredCollection(u, a) \in SUBSET Uuid
    BY DEF StoredCollection, TInv, TypeOK
  <2>2. /\ DOMAIN collections' = DOMAIN collections
        /\ \A v \in DOMAIN collections' :
             collections'[v] \in [PointerAttr -> Seq(SUBSET Uuid)]
    <3> DEFINE list == <<StoredCollection(u, a)>>
    <3>1. list \in Seq(SUBSET Uuid)
      BY <2>1
    <3> HIDE DEF list
    <3>2. collections' = [collections EXCEPT ![u][a] = list]
      BY <1>1, <1>2 DEF list
    <3> QED
      BY <3>1, <3>2 DEF TInv, TypeOK
  <2> QED
    BY <1>1, <1>2, <2>2 DEF TInv, TypeOK, ListedAreHeld, Held
<1>3. CASE ~Loadable(u)
  BY <1>1, <1>3, DiesTInv
<1> QED
  BY <1>2, <1>3

(* The back-pointer lists after a pointer moved.                           *)
LEMMA ResolvedType ==
  ASSUME TypeOK, NEW a \in PointerAttr, NEW new \in Contents, NEW old,
         new \in Uuid \cup {Null}
  PROVE  /\ DOMAIN Resolved(a, new, old) = Held
         /\ \A v \in Held : Resolved(a, new, old)[v] \in [PointerAttr -> Seq(SUBSET Uuid)]
<1>1. DOMAIN Resolved(a, new, old) = Held
  BY DEF Resolved
<1>2. ASSUME NEW v \in Held
      PROVE  Resolved(a, new, old)[v] \in [PointerAttr -> Seq(SUBSET Uuid)]
  <2>1. collections[v] \in [PointerAttr -> Seq(SUBSET Uuid)] /\ v \in Uuid
    BY DEF TypeOK, Held
  <2>2. LoadedCollection(v, a) \in SUBSET Uuid
    <3>1. CASE collections[v][a] = << >>
      BY <3>1 DEF LoadedCollection, StoredCollection, TypeOK
    <3>2. CASE collections[v][a] # << >>
      BY <2>1, <3>2, LastIsElement DEF LoadedCollection
    <3> QED
      BY <3>1, <3>2
  <2> DEFINE list == IF v = new THEN <<LoadedCollection(v, a) \cup {new}>>
                     ELSE IF v = old THEN <<LoadedCollection(v, a) \ {old}>>
                     ELSE collections[v][a]
  <2>3. list \in Seq(SUBSET Uuid)
    <3>1. CASE v = new
      <4>1. LoadedCollection(v, a) \cup {new} \in SUBSET Uuid
        BY <2>1, <2>2, <3>1
      <4> QED
        BY <3>1, <4>1
    <3>2. CASE v # new /\ v = old
      <4>1. LoadedCollection(v, a) \ {old} \in SUBSET Uuid
        BY <2>2
      <4> QED
        BY <3>2, <4>1
    <3>3. CASE v # new /\ v # old
      BY <2>1, <3>3
    <3> QED
      BY <3>1, <3>2, <3>3
  <2>4. Resolved(a, new, old)[v] = [collections[v] EXCEPT ![a] = list]
    BY DEF Resolved
  <2> HIDE DEF list
  <2> QED
    BY <2>1, <2>3, <2>4
<1> QED
  BY <1>1, <1>2

(* How a call that sets a value goes: it dies, or pushes the value.        *)
LEMMA SetElim ==
  ASSUME TInv, SetAttributeValue
  PROVE  /\ InWriteTransaction
         /\ \/ \E how \in {"assert", "freed"} : Dies(how)
            \/ \E u \in Held, a \in Attr, new \in Contents :
                 /\ new \in Content(a)
                 /\ objectHash[u][a] # << >> \/ Loadable(u)
                 /\ Pushed(u, a, new)
<1>1. PICK u \in Uuid, a \in Attr, new \in Contents :
        /\ new \in Content(a)
        /\ MaySet(u, a, new)
        /\ IF SetFault(u, a, new) # "none" THEN Dies(SetFault(u, a, new))
           ELSE Pushed(u, a, new)
  BY DEF SetAttributeValue, Set
<1>2. u \in Held
  BY <1>1 DEF MaySet, MayUse
<1>3. SetFault(u, a, new) \in {"none", "assert", "freed"}
  BY DEF SetFault, ResolveFault
<1>4. CASE SetFault(u, a, new) = "none"
  <2>1. objectHash[u][a] # << >> \/ Loadable(u)
    BY <1>4 DEF SetFault
  <2> QED
    BY <1>1, <1>2, <1>4, <2>1 DEF SetAttributeValue, Set
<1>5. CASE SetFault(u, a, new) # "none"
  BY <1>1, <1>3, <1>5 DEF SetAttributeValue, Set
<1> QED
  BY <1>4, <1>5

(* What pushing a value does.                                              *)
LEMMA PushedElim ==
  ASSUME TInv, InWriteTransaction, NEW u \in Held, NEW a \in Attr, NEW new \in Contents,
         new \in Content(a),
         objectHash[u][a] # << >> \/ Loadable(u),
         Pushed(u, a, new)
  PROVE  /\ TInv'
         /\ Loaded(u, a) \in Seq(Contents) /\ Loaded(u, a) # << >>
         /\ Held' = Held
         /\ objectHash'[u][a] = Append(Loaded(u, a), new)
         /\ \A v \in Held, b \in Attr :
              v # u \/ b # a => objectHash'[v][b] = objectHash[v][b]
         /\ \E t \in Transaction :
              /\ t.readOnly = Current.readOnly /\ t.created = Current.created
              /\ transactionList' = WithCurrent(t)
         /\ UNCHANGED <<store, base, usedUuids, fault>>
<1>1. InTransaction /\ Current \in Transaction /\ u \in Uuid
  BY CurrentIsTransaction DEF InWriteTransaction, TInv, TypeOK, Held
<1>2. Loaded(u, a) \in Seq(Contents) /\ Loaded(u, a) # << >>
  BY LoadedIsSequence DEF TInv
<1>3. Append(Loaded(u, a), new) \in Seq(Contents)
  BY <1>2
<1>4. /\ DOMAIN objectHash' = Held
      /\ \A v \in DOMAIN objectHash' : objectHash'[v] \in [Attr -> Seq(Contents)]
      /\ objectHash'[u][a] = Append(Loaded(u, a), new)
      /\ \A v \in Held, b \in Attr :
           v # u \/ b # a => objectHash'[v][b] = objectHash[v][b]
  BY <1>3, ChangedValuesType, ZenonT(40) DEF Pushed, TInv
<1> DEFINE t == [Current EXCEPT !.changes[<<u, a>>] = @ + 1]
<1>5. /\ t \in Transaction /\ t.readOnly = Current.readOnly /\ t.created = Current.created
      /\ \A v \in Uuid, b \in Attr : t.changes[<<v, b>>] > 0 =>
            v \in Held \/ Current.changes[<<v, b>>] > 0
  <2>1. <<u, a>> \in Cell /\ Current.changes[<<u, a>>] + 1 \in Nat
    BY <1>1, ChangesAreCounts DEF Cell
  <2>2. ASSUME NEW v \in Uuid, NEW b \in Attr, v # u
        PROVE  t.changes[<<v, b>>] = Current.changes[<<v, b>>]
    BY <1>1, <2>1, <2>2 DEF Transaction, Cell
  <2>3. t \in Transaction
    BY <1>1, <2>1 DEF Transaction
  <2>4. t.readOnly = Current.readOnly /\ t.created = Current.created
    BY <1>1 DEF Transaction
  <2> HIDE DEF t
  <2> QED
    BY <2>2, <2>3, <2>4
<1>6. transactionList' = WithCurrent(t)
  BY DEF Pushed
<1> HIDE DEF t
<1>7. transactionList' \in Seq(Transaction) /\ ListedAreHeld'
  BY <1>1, <1>4, <1>5, <1>6, WithCurrentTInv DEF Held
<1>8. /\ DOMAIN collections' = Held
      /\ \A v \in Held : collections'[v] \in [PointerAttr -> Seq(SUBSET Uuid)]
  <2>1. CASE a \in PointerAttr
    <3>1. collections' = Resolved(a, new, Last(Loaded(u, a)))
      BY <2>1 DEF Pushed
    <3>2. new \in Uuid \cup {Null}
      BY <2>1 DEF Content
    <3> QED
      BY <2>1, <3>1, <3>2, ResolvedType DEF TInv
  <2>2. CASE a \notin PointerAttr
    BY <2>2 DEF Pushed, TInv, TypeOK, Held
  <2> QED
    BY <2>1, <2>2
<1>9. UNCHANGED <<store, base, usedUuids, fault>>
  BY DEF Pushed
<1>10. TypeOK'
  BY <1>4, <1>7, <1>8, <1>9 DEF TInv, TypeOK, Held
<1> QED
  BY <1>2, <1>4, <1>5, <1>6, <1>7, <1>9, <1>10 DEF TInv, Held

LEMMA SetTInv ==
  ASSUME TInv, SetAttributeValue
  PROVE  TInv'
BY SetElim, PushedElim, DiesTInv

LEMMA SetCollectionTInv ==
  ASSUME TInv, SetCollectionValue
  PROVE  TInv'
<1>1. PICK u \in Held, a \in PointerAttr, S \in SUBSET Uuid :
        collections' = [collections EXCEPT ![u][a] = <<S>>]
  BY DEF SetCollectionValue
<1> DEFINE list == <<S>>
<1>2. list \in Seq(SUBSET Uuid)
  OBVIOUS
<1>3. collections' = [collections EXCEPT ![u][a] = list]
  BY <1>1
<1> HIDE DEF list
<1>4. /\ DOMAIN collections' = DOMAIN collections
      /\ \A v \in DOMAIN collections' :
           collections'[v] \in [PointerAttr -> Seq(SUBSET Uuid)]
  BY <1>2, <1>3 DEF TInv, TypeOK, Held
<1> QED
  BY <1>4 DEF TInv, TypeOK, ListedAreHeld, Held, SetCollectionValue

LEMMA CommitDiesTInv ==
  ASSUME TInv, CommitDies
  PROVE  TInv'
<1>1. CommitFault \in {"none", "assert", "freed", "crash"}
  BY DEF CommitFault
<1> QED
  BY <1>1, DiesTInv DEF CommitDies

LEMMA AbortDiesTInv ==
  ASSUME TInv, AbortDies
  PROVE  TInv'
<1>1. AbortFault \in {"none", "assert", "freed"}
  BY DEF AbortFault
<1> QED
  BY <1>1, DiesTInv DEF AbortDies

LEMMA CloseTInv ==
  ASSUME TInv, Close
  PROVE  TInv'
<1>1. \E how \in {"assert", "freed", "crash", "closed"} : Dies(how)
  BY DEF Close, Destroy
<1> QED
  BY <1>1, DiesTInv

LEMMA NextTInv == TInv /\ [Next]_vars => TInv'
BY BeginTInv, CommitNestedTInv, CommitFinalTInv, CommitDiesTInv, AbortTInv, AbortDiesTInv,
   ObjectTInv, CreateTInv, DeleteTInv, ReleaseTInv, GetTInv, GetCollectionTInv, SetTInv,
   SetCollectionTInv, CloseTInv, StutterTInv
DEF Next

(* CoreProject.h:43-48, CoreAttribute.h:65: every value on a stack is one  *)
(* an attribute may hold, and memory, lists and storage speak of objects   *)
(* that exist, whatever clients do.                                        *)
THEOREM TypeCorrect == Spec => []TypeOK
<1>1. TInv => TypeOK
  BY DEF TInv
<1> QED
  BY <1>1, InitTInv, NextTInv, PTL DEF Spec

--------------------------------------------------------------------------------
(* Read-only transactions.                                                 *)

LEMMA ListsOfSameLength ==
  ASSUME TypeOK
  PROVE  Depth \in Nat /\ DOMAIN transactionList = 1 .. Depth
BY DEF TypeOK, Depth

(* ReadOnlyHasNoChanges, of any list of transactions.                      *)
IsReadOnly(t) == t.readOnly

EmptyOnceReadOnly(list) ==
  \A i, j \in DOMAIN list :
    IsReadOnly(list[i]) /\ i <= j => list[j] = NewTransaction(TRUE)

LEMMA ReadOnlyOfList ==
  /\ ReadOnlyHasNoChanges <=> EmptyOnceReadOnly(transactionList)
  /\ ReadOnlyHasNoChanges' <=> EmptyOnceReadOnly(transactionList')
BY Zenon DEF ReadOnlyHasNoChanges, EmptyOnceReadOnly, IsReadOnly

LEMMA AfterReadOnly ==
  ASSUME NEW list, EmptyOnceReadOnly(list),
         NEW i \in DOMAIN list, NEW j \in DOMAIN list, IsReadOnly(list[i]), i <= j
  PROVE  list[j] = NewTransaction(TRUE)
BY Zenon DEF EmptyOnceReadOnly

LEMMA NewIsReadOnly ==
  ASSUME NEW ro \in BOOLEAN
  PROVE  IsReadOnly(NewTransaction(ro)) <=> ro
BY DEF IsReadOnly, NewTransaction

LEMMA WriterIsNotReadOnly ==
  InWriteTransaction <=> InTransaction /\ ~IsReadOnly(Current)
BY DEF InWriteTransaction, IsReadOnly

(* A client that may write is in no read-only transaction, at any depth.   *)
LEMMA WritersAreNotInside ==
  ASSUME TypeOK, ReadOnlyHasNoChanges, InWriteTransaction
  PROVE  \A i \in DOMAIN transactionList : ~IsReadOnly(transactionList[i])
<1> SUFFICES ASSUME NEW i \in DOMAIN transactionList, IsReadOnly(transactionList[i])
             PROVE  FALSE
  OBVIOUS
<1>1. /\ Depth \in Nat \ {0} /\ Current = transactionList[Depth]
      /\ DOMAIN transactionList = 1 .. Depth
  BY CurrentIsTransaction, ListsOfSameLength, WriterIsNotReadOnly
<1>2. transactionList[Depth] = NewTransaction(TRUE)
  <2>1. Depth \in DOMAIN transactionList /\ i <= Depth
    BY <1>1
  <2>2. EmptyOnceReadOnly(transactionList)
    BY ReadOnlyOfList
  <2> QED
    BY <2>1, <2>2, AfterReadOnly
<1> QED
  BY <1>1, <1>2, NewIsReadOnly, WriterIsNotReadOnly

LEMMA BeginReadOnly ==
  ASSUME TypeOK, ReadOnlyHasNoChanges, BeginTransaction
  PROVE  ReadOnlyHasNoChanges'
<1>1. PICK ro \in BOOLEAN :
        /\ MayBegin(ro)
        /\ transactionList' = Append(transactionList, NewTransaction(ro))
  BY DEF BeginTransaction, Begin
<1> DEFINE t == NewTransaction(ro)
<1>2. /\ t \in Transaction
      /\ IsReadOnly(t) <=> ro
      /\ transactionList \in Seq(Transaction)
      /\ Depth \in Nat /\ DOMAIN transactionList = 1 .. Depth
  BY NewIsTransaction, NewIsReadOnly, ListsOfSameLength DEF TypeOK
<1> HIDE DEF t
<1>3. /\ DOMAIN transactionList' = 1 .. Depth + 1
      /\ transactionList'[Depth + 1] = t
      /\ \A i \in 1 .. Depth : transactionList'[i] = transactionList[i]
  BY <1>1, <1>2 DEF Depth, t
<1>4. EmptyOnceReadOnly(transactionList)
  BY ReadOnlyOfList
<1>5. ASSUME NEW i \in DOMAIN transactionList', NEW j \in DOMAIN transactionList',
             IsReadOnly(transactionList'[i]), i <= j
      PROVE  transactionList'[j] = NewTransaction(TRUE)
  <2>1. CASE j <= Depth
    <3>1. i \in DOMAIN transactionList /\ j \in DOMAIN transactionList
      BY <1>2, <1>3, <1>5, <2>1
    <3>2. transactionList'[i] = transactionList[i] /\ transactionList'[j] = transactionList[j]
      BY <1>2, <1>3, <3>1
    <3> QED
      BY <1>4, <1>5, <3>1, <3>2 DEF EmptyOnceReadOnly
  <2>2. CASE i <= Depth /\ j = Depth + 1
    <3>1. /\ i \in DOMAIN transactionList /\ Depth \in DOMAIN transactionList
          /\ transactionList'[i] = transactionList[i] /\ i <= Depth /\ Depth > 0
      BY <1>2, <1>3, <2>2
    <3>2. transactionList[Depth] = NewTransaction(TRUE)
      BY <1>4, <1>5, <3>1 DEF EmptyOnceReadOnly
    <3>3. InTransaction
      BY <1>2, <3>1 DEF InTransaction, Depth
    <3>4. Current = NewTransaction(TRUE)
      BY <3>2, <3>3, CurrentIsTransaction
    <3>5. ro
      BY <1>1, <3>3, <3>4 DEF MayBegin, NewTransaction
    <3>6. ro = TRUE
      BY <3>5
    <3> QED
      BY <1>3, <2>2, <3>6 DEF t
  <2>3. CASE i = Depth + 1 /\ j = Depth + 1
    <3>1. ro
      BY <1>2, <1>3, <1>5, <2>3
    <3>2. ro = TRUE
      BY <3>1
    <3> QED
      BY <1>3, <2>3, <3>2 DEF t
  <2>4. \/ j <= Depth
        \/ i <= Depth /\ j = Depth + 1
        \/ i = Depth + 1 /\ j = Depth + 1
    <3>1. i \in 1 .. Depth + 1 /\ j \in 1 .. Depth + 1 /\ i <= j /\ Depth \in Nat
      BY <1>2, <1>3, <1>5
    <3> QED
      BY <3>1
  <2> QED
    BY <2>1, <2>2, <2>3, <2>4
<1> QED
  BY <1>5, ReadOnlyOfList DEF EmptyOnceReadOnly

LEMMA EmptyMerges ==
  Merged(NewTransaction(TRUE), NewTransaction(TRUE)) = NewTransaction(TRUE)
<1> DEFINE e == NewTransaction(TRUE)
           m == Merged(e, e)
<1>1. m.changes = e.changes
  BY DEF Merged, NewTransaction
<1>2. m.dangling = e.dangling /\ m.readOnly = e.readOnly
  BY DEF Merged, NewTransaction
<1>3. m.created = e.created /\ m.deleted = e.deleted
  BY DEF Merged, NewTransaction
<1>4. m \in Transaction /\ e \in Transaction
  BY NewIsTransaction, MergedIsTransaction
<1> HIDE DEF m, e
<1>5. m = e
  BY <1>1, <1>2, <1>3, <1>4 DEF Transaction
<1> QED
  BY <1>5 DEF m, e

LEMMA CommitNestedReadOnly ==
  ASSUME TypeOK, ReadOnlyHasNoChanges, CommitNested
  PROVE  ReadOnlyHasNoChanges'
<1> DEFINE n == Depth - 1
<1>1. /\ n \in Nat \ {0} /\ Depth = n + 1
      /\ DOMAIN transactionList = 1 .. n + 1
      /\ DOMAIN transactionList' = 1 .. n
      /\ transactionList'[n] = Merged(transactionList[n], transactionList[n + 1])
      /\ \A i \in 1 .. n - 1 : transactionList'[i] = transactionList[i]
  BY CommitNestedMerges, ListsOfSameLength
<1> HIDE DEF n
<1>2. n \in DOMAIN transactionList /\ n + 1 \in DOMAIN transactionList
  BY <1>1
<1>3. transactionList'[n].readOnly = transactionList[n].readOnly
  BY <1>1, <1>2, ElementIsTransaction, MergedIsTransaction
<1>4. \A i \in 1 .. n : IsReadOnly(transactionList'[i]) <=> IsReadOnly(transactionList[i])
  BY <1>1, <1>3 DEF IsReadOnly
<1>5. EmptyOnceReadOnly(transactionList)
  BY ReadOnlyOfList
<1>6. ASSUME NEW i \in 1 .. n, NEW j \in 1 .. n,
             IsReadOnly(transactionList'[i]), i <= j
      PROVE  transactionList'[j] = NewTransaction(TRUE)
  <2>1. IsReadOnly(transactionList[i])
    BY <1>4, <1>6
  <2>2. \A k \in 1 .. n + 1 : i <= k => transactionList[k] = NewTransaction(TRUE)
    <3> SUFFICES ASSUME NEW k \in 1 .. n + 1, i <= k
                 PROVE  transactionList[k] = NewTransaction(TRUE)
      OBVIOUS
    <3>1. i \in DOMAIN transactionList /\ k \in DOMAIN transactionList
      BY <1>1
    <3> QED
      BY <1>5, <2>1, <3>1, AfterReadOnly
  <2>3. CASE j = n
    <3>1. n \in 1 .. n + 1 /\ n + 1 \in 1 .. n + 1 /\ i <= n /\ i <= n + 1
      BY <1>1
    <3>2. transactionList[n] = NewTransaction(TRUE) /\ transactionList[n + 1] = NewTransaction(TRUE)
      BY <2>2, <3>1
    <3> QED
      BY <1>1, <2>3, <3>2, EmptyMerges
  <2>4. CASE j # n
    <3>1. j \in 1 .. n - 1 /\ j \in 1 .. n + 1
      BY <1>1, <2>4
    <3> QED
      BY <1>1, <1>6, <2>2, <3>1
  <2> QED
    BY <2>3, <2>4
<1> QED
  BY <1>1, <1>6, ReadOnlyOfList DEF EmptyOnceReadOnly

LEMMA NotListed ==
  ASSUME NEW t, NEW u, \A a \in Attr : t.changes[<<u, a>>] = 0
  PROVE  ~Listed(t, u)
<1>1. \A a \in Attr : ~(t.changes[<<u, a>>] > 0)
  OBVIOUS
<1> QED
  BY <1>1 DEF Listed

LEMMA ReleaseReadOnly ==
  ASSUME TypeOK, ReadOnlyHasNoChanges, Release
  PROVE  ReadOnlyHasNoChanges'
<1>1. PICK u \in Held :
        transactionList' =
          [i \in DOMAIN transactionList |-> WithoutEntries(transactionList[i], u)]
  BY DEF Release, GiveUp
<1>2. u \in Uuid
  BY DEF TypeOK, Held
<1>3. \A i \in DOMAIN transactionList :
        transactionList'[i].readOnly = transactionList[i].readOnly
  BY <1>1, <1>2, WithoutIsTransaction, ElementIsTransaction
<1>4. \A i \in DOMAIN transactionList :
        IsReadOnly(transactionList'[i]) <=> IsReadOnly(transactionList[i])
  BY <1>3 DEF IsReadOnly
<1>5. WithoutEntries(NewTransaction(TRUE), u) = NewTransaction(TRUE)
  <2> DEFINE e == NewTransaction(TRUE)
             w == WithoutEntries(e, u)
  <2>1. \A a \in Attr : e.changes[<<u, a>>] = 0
    BY <1>2 DEF NewTransaction, Cell
  <2>2. ~Listed(e, u)
    BY <2>1, NotListed
  <2>3. w.changes = e.changes
    BY DEF WithoutEntries, NewTransaction
  <2>4. e.dangling = FALSE
    BY DEF NewTransaction
  <2>5. e \in Transaction /\ w \in Transaction
    BY <1>2, NewIsTransaction, WithoutIsTransaction
  <2>6. w.readOnly = e.readOnly /\ w.created = e.created /\ w.deleted = e.deleted
    BY DEF WithoutEntries, NewTransaction
  <2>7. w.dangling = (e.dangling \/ Listed(e, u))
    <3> HIDE DEF e
    <3> QED
      BY <2>5 DEF WithoutEntries, Transaction
  <2> HIDE DEF e, w
  <2>8. w.dangling = e.dangling
    BY <2>2, <2>4, <2>7
  <2>9. w = e
    BY <2>3, <2>5, <2>6, <2>8 DEF Transaction
  <2> QED
    BY <2>9 DEF e, w
<1>6. EmptyOnceReadOnly(transactionList)
  BY ReadOnlyOfList
<1>7. EmptyOnceReadOnly(transactionList')
  BY <1>1, <1>4, <1>5, <1>6 DEF EmptyOnceReadOnly
<1> QED
  BY <1>7, ReadOnlyOfList

(* A call that changes the innermost of transactions that may write.       *)
LEMMA WriteReadOnly ==
  ASSUME TypeOK, ReadOnlyHasNoChanges, InWriteTransaction,
         NEW t \in Transaction, t.readOnly = Current.readOnly,
         transactionList' = WithCurrent(t)
  PROVE  ReadOnlyHasNoChanges'
<1>1. InTransaction /\ ~IsReadOnly(Current)
  BY WriterIsNotReadOnly
<1>2. ~IsReadOnly(t)
  BY <1>1 DEF IsReadOnly
<1>3. /\ DOMAIN transactionList' = 1 .. Depth
      /\ Depth \in Nat /\ DOMAIN transactionList = 1 .. Depth
      /\ transactionList'[Depth] = t
      /\ \A i \in 1 .. Depth - 1 : transactionList'[i] = transactionList[i]
  BY <1>1, WithCurrentReplaces, ListsOfSameLength
<1>4. \A i \in 1 .. Depth : ~IsReadOnly(transactionList'[i])
  <2> SUFFICES ASSUME NEW i \in 1 .. Depth PROVE ~IsReadOnly(transactionList'[i])
    OBVIOUS
  <2>1. CASE i = Depth
    BY <1>2, <1>3, <2>1
  <2>2. CASE i # Depth
    <3>1. i \in 1 .. Depth - 1 /\ i \in DOMAIN transactionList
      BY <1>3, <2>2
    <3> QED
      BY <1>3, <3>1, WritersAreNotInside
  <2> QED
    BY <2>1, <2>2
<1>5. EmptyOnceReadOnly(transactionList')
  BY <1>3, <1>4 DEF EmptyOnceReadOnly
<1> QED
  BY <1>5, ReadOnlyOfList

LEMMA CreateReadOnly ==
  ASSUME TypeOK, ReadOnlyHasNoChanges, CreateObject
  PROVE  ReadOnlyHasNoChanges'
<1>1. InWriteTransaction /\ Current \in Transaction
  BY CurrentIsTransaction DEF CreateObject, Create, InWriteTransaction
<1>2. PICK u \in Uuid :
        transactionList' = WithCurrent([Current EXCEPT !.created = @ \cup {u}])
  BY DEF CreateObject, Create
<1> DEFINE t == [Current EXCEPT !.created = @ \cup {u}]
<1>3. t \in Transaction /\ t.readOnly = Current.readOnly
  BY <1>1 DEF Transaction
<1> HIDE DEF t
<1>4. transactionList' = WithCurrent(t)
  BY <1>2 DEF t
<1> QED
  BY <1>1, <1>3, <1>4, WriteReadOnly

LEMMA DeleteReadOnly ==
  ASSUME TypeOK, ReadOnlyHasNoChanges, DeleteObject
  PROVE  ReadOnlyHasNoChanges'
<1>1. InWriteTransaction /\ Current \in Transaction
  BY CurrentIsTransaction DEF DeleteObject, InWriteTransaction
<1>2. PICK u \in Uuid :
        transactionList' = WithCurrent([Current EXCEPT !.deleted = @ \cup {u}])
  BY DEF DeleteObject, TypeOK
<1> DEFINE t == [Current EXCEPT !.deleted = @ \cup {u}]
<1>3. t \in Transaction /\ t.readOnly = Current.readOnly
  BY <1>1 DEF Transaction
<1> HIDE DEF t
<1>4. transactionList' = WithCurrent(t)
  BY <1>2 DEF t
<1> QED
  BY <1>1, <1>3, <1>4, WriteReadOnly

LEMMA SameListReadOnly ==
  ASSUME ReadOnlyHasNoChanges, transactionList' = transactionList
  PROVE  ReadOnlyHasNoChanges'
BY ReadOnlyOfList

LEMMA SetReadOnly ==
  ASSUME TInv, ReadOnlyHasNoChanges, SetAttributeValue
  PROVE  ReadOnlyHasNoChanges'
<1>1. CASE \E how \in {"assert", "freed"} : Dies(how)
  BY <1>1, SameListReadOnly DEF Dies
<1>2. CASE ~\E how \in {"assert", "freed"} : Dies(how)
  <2>1. InWriteTransaction
    BY SetElim
  <2>2. PICK u \in Held, a \in Attr, new \in Contents :
          /\ new \in Content(a)
          /\ objectHash[u][a] # << >> \/ Loadable(u)
          /\ Pushed(u, a, new)
    BY <1>2, SetElim
  <2>3. PICK t \in Transaction :
          t.readOnly = Current.readOnly /\ transactionList' = WithCurrent(t)
    BY <2>1, <2>2, PushedElim
  <2> QED
    BY <2>1, <2>3, WriteReadOnly DEF TInv
<1> QED
  BY <1>1, <1>2

LEMMA AbortReadOnly ==
  ASSUME TypeOK, ReadOnlyHasNoChanges, AbortTransaction
  PROVE  ReadOnlyHasNoChanges'
<1>1. /\ \A i \in DOMAIN transactionList' :
            i \in DOMAIN transactionList /\ transactionList'[i] = transactionList[i]
  BY AbortShortens, ListsOfSameLength
<1>2. EmptyOnceReadOnly(transactionList')
  BY <1>1, ReadOnlyOfList DEF EmptyOnceReadOnly
<1> QED
  BY <1>2, ReadOnlyOfList

LEMMA NextReadOnly ==
  ASSUME TInv, ReadOnlyHasNoChanges, [Next]_vars
  PROVE  ReadOnlyHasNoChanges'
<1> USE DEF TInv
<1>1. CASE transactionList' = << >>
  <2>1. EmptyOnceReadOnly(transactionList')
    BY <1>1 DEF EmptyOnceReadOnly
  <2> QED
    BY <2>1, ReadOnlyOfList
<1>2. \/ transactionList' = transactionList \/ transactionList' = << >>
      \/ AbortTransaction \/ BeginTransaction \/ CommitNested \/ CreateObject
      \/ DeleteObject \/ Release \/ SetAttributeValue
  BY DEF Next, vars, CommitFinal, CommitDies, AbortDies, Object, Fetch, GetAttributeValue, Get,
         GetCollectionValue, GetCollection, SetCollectionValue, Close, Destroy, Dies
<1> QED
  BY <1>1, <1>2, SameListReadOnly, AbortReadOnly, BeginReadOnly, CommitNestedReadOnly,
     CreateReadOnly, DeleteReadOnly, ReleaseReadOnly, SetReadOnly

(* CoreProject.cpp:210: no transaction inside a read-only one, at any      *)
(* depth, has anything to commit or abort.                                 *)
THEOREM ReadOnlyIsEmpty == Spec => []ReadOnlyHasNoChanges
<1>1. Init => ReadOnlyHasNoChanges
  BY DEF Init, ReadOnlyHasNoChanges
<1>2. Spec => []TInv
  BY InitTInv, NextTInv, PTL DEF Spec
<1>3. TInv /\ ReadOnlyHasNoChanges /\ [Next]_vars => ReadOnlyHasNoChanges'
  BY NextReadOnly
<1> QED
  BY <1>1, <1>2, <1>3, PTL DEF Spec

--------------------------------------------------------------------------------
(* What storage holds while transactions are open.                         *)

HasCreated(list, u) == \E j \in DOMAIN list : u \in list[j].created

NamesAreUsed ==
  /\ DOMAIN store \subseteq usedUuids
  /\ DOMAIN base \subseteq usedUuids
  /\ Held \subseteq usedUuids

CreatedAreNew == \A u \in Uuid : HasCreated(transactionList, u) => u \notin DOMAIN base

(* An object in use is locked: it cannot be deleted.                       *)
HeldAreStored == Held \cap DOMAIN base \subseteq DOMAIN store

StoreWaits ==
  \A u \in DOMAIN store :
    \/ u \in DOMAIN base /\ store[u] = base[u]
    \/ HasCreated(transactionList, u) /\ store[u] = Blank

(* An abort at any depth rests on all of it: what it takes back is not in  *)
(* base, and what it leaves in memory is not gone from storage.            *)
StoreInv ==
  /\ NamesAreUsed
  /\ CreatedAreNew
  /\ HeldAreStored
  /\ ~InTransaction => base = store
  /\ StoreWaits

LEMMA InitStore == Init => StoreInv
BY DEF Init, StoreInv, NamesAreUsed, CreatedAreNew, HeldAreStored, StoreWaits, HasCreated, Held

(* Calls that leave storage as it is.                                      *)
LEMMA SameStore ==
  ASSUME TypeOK, StoreInv,
         UNCHANGED <<store, base, usedUuids>>,
         Held' \subseteq Held \cup DOMAIN store,
         InTransaction => InTransaction',
         \A u \in Uuid : HasCreated(transactionList', u) <=> HasCreated(transactionList, u)
  PROVE  StoreInv'
<1>1. NamesAreUsed' /\ HeldAreStored' /\ (~InTransaction' => base' = store')
  BY DEF StoreInv, NamesAreUsed, HeldAreStored
<1>2. CreatedAreNew'
  BY DEF StoreInv, CreatedAreNew
<1>3. DOMAIN store \subseteq Uuid
  BY DEF TypeOK
<1>4. StoreWaits'
  BY <1>3 DEF StoreInv, StoreWaits
<1> QED
  BY <1>1, <1>2, <1>4 DEF StoreInv

LEMMA SameListStore ==
  ASSUME TypeOK, StoreInv,
         UNCHANGED <<store, base, usedUuids, transactionList>>,
         Held' \subseteq Held \cup DOMAIN store
  PROVE  StoreInv'
<1>1. InTransaction => InTransaction'
  BY DEF InTransaction
<1> QED
  BY <1>1, SameStore

LEMMA BeginStore ==
  ASSUME TypeOK, StoreInv, BeginTransaction
  PROVE  StoreInv'
<1>1. PICK ro \in BOOLEAN : transactionList' = Append(transactionList, NewTransaction(ro))
  BY DEF BeginTransaction, Begin
<1> DEFINE t == NewTransaction(ro)
<1>2. t \in Transaction /\ t.created = {}
  BY NewIsTransaction DEF NewTransaction
<1> HIDE DEF t
<1>3. transactionList' = Append(transactionList, t)
  BY <1>1 DEF t
<1>4. /\ Depth \in Nat /\ DOMAIN transactionList = 1 .. Depth
      /\ DOMAIN transactionList' = 1 .. Depth + 1
      /\ transactionList'[Depth + 1] = t
      /\ \A i \in 1 .. Depth : transactionList'[i] = transactionList[i]
  BY <1>2, <1>3 DEF TypeOK, Depth
<1>5. \A u \in Uuid : HasCreated(transactionList', u) <=> HasCreated(transactionList, u)
  <2> SUFFICES ASSUME NEW u \in Uuid
               PROVE  HasCreated(transactionList', u) <=> HasCreated(transactionList, u)
    OBVIOUS
  <2>1. ASSUME NEW j \in DOMAIN transactionList', u \in transactionList'[j].created
        PROVE  j \in DOMAIN transactionList /\ u \in transactionList[j].created
    BY <1>2, <1>4, <2>1
  <2>2. ASSUME NEW j \in DOMAIN transactionList, u \in transactionList[j].created
        PROVE  j \in DOMAIN transactionList' /\ u \in transactionList'[j].created
    BY <1>4, <2>2
  <2> QED
    BY <2>1, <2>2 DEF HasCreated
<1>6. UNCHANGED <<store, base, usedUuids>> /\ Held' = Held
  BY DEF BeginTransaction, Begin, StoreInv, Held
<1>7. InTransaction'
  <2>1. transactionList' # << >>
    BY <1>4
  <2> QED
    BY <2>1 DEF InTransaction
<1> QED
  BY <1>5, <1>6, <1>7, SameStore

LEMMA CommitNestedStore ==
  ASSUME TypeOK, StoreInv, CommitNested
  PROVE  StoreInv'
<1> DEFINE n == Depth - 1
           outer == transactionList[n]
           inner == transactionList[n + 1]
<1>1. /\ n \in Nat \ {0}
      /\ DOMAIN transactionList = 1 .. n + 1
      /\ DOMAIN transactionList' = 1 .. n
      /\ transactionList'[n] = Merged(outer, inner)
      /\ \A i \in 1 .. n - 1 : transactionList'[i] = transactionList[i]
  BY CommitNestedMerges, ListsOfSameLength
<1> HIDE DEF n
<1>2. n \in DOMAIN transactionList /\ n + 1 \in DOMAIN transactionList
  BY <1>1
<1>3. outer \in Transaction /\ inner \in Transaction
  BY <1>2, ElementIsTransaction
<1>4. transactionList'[n].created = outer.created \cup inner.created
  BY <1>1, <1>3, MergedIsTransaction
<1>5. \A u \in Uuid : HasCreated(transactionList', u) <=> HasCreated(transactionList, u)
  <2> SUFFICES ASSUME NEW u \in Uuid
               PROVE  HasCreated(transactionList', u) <=> HasCreated(transactionList, u)
    OBVIOUS
  <2>1. ASSUME NEW j \in DOMAIN transactionList', u \in transactionList'[j].created
        PROVE  HasCreated(transactionList, u)
    <3>1. CASE j = n
      BY <1>2, <1>4, <2>1, <3>1 DEF HasCreated
    <3>2. CASE j # n
      BY <1>1, <2>1, <3>2 DEF HasCreated
    <3> QED
      BY <3>1, <3>2
  <2>2. ASSUME NEW j \in DOMAIN transactionList, u \in transactionList[j].created
        PROVE  HasCreated(transactionList', u)
    <3>1. CASE j \in {n, n + 1}
      <4>1. u \in transactionList'[n].created /\ n \in DOMAIN transactionList'
        BY <1>1, <1>4, <2>2, <3>1
      <4> QED
        BY <4>1 DEF HasCreated
    <3>2. CASE j \notin {n, n + 1}
      <4>1. j \in 1 .. n - 1 /\ j \in DOMAIN transactionList'
        BY <1>1, <3>2
      <4> QED
        BY <1>1, <2>2, <4>1 DEF HasCreated
    <3> QED
      BY <3>1, <3>2
  <2> QED
    BY <2>1, <2>2 DEF HasCreated
<1>6. UNCHANGED <<store, base, usedUuids>> /\ Held' = Held
  BY DEF CommitNested, Held
<1>7. InTransaction'
  <2>1. transactionList' # << >>
    BY <1>1
  <2> QED
    BY <2>1 DEF InTransaction
<1> QED
  BY <1>5, <1>6, <1>7, SameStore

LEMMA CommitFinalStore ==
  ASSUME TypeOK, StoreInv, CommitFinal
  PROVE  StoreInv'
<1>1. DOMAIN store' \subseteq DOMAIN store /\ DOMAIN objectHash' = DOMAIN objectHash
  BY DEF CommitFinal
<1>2. base' = store' /\ usedUuids' = usedUuids
  BY DEF CommitFinal
<1>3. transactionList' = << >>
  BY DEF CommitFinal
<1>4. NamesAreUsed' /\ HeldAreStored'
  BY <1>1, <1>2 DEF StoreInv, NamesAreUsed, HeldAreStored, Held
<1>5. CreatedAreNew'
  BY <1>3 DEF CreatedAreNew, HasCreated
<1>6. StoreWaits'
  BY <1>2 DEF StoreWaits
<1> QED
  BY <1>2, <1>4, <1>5, <1>6 DEF StoreInv

LEMMA AbortStore ==
  ASSUME TypeOK, StoreInv, AbortTransaction
  PROVE  StoreInv'
<1>1. UNCHANGED <<base, usedUuids>> /\ Held' = Held
  BY DEF AbortTransaction, Held
<1>2. InTransaction /\ Depth \in Nat \ {0} /\ Current = transactionList[Depth]
  BY CurrentIsTransaction DEF AbortTransaction
<1>3. /\ DOMAIN transactionList = 1 .. Depth
      /\ DOMAIN transactionList' = 1 .. Depth - 1
      /\ \A i \in 1 .. Depth - 1 : transactionList'[i] = transactionList[i]
  BY AbortShortens, ListsOfSameLength
<1>4. \A u \in Uuid : HasCreated(transactionList', u) => HasCreated(transactionList, u)
  BY <1>2, <1>3 DEF HasCreated
<1>5. CreatedAreNew'
  BY <1>1, <1>4 DEF StoreInv, CreatedAreNew
<1>6. CASE Depth = 1
  <2>1. store' = base
    BY <1>6 DEF AbortTransaction, StoreAfterAbort, Depth
  <2> QED
    BY <1>1, <1>5, <2>1
    DEF StoreInv, NamesAreUsed, HeldAreStored, StoreWaits
<1>7. CASE Depth # 1
  <2>1. store' = Restrict(store, DOMAIN store \ Current.created)
    BY <1>7 DEF AbortTransaction, StoreAfterAbort, Depth
  <2>2. /\ DOMAIN store' = DOMAIN store \ Current.created
        /\ \A u \in DOMAIN store' : store'[u] = store[u]
    BY <2>1 DEF Restrict
  <2>3. ASSUME NEW u \in Uuid, u \in Current.created
        PROVE  u \notin DOMAIN base
    <3>1. HasCreated(transactionList, u)
      BY <1>2, <1>3, <2>3 DEF HasCreated
    <3> QED
      BY <3>1 DEF StoreInv, CreatedAreNew
  <2>4. NamesAreUsed' /\ HeldAreStored'
    <3>1. DOMAIN base \subseteq Uuid
      BY DEF TypeOK
    <3> QED
      BY <1>1, <2>2, <2>3, <3>1 DEF StoreInv, NamesAreUsed, HeldAreStored
  <2>5. InTransaction'
    <3>1. 1 \in DOMAIN transactionList'
      BY <1>2, <1>3, <1>7
    <3>2. transactionList' # << >>
      BY <3>1
    <3> QED
      BY <3>2 DEF InTransaction
  <2>6. StoreWaits'
    <3> SUFFICES ASSUME NEW u \in DOMAIN store'
                 PROVE  \/ u \in DOMAIN base /\ store'[u] = base[u]
                        \/ HasCreated(transactionList', u) /\ store'[u] = Blank
      BY <1>1 DEF StoreWaits
    <3>1. u \in DOMAIN store /\ u \notin Current.created /\ store'[u] = store[u]
      BY <2>2
    <3>2. CASE u \in DOMAIN base /\ store[u] = base[u]
      BY <3>1, <3>2
    <3>3. CASE HasCreated(transactionList, u) /\ store[u] = Blank
      <4>1. PICK j \in DOMAIN transactionList : u \in transactionList[j].created
        BY <3>3 DEF HasCreated
      <4>2. j # Depth
        BY <1>2, <3>1, <4>1
      <4>3. j \in DOMAIN transactionList' /\ transactionList'[j] = transactionList[j]
        BY <1>2, <1>3, <4>2
      <4> QED
        BY <3>1, <3>3, <4>1, <4>3 DEF HasCreated
    <3> QED
      BY <3>1, <3>2, <3>3 DEF StoreInv, StoreWaits
  <2> QED
    BY <1>5, <2>4, <2>5, <2>6 DEF StoreInv
<1> QED
  BY <1>6, <1>7

LEMMA ObjectStore ==
  ASSUME TypeOK, StoreInv, Object
  PROVE  StoreInv'
<1>1. UNCHANGED <<store, base, usedUuids, transactionList>>
  BY DEF Object, Fetch, Dies
<1>2. Held' \subseteq Held \cup DOMAIN store
  <2>1. PICK u \in Uuid \ Held :
          IF u \in DOMAIN store THEN objectHash' = With(objectHash, u, NotLoaded)
          ELSE Dies("assert")
    BY DEF Object, Fetch
  <2>2. CASE u \in DOMAIN store
    <3>1. objectHash' = With(objectHash, u, NotLoaded)
      BY <2>1, <2>2
    <3>2. DOMAIN objectHash' = DOMAIN objectHash \cup {u}
      BY <3>1 DEF With
    <3> QED
      BY <2>2, <3>2 DEF Held
  <2>3. CASE u \notin DOMAIN store
    BY <2>1, <2>3 DEF Dies, Held
  <2> QED
    BY <2>2, <2>3
<1> QED
  BY <1>1, <1>2, SameListStore

(* The innermost transaction takes a list of objects that are created.     *)
LEMMA CreatesWithCurrent ==
  ASSUME TypeOK, InTransaction, NEW t \in Transaction, NEW S \in SUBSET Uuid,
         t.created = Current.created \cup S,
         transactionList' = WithCurrent(t)
  PROVE  /\ InTransaction'
         /\ \A u \in Uuid :
              HasCreated(transactionList', u) <=> HasCreated(transactionList, u) \/ u \in S
<1>1. /\ Depth \in Nat \ {0} /\ Current = transactionList[Depth]
      /\ DOMAIN transactionList = 1 .. Depth
      /\ DOMAIN transactionList' = 1 .. Depth
      /\ transactionList'[Depth] = t
      /\ \A i \in 1 .. Depth - 1 : transactionList'[i] = transactionList[i]
  BY CurrentIsTransaction, ListsOfSameLength, WithCurrentReplaces
<1>2. Depth \in DOMAIN transactionList'
  BY <1>1
<1>3. InTransaction'
  <2>1. transactionList' # << >>
    BY <1>2
  <2> QED
    BY <2>1 DEF InTransaction
<1>4. ASSUME NEW u \in Uuid, NEW j \in DOMAIN transactionList', u \in transactionList'[j].created
      PROVE  HasCreated(transactionList, u) \/ u \in S
  <2>1. CASE j = Depth
    BY <1>1, <1>4, <2>1 DEF HasCreated
  <2>2. CASE j # Depth
    <3>1. j \in 1 .. Depth - 1 /\ j \in DOMAIN transactionList
      BY <1>1, <2>2
    <3> QED
      BY <1>1, <1>4, <3>1 DEF HasCreated
  <2> QED
    BY <2>1, <2>2
<1>5. ASSUME NEW u \in Uuid, NEW j \in DOMAIN transactionList, u \in transactionList[j].created
      PROVE  HasCreated(transactionList', u)
  <2>1. CASE j = Depth
    BY <1>1, <1>2, <1>5, <2>1 DEF HasCreated
  <2>2. CASE j # Depth
    <3>1. j \in 1 .. Depth - 1 /\ j \in DOMAIN transactionList'
      BY <1>1, <2>2
    <3> QED
      BY <1>1, <1>5, <3>1 DEF HasCreated
  <2> QED
    BY <2>1, <2>2
<1>6. ASSUME NEW u \in S
      PROVE  HasCreated(transactionList', u)
  <2>1. u \in transactionList'[Depth].created
    BY <1>1
  <2> QED
    BY <1>2, <2>1 DEF HasCreated
<1> QED
  BY <1>3, <1>4, <1>5, <1>6 DEF HasCreated

LEMMA CreateStore ==
  ASSUME TypeOK, StoreInv, CreateObject
  PROVE  StoreInv'
<1>1. InTransaction /\ Current \in Transaction
  BY CurrentIsTransaction DEF CreateObject, Create, InWriteTransaction
<1>2. PICK u \in Uuid \ usedUuids :
        /\ usedUuids' = usedUuids \cup {u}
        /\ store' = With(store, u, Blank)
        /\ objectHash' = With(objectHash, u, NotLoaded)
        /\ transactionList' = WithCurrent([Current EXCEPT !.created = @ \cup {u}])
  BY DEF CreateObject, Create
<1>3. base' = base
  BY DEF CreateObject, Create
<1> DEFINE t == [Current EXCEPT !.created = @ \cup {u}]
<1>4. t \in Transaction /\ t.created = Current.created \cup {u}
  BY <1>1 DEF Transaction
<1> HIDE DEF t
<1>5. transactionList' = WithCurrent(t)
  BY <1>2 DEF t
<1>6. /\ InTransaction'
      /\ \A v \in Uuid :
           HasCreated(transactionList', v) <=> HasCreated(transactionList, v) \/ v \in {u}
  <2>1. {u} \in SUBSET Uuid
    OBVIOUS
  <2> QED
    BY <1>1, <1>4, <1>5, <2>1, CreatesWithCurrent
<1>7. /\ DOMAIN store' = DOMAIN store \cup {u} /\ store'[u] = Blank
      /\ \A v \in DOMAIN store \ {u} : store'[v] = store[v]
      /\ Held' = Held \cup {u}
  <2>1. store' = With(store, u, Blank) /\ objectHash' = With(objectHash, u, NotLoaded)
    BY <1>2
  <2> QED
    BY <2>1 DEF With, Held
<1>8. u \notin DOMAIN store /\ u \notin DOMAIN base /\ u \notin Held
  BY <1>2 DEF StoreInv, NamesAreUsed
<1>9. NamesAreUsed' /\ HeldAreStored'
  BY <1>2, <1>3, <1>7, <1>8 DEF StoreInv, NamesAreUsed, HeldAreStored
<1>10. CreatedAreNew'
  BY <1>3, <1>6, <1>8 DEF StoreInv, CreatedAreNew
<1>11. StoreWaits'
  <2> SUFFICES ASSUME NEW v \in DOMAIN store'
               PROVE  \/ v \in DOMAIN base /\ store'[v] = base[v]
                      \/ HasCreated(transactionList', v) /\ store'[v] = Blank
    BY <1>3 DEF StoreWaits
  <2>1. CASE v = u
    BY <1>2, <1>6, <1>7, <2>1
  <2>2. CASE v # u
    <3>1. v \in DOMAIN store /\ v \in Uuid /\ store'[v] = store[v]
      BY <1>7, <2>2 DEF TypeOK
    <3> QED
      BY <1>6, <3>1 DEF StoreInv, StoreWaits
  <2> QED
    BY <2>1, <2>2
<1> QED
  BY <1>6, <1>9, <1>10, <1>11 DEF StoreInv

LEMMA DeleteStore ==
  ASSUME TypeOK, StoreInv, DeleteObject
  PROVE  StoreInv'
<1>1. InTransaction /\ Current \in Transaction
  BY CurrentIsTransaction DEF DeleteObject, InWriteTransaction
<1>2. PICK u \in DOMAIN store \ (Held \cup {Root}) :
        /\ store' = Restrict(store, DOMAIN store \ {u})
        /\ transactionList' = WithCurrent([Current EXCEPT !.deleted = @ \cup {u}])
  BY DEF DeleteObject
<1>3. UNCHANGED <<base, usedUuids>> /\ Held' = Held
  BY DEF DeleteObject, Held
<1> DEFINE t == [Current EXCEPT !.deleted = @ \cup {u}]
<1>4. t \in Transaction /\ t.created = Current.created \cup {}
  BY <1>1, <1>2 DEF Transaction, TypeOK
<1> HIDE DEF t
<1>5. transactionList' = WithCurrent(t)
  BY <1>2 DEF t
<1>6. /\ InTransaction'
      /\ \A v \in Uuid : HasCreated(transactionList', v) <=> HasCreated(transactionList, v)
  <2>1. {} \in SUBSET Uuid
    OBVIOUS
  <2> QED
    BY <1>1, <1>4, <1>5, <2>1, CreatesWithCurrent
<1>7. DOMAIN store' = DOMAIN store \ {u} /\ \A v \in DOMAIN store' : store'[v] = store[v]
  BY <1>2 DEF Restrict
<1>8. NamesAreUsed' /\ HeldAreStored'
  BY <1>2, <1>3, <1>7 DEF StoreInv, NamesAreUsed, HeldAreStored
<1>9. CreatedAreNew'
  BY <1>3, <1>6 DEF StoreInv, CreatedAreNew
<1>10. DOMAIN store \subseteq Uuid
  BY DEF TypeOK
<1>11. StoreWaits'
  BY <1>3, <1>6, <1>7, <1>10 DEF StoreInv, StoreWaits
<1> QED
  BY <1>6, <1>8, <1>9, <1>11 DEF StoreInv

LEMMA ReleaseStore ==
  ASSUME TypeOK, StoreInv, Release
  PROVE  StoreInv'
<1>1. PICK u \in Held :
        /\ objectHash' = Restrict(objectHash, Held \ {u})
        /\ transactionList' =
             [i \in DOMAIN transactionList |-> WithoutEntries(transactionList[i], u)]
  BY DEF Release, GiveUp
<1>2. UNCHANGED <<store, base, usedUuids>> /\ Held' \subseteq Held
  BY <1>1 DEF Release, GiveUp, Restrict, Held
<1>3. u \in Uuid /\ DOMAIN transactionList' = DOMAIN transactionList
  BY <1>1 DEF TypeOK, Held
<1>4. \A i \in DOMAIN transactionList :
        transactionList'[i].created = transactionList[i].created
  BY <1>1, <1>3, ElementIsTransaction, WithoutIsTransaction
<1>5. \A v \in Uuid : HasCreated(transactionList', v) <=> HasCreated(transactionList, v)
  BY <1>3, <1>4 DEF HasCreated
<1>6. InTransaction => InTransaction'
  <2>1. transactionList # << >> => 1 \in DOMAIN transactionList'
    BY <1>3 DEF TypeOK
  <2> QED
    BY <2>1 DEF InTransaction
<1> QED
  BY <1>2, <1>5, <1>6, SameStore

LEMMA SetStore ==
  ASSUME TInv, StoreInv, SetAttributeValue
  PROVE  StoreInv'
<1> USE DEF TInv
<1>1. CASE \E how \in {"assert", "freed"} : Dies(how)
  BY <1>1, SameListStore DEF Dies, Held
<1>2. CASE ~\E how \in {"assert", "freed"} : Dies(how)
  <2>1. InWriteTransaction /\ InTransaction
    BY SetElim DEF InWriteTransaction
  <2>2. PICK u \in Held, a \in Attr, new \in Contents :
          /\ new \in Content(a)
          /\ objectHash[u][a] # << >> \/ Loadable(u)
          /\ Pushed(u, a, new)
    BY <1>2, SetElim
  <2>3. UNCHANGED <<store, base, usedUuids>> /\ Held' = Held
    BY <2>1, <2>2, PushedElim
  <2>4. PICK t \in Transaction :
          t.created = Current.created /\ transactionList' = WithCurrent(t)
    BY <2>1, <2>2, PushedElim
  <2>5. t.created = Current.created \cup {} /\ {} \in SUBSET Uuid
    BY <2>4
  <2>6. /\ InTransaction'
        /\ \A v \in Uuid : HasCreated(transactionList', v) <=> HasCreated(transactionList, v)
    BY <2>1, <2>4, <2>5, CreatesWithCurrent
  <2> QED
    BY <2>3, <2>6, SameStore
<1> QED
  BY <1>1, <1>2

LEMMA NextStore ==
  ASSUME TInv, StoreInv, [Next]_vars
  PROVE  StoreInv'
<1> USE DEF TInv
<1>1. CASE UNCHANGED <<store, base, usedUuids, transactionList>> /\ Held' = Held
  BY <1>1, SameListStore
<1>2. \/ UNCHANGED <<store, base, usedUuids, transactionList>> /\ Held' = Held
      \/ BeginTransaction \/ CommitNested \/ CommitFinal \/ AbortTransaction
      \/ Object \/ CreateObject \/ DeleteObject \/ Release \/ SetAttributeValue
  BY DEF Next, vars, CommitDies, AbortDies, GetAttributeValue, Get,
         GetCollectionValue, GetCollection,
         SetCollectionValue, Close, Destroy, Dies, Held
<1> QED
  BY <1>1, <1>2, BeginStore, CommitNestedStore, CommitFinalStore, AbortStore, ObjectStore,
     CreateStore, DeleteStore, ReleaseStore, SetStore

LEMMA StoreCorrect == Spec => [](TInv /\ StoreInv)
<1>1. TInv /\ StoreInv /\ [Next]_vars => TInv' /\ StoreInv'
  BY NextTInv, NextStore
<1> QED
  BY <1>1, InitTInv, InitStore, PTL DEF Spec

LEMMA StoreInvWaits == TInv /\ StoreInv => StorageWaits
<1> SUFFICES ASSUME TInv, StoreInv, NEW u \in DOMAIN store
             PROVE  \/ u \in DOMAIN base /\ store[u] = base[u]
                    \/ u \in CreatedDeeper(0) /\ store[u] = Blank
  BY DEF StorageWaits
<1>1. DOMAIN transactionList = 0 + 1 .. Len(transactionList)
  BY ListsOfSameLength DEF TInv, Depth
<1>2. HasCreated(transactionList, u) => u \in CreatedDeeper(0)
  BY <1>1 DEF HasCreated, CreatedDeeper
<1> QED
  BY <1>2 DEF StoreInv, StoreWaits

(* CoreProject.cpp:248: whatever clients do, at any depth, storage holds   *)
(* what it held when the outermost transaction began, less what was        *)
(* deleted, and new objects that an open transaction lists.                *)
THEOREM WaitsForTheOutermost == Spec => []StorageWaits
BY StoreInvWaits, StoreCorrect, PTL

--------------------------------------------------------------------------------
(* The values that attributes keep.                                        *)

(* LoadedIsStored, also of a project that died.                            *)
FirstIsStored ==
  \A u \in Held, a \in Attr :
    u \in DOMAIN store /\ objectHash[u][a] # << >> => objectHash[u][a][1] = store[u][a]

LEMMA SameValues ==
  ASSUME FirstIsStored, UNCHANGED store, UNCHANGED objectHash
  PROVE  FirstIsStored'
BY DEF FirstIsStored, Held

LEMMA CommitFinalValues ==
  ASSUME TInv, FirstIsStored, CommitFinal
  PROVE  FirstIsStored'
<1> DEFINE done == {k \in Written : ~Refused(k)}
<1>1. /\ store' = [u \in DOMAIN store \ Current.deleted |->
                    [a \in Attr |-> IF <<u, a>> \in done THEN LastValue(<<u, a>>)
                                    ELSE store[u][a]]]
      /\ objectHash' = [u \in DOMAIN objectHash |->
                         [a \in Attr |-> IF <<u, a>> \in done
                                         THEN Condensed(objectHash[u][a])
                                         ELSE objectHash[u][a]]]
  BY DEF CommitFinal
<1> HIDE DEF done
<1>2. ASSUME NEW u \in Held', NEW a \in Attr, u \in DOMAIN store', objectHash'[u][a] # << >>
      PROVE  objectHash'[u][a][1] = store'[u][a]
  <2>1. /\ u \in Held /\ u \in DOMAIN store
        /\ store'[u][a] = IF <<u, a>> \in done THEN LastValue(<<u, a>>) ELSE store[u][a]
        /\ objectHash'[u][a] = IF <<u, a>> \in done THEN Condensed(objectHash[u][a])
                               ELSE objectHash[u][a]
    BY <1>1, <1>2 DEF Held
  <2>2. CASE <<u, a>> \in done
    <3>1. objectHash'[u][a] = <<LastValue(<<u, a>>)>>
      BY <2>1, <2>2 DEF Condensed, LastValue
    <3> QED
      BY <2>1, <2>2, <3>1
  <2>3. CASE <<u, a>> \notin done
    BY <1>2, <2>1, <2>3 DEF FirstIsStored
  <2> QED
    BY <2>2, <2>3
<1> QED
  BY <1>2 DEF FirstIsStored

(* An abort never takes the value that was loaded.                         *)
LEMMA RevertedKeepsFirst ==
  ASSUME NEW S, NEW s \in Seq(S), NEW n \in Nat, n = 0 \/ Len(s) > n,
         Reverted(s, n) # << >>
  PROVE  s # << >> /\ Reverted(s, n)[1] = s[1]
<1>1. Len(s) \in Nat
  OBVIOUS
<1>2. Reverted(s, n) = SubSeq(s, 1, Len(s) - n)
  BY DEF Reverted
<1>3. CASE n = 0
  <2>1. SubSeq(s, 1, Len(s) - n) = s
    BY <1>1, <1>3
  <2> QED
    BY <1>2, <2>1
<1>4. CASE Len(s) > n
  <2> DEFINE m == Len(s) - n
  <2>1. m \in 1 .. Len(s)
    BY <1>1, <1>4
  <2>2. Reverted(s, n) = SubSeq(s, 1, m)
    BY <1>2
  <2> HIDE DEF m
  <2>3. SubSeq(s, 1, m)[1] = s[1] /\ s # << >>
    BY <1>1, <2>1
  <2> QED
    BY <2>2, <2>3
<1> QED
  BY <1>3, <1>4

LEMMA AbortValues ==
  ASSUME TInv, StoreInv, FirstIsStored, AbortTransaction
  PROVE  FirstIsStored'
<1>1. InTransaction /\ Current \in Transaction /\ Depth \in Nat \ {0}
      /\ Current = transactionList[Depth]
  BY CurrentIsTransaction DEF AbortTransaction, TInv
<1>2. DOMAIN transactionList = 1 .. Depth
  BY ListsOfSameLength DEF TInv
<1>3. ASSUME NEW u \in Held, u \in DOMAIN store'
      PROVE  u \in DOMAIN store /\ store'[u] = store[u]
  <2>1. CASE Depth = 1
    <3>1. store' = base
      BY <2>1 DEF AbortTransaction, StoreAfterAbort, Depth
    <3>2. u \in DOMAIN base /\ u \in DOMAIN store /\ u \in Uuid
      BY <1>3, <3>1 DEF StoreInv, HeldAreStored, TInv, TypeOK
    <3> QED
      BY <3>1, <3>2 DEF StoreInv, StoreWaits, CreatedAreNew
  <2>2. CASE Depth # 1
    <3>1. store' = Restrict(store, DOMAIN store \ Current.created)
      BY <2>2 DEF AbortTransaction, StoreAfterAbort, Depth
    <3> QED
      BY <1>3, <3>1 DEF Restrict
  <2> QED
    BY <2>1, <2>2
<1>4. ASSUME NEW u \in Held, NEW a \in Attr, u \in DOMAIN store', objectHash'[u][a] # << >>
      PROVE  objectHash'[u][a][1] = store'[u][a]
  <2> DEFINE n == Current.changes[<<u, a>>]
             s == objectHash[u][a]
  <2>1. u \in Uuid /\ s \in Seq(Contents) /\ n \in Nat
    BY <1>1, ChangesAreCounts DEF TInv, TypeOK, Held
  <2>2. objectHash'[u][a] = Reverted(s, n)
    BY DEF AbortTransaction, Held
  <2>3. n = 0 \/ Len(s) > n
    <3>1. ~(n > 0 /\ Len(s) <= n)
      <4>1. <<u, a>> \in Cell
        BY <2>1 DEF Cell
      <4>2. AbortFault = "none"
        BY DEF AbortTransaction
      <4> QED
        BY <4>1, <4>2 DEF AbortFault
    <3>2. Len(s) \in Nat
      BY <2>1
    <3> QED
      BY <2>1, <3>1, <3>2
  <2> HIDE DEF n
  <2>4. s # << >> /\ objectHash'[u][a][1] = s[1]
    BY <1>4, <2>1, <2>2, <2>3, RevertedKeepsFirst
  <2>5. u \in DOMAIN store /\ store'[u] = store[u]
    BY <1>3, <1>4
  <2> QED
    BY <2>4, <2>5 DEF FirstIsStored
<1>5. Held' = Held
  BY DEF AbortTransaction, Held
<1> QED
  BY <1>4, <1>5 DEF FirstIsStored

LEMMA ObjectValues ==
  ASSUME FirstIsStored, Object
  PROVE  FirstIsStored'
<1>1. PICK u \in Uuid \ Held :
        IF u \in DOMAIN store
        THEN objectHash' = With(objectHash, u, NotLoaded) /\ UNCHANGED store
        ELSE Dies("assert")
  BY DEF Object, Fetch
<1>2. CASE u \in DOMAIN store
  <2>1. UNCHANGED store /\ objectHash' = With(objectHash, u, NotLoaded)
    BY <1>1, <1>2
  <2> QED
    BY <2>1 DEF FirstIsStored, With, NotLoaded, Held
<1>3. CASE u \notin DOMAIN store
  BY <1>1, <1>3, SameValues DEF Dies
<1> QED
  BY <1>2, <1>3

LEMMA CreateValues ==
  ASSUME StoreInv, FirstIsStored, CreateObject
  PROVE  FirstIsStored'
<1>1. PICK u \in Uuid \ usedUuids :
        /\ store' = With(store, u, Blank)
        /\ objectHash' = With(objectHash, u, NotLoaded)
  BY DEF CreateObject, Create
<1>2. /\ DOMAIN store' = DOMAIN store \cup {u}
      /\ \A v \in DOMAIN store \ {u} : store'[v] = store[v]
      /\ Held' = Held \cup {u}
      /\ \A a \in Attr : objectHash'[u][a] = << >>
      /\ \A v \in Held \ {u} : objectHash'[v] = objectHash[v]
  BY <1>1 DEF With, NotLoaded, Held
<1> QED
  BY <1>2 DEF FirstIsStored

LEMMA DeleteValues ==
  ASSUME FirstIsStored, DeleteObject
  PROVE  FirstIsStored'
<1>1. /\ UNCHANGED objectHash
      /\ \A v \in DOMAIN store' : v \in DOMAIN store /\ store'[v] = store[v]
  BY DEF DeleteObject, Restrict
<1> QED
  BY <1>1 DEF FirstIsStored, Held

LEMMA ReleaseValues ==
  ASSUME FirstIsStored, Release
  PROVE  FirstIsStored'
<1>1. PICK u \in Held : objectHash' = Restrict(objectHash, Held \ {u})
  BY DEF Release, GiveUp
<1>2. Held' = Held \ {u} /\ \A v \in Held' : objectHash'[v] = objectHash[v]
  BY <1>1 DEF Restrict, Held
<1>3. UNCHANGED store
  BY DEF Release, GiveUp
<1> QED
  BY <1>2, <1>3 DEF FirstIsStored

(* The values of one attribute change, and the first stays what it was or  *)
(* is what storage has.                                                    *)
LEMMA ChangedValues ==
  ASSUME FirstIsStored, UNCHANGED store, Held' = Held,
         NEW u \in Held, NEW a \in Attr,
         u \in DOMAIN store => objectHash'[u][a][1] = Loaded(u, a)[1],
         \A v \in Held, b \in Attr :
           v # u \/ b # a => objectHash'[v][b] = objectHash[v][b]
  PROVE  FirstIsStored'
<1>1. ASSUME u \in DOMAIN store
      PROVE  Loaded(u, a)[1] = store[u][a]
  <2>1. CASE objectHash[u][a] = << >>
    BY <2>1 DEF Loaded
  <2>2. CASE objectHash[u][a] # << >>
    BY <1>1, <2>2 DEF Loaded, FirstIsStored
  <2> QED
    BY <2>1, <2>2
<1>2. ASSUME NEW v \in Held, NEW b \in Attr, v \in DOMAIN store, objectHash'[v][b] # << >>
      PROVE  objectHash'[v][b][1] = store[v][b]
  <2>1. CASE v = u /\ b = a
    BY <1>1, <1>2, <2>1
  <2>2. CASE v # u \/ b # a
    BY <1>2, <2>2 DEF FirstIsStored
  <2> QED
    BY <2>1, <2>2
<1> QED
  BY <1>2 DEF FirstIsStored

LEMMA GetValues ==
  ASSUME TInv, FirstIsStored, GetAttributeValue
  PROVE  FirstIsStored'
<1> USE DEF TInv
<1>1. PICK u \in Uuid, a \in Attr :
        /\ MayUse(u)
        /\ IF Loadable(u)
           THEN objectHash' = [objectHash EXCEPT ![u][a] = Loaded(u, a)] /\ UNCHANGED store
           ELSE Dies("assert")
  BY DEF GetAttributeValue, Get
<1>2. CASE Loadable(u)
  <2>1. u \in Held /\ UNCHANGED store
    BY <1>1, <1>2 DEF MayUse
  <2>2. Loaded(u, a) \in Seq(Contents)
    BY <1>2, <2>1, LoadedIsSequence
  <2>3. /\ DOMAIN objectHash' = Held
        /\ objectHash'[u][a] = Loaded(u, a)
        /\ \A v \in Held, b \in Attr :
             v # u \/ b # a => objectHash'[v][b] = objectHash[v][b]
    BY <1>1, <1>2, <2>1, <2>2, ChangedValuesType
  <2>4. Held' = Held /\ objectHash'[u][a][1] = Loaded(u, a)[1]
    BY <2>3 DEF Held
  <2> QED
    BY <2>1, <2>3, <2>4, ChangedValues
<1>3. CASE ~Loadable(u)
  BY <1>1, <1>3, SameValues DEF Dies
<1> QED
  BY <1>2, <1>3

LEMMA SetValues ==
  ASSUME TInv, FirstIsStored, SetAttributeValue
  PROVE  FirstIsStored'
<1>1. CASE \E how \in {"assert", "freed"} : Dies(how)
  BY <1>1, SameValues DEF Dies
<1>2. CASE ~\E how \in {"assert", "freed"} : Dies(how)
  <2>1. PICK u \in Held, a \in Attr, new \in Contents :
          /\ new \in Content(a)
          /\ objectHash[u][a] # << >> \/ Loadable(u)
          /\ Pushed(u, a, new)
    BY <1>2, SetElim
  <2>2. /\ Loaded(u, a) \in Seq(Contents) /\ Loaded(u, a) # << >>
        /\ Held' = Held /\ UNCHANGED store
        /\ objectHash'[u][a] = Append(Loaded(u, a), new)
        /\ \A v \in Held, b \in Attr :
             v # u \/ b # a => objectHash'[v][b] = objectHash[v][b]
    BY <2>1, SetElim, PushedElim
  <2>3. objectHash'[u][a][1] = Loaded(u, a)[1]
    BY <2>2
  <2> QED
    BY <2>2, <2>3, ChangedValues
<1> QED
  BY <1>1, <1>2

LEMMA NextValues ==
  ASSUME TInv, StoreInv, FirstIsStored, [Next]_vars
  PROVE  FirstIsStored'
<1>1. CASE UNCHANGED store /\ UNCHANGED objectHash
  BY <1>1, SameValues
<1>2. \/ UNCHANGED store /\ UNCHANGED objectHash
      \/ CommitFinal \/ AbortTransaction \/ Object \/ CreateObject \/ DeleteObject
      \/ Release \/ GetAttributeValue \/ SetAttributeValue
  BY DEF Next, vars, BeginTransaction, Begin, CommitNested, CommitDies, AbortDies,
         GetCollectionValue, GetCollection, SetCollectionValue, Close, Destroy, Dies
<1> QED
  BY <1>1, <1>2, CommitFinalValues, AbortValues, ObjectValues, CreateValues, DeleteValues,
     ReleaseValues, GetValues, SetValues

(* CoreAttribute.h:133,205: the first value an attribute keeps is the one  *)
(* that storage has, whatever was aborted, committed or refused since.     *)
THEOREM LoadedAgrees == Spec => []LoadedIsStored
<1>1. Init => FirstIsStored
  BY DEF Init, FirstIsStored, Held
<1>2. TInv /\ StoreInv /\ FirstIsStored /\ [Next]_vars => FirstIsStored'
  BY NextValues
<1>3. FirstIsStored => LoadedIsStored
  BY DEF FirstIsStored, LoadedIsStored
<1> QED
  BY <1>1, <1>2, <1>3, StoreCorrect, PTL DEF Spec

================================================================================

--------------------------- MODULE CoreNestedProofs -----------------------------
(***************************************************************************)
(* Proofs about the values that transactions put on stacks in CoreProject: *)
(* how many entries each level has, and that every entry has its value,    *)
(* whatever clients do.                                                    *)
(***************************************************************************)
EXTENDS CoreProjectProofs, FoldLemmas

--------------------------------------------------------------------------------
(* How many entries the transactions deeper than i have.                   *)

LEMMA CountsOfList ==
  ASSUME NEW list \in Seq(Transaction), NEW k \in Cell
  PROVE  /\ Len(list) \in Nat
         /\ DOMAIN list = 1 .. Len(list)
         /\ Summable(Counts(list, k), DOMAIN list)
         /\ \A j \in 1 .. Len(list) : Counts(list, k)[j] = list[j].changes[k]
<1>1. Len(list) \in Nat /\ DOMAIN list = 1 .. Len(list)
  OBVIOUS
<1>2. IsFiniteSet(1 .. Len(list))
  BY <1>1, FS_Interval
<1>3. \A j \in 1 .. Len(list) : list[j].changes[k] \in Nat
  <2>1. \A j \in 1 .. Len(list) : list[j] \in Transaction
    BY <1>1
  <2> QED
    BY <2>1 DEF Transaction
<1> QED
  BY <1>1, <1>2, <1>3 DEF Counts, Summable

LEMMA NoneAreDeeper ==
  ASSUME NEW list \in Seq(Transaction), NEW k \in Cell
  PROVE  DeeperIn(list, Len(list), k) = 0
<1>1. Len(list) + 1 .. Len(list) = {}
  BY CountsOfList
<1>2. SumFunctionOnSet(Counts(list, k), {}) = 0
  BY CountsOfList, SumSplits
<1> QED
  BY <1>1, <1>2, Zenon DEF DeeperIn

(* The transactions i + 1 .. n of both lists have as many entries for k.   *)
Agree(list, other, k, i, n) ==
  \A j \in i + 1 .. n : list[j].changes[k] = other[j].changes[k]

EntriesIn(list, k, i, n) == SumFunctionOnSet(Counts(list, k), i + 1 .. n)

LEMMA DeeperAgrees ==
  ASSUME NEW list \in Seq(Transaction), NEW other \in Seq(Transaction), NEW k \in Cell,
         NEW i \in Nat, NEW n \in Nat, n <= Len(list), n <= Len(other),
         Agree(list, other, k, i, n)
  PROVE  EntriesIn(list, k, i, n) = EntriesIn(other, k, i, n)
<1> DEFINE T == i + 1 .. n
           f == Counts(list, k)
           g == Counts(other, k)
           D == DOMAIN list
           E == DOMAIN other
<1>1. T \subseteq D /\ T \subseteq E
  BY CountsOfList
<1>2. \A j \in T : f[j] = g[j]
  BY CountsOfList DEF Agree
<1>3. Summable(f, D) /\ Summable(g, E)
  BY CountsOfList
<1> HIDE DEF T, f, g, D, E
<1>5. SumFunctionOnSet(f, T) = SumFunctionOnSet(g, T)
  BY <1>1, <1>2, <1>3, SumSame, SMT
<1> QED
  BY <1>5, Zenon DEF T, f, g, EntriesIn

LEMMA DeeperCounts ==
  ASSUME NEW list \in Seq(Transaction), NEW k \in Cell, NEW i \in Nat
  PROVE  DeeperIn(list, i, k) \in Nat
<1> DEFINE T == i + 1 .. Len(list)
<1>1. T \in SUBSET DOMAIN list
  BY CountsOfList
<1> HIDE DEF T
<1>2. SumFunctionOnSet(Counts(list, k), T) \in Nat
  BY <1>1, CountsOfList, SumSplits
<1> QED
  BY <1>2 DEF T, DeeperIn

(* The innermost transaction and those around it.                          *)
LEMMA EntriesOfLast ==
  ASSUME NEW list \in Seq(Transaction), NEW k \in Cell, NEW i \in Nat, NEW n \in Nat,
         i < n, n <= Len(list)
  PROVE  /\ list[n].changes[k] \in Nat
         /\ EntriesIn(list, k, i, n) = list[n].changes[k] + EntriesIn(list, k, i, n - 1)
<1> DEFINE T == i + 1 .. n
           U == i + 1 .. n - 1
           D == DOMAIN list
           f == Counts(list, k)
           x == n
<1>1. T \in SUBSET D /\ x \in T
  BY CountsOfList
<1>2. f[x] = list[x].changes[k] /\ x \in D /\ T \ {x} = U
  BY CountsOfList
<1>3. Summable(f, D)
  BY CountsOfList
<1>4. f[x] \in Nat
  BY <1>2, <1>3 DEF Summable
<1> HIDE DEF f, T, U, D, x
<1>5. SumFunctionOnSet(f, T) = f[x] + SumFunctionOnSet(f, T \ {x})
  BY <1>1, <1>3, SumSplits, SMT
<1>6. SumFunctionOnSet(f, T) = f[x] + SumFunctionOnSet(f, U)
  BY <1>2, <1>5, Zenon
<1> QED
  BY <1>2, <1>4, <1>6 DEF f, T, U, x, EntriesIn

LEMMA DeeperOfLast ==
  ASSUME NEW list \in Seq(Transaction), NEW k \in Cell, NEW i \in Nat, i < Len(list)
  PROVE  /\ list[Len(list)].changes[k] \in Nat
         /\ DeeperIn(list, i, k) =
              list[Len(list)].changes[k] + EntriesIn(list, k, i, Len(list) - 1)
<1> DEFINE n == Len(list)
<1>1. n \in Nat /\ i < n /\ n <= Len(list)
  OBVIOUS
<1>2. DeeperIn(list, i, k) = EntriesIn(list, k, i, n)
  BY DEF DeeperIn, EntriesIn
<1> HIDE DEF n
<1>3. /\ list[n].changes[k] \in Nat
      /\ EntriesIn(list, k, i, n) = list[n].changes[k] + EntriesIn(list, k, i, n - 1)
  BY <1>1, EntriesOfLast
<1> QED
  BY <1>2, <1>3 DEF n

LEMMA EntriesAreCounted ==
  ASSUME NEW list \in Seq(Transaction), NEW k \in Cell, NEW i \in Nat, NEW n \in Nat,
         n <= Len(list)
  PROVE  EntriesIn(list, k, i, n) \in Nat
<1> DEFINE T == i + 1 .. n
<1>1. T \in SUBSET DOMAIN list
  BY CountsOfList
<1> HIDE DEF T
<1>2. SumFunctionOnSet(Counts(list, k), T) \in Nat
  BY <1>1, CountsOfList, SumSplits
<1> QED
  BY <1>2 DEF T, EntriesIn

(* The transaction around the deeper ones.                                 *)
LEMMA DeeperOfFirst ==
  ASSUME NEW list \in Seq(Transaction), NEW k \in Cell, NEW i \in Nat, i < Len(list)
  PROVE  /\ list[i + 1].changes[k] \in Nat
         /\ DeeperIn(list, i, k) = list[i + 1].changes[k] + DeeperIn(list, i + 1, k)
<1> DEFINE n == i + 1
           T == i + 1 .. Len(list)
           U == n + 1 .. Len(list)
           D == DOMAIN list
           f == Counts(list, k)
<1>a. T \in SUBSET D /\ n \in T
  BY CountsOfList
<1>1. /\ f[n] = list[n].changes[k] /\ n \in D
      /\ T \ {n} = U
  BY CountsOfList
<1>2. Summable(f, D)
  BY CountsOfList
<1>3. f[n] \in Nat
  BY <1>1, <1>2 DEF Summable
<1> HIDE DEF f, T, U, n, D
<1>4. SumFunctionOnSet(f, T) = f[n] + SumFunctionOnSet(f, T \ {n})
  BY <1>a, <1>2, SumSplits, SMT
<1>5. SumFunctionOnSet(f, T) = f[n] + SumFunctionOnSet(f, U)
  BY <1>1, <1>4, Zenon
<1> QED
  BY <1>1, <1>3, <1>5 DEF f, n, T, U, DeeperIn

LEMMA DeeperIsLess ==
  ASSUME NEW list \in Seq(Transaction), NEW k \in Cell
  PROVE  \A i \in 0 .. Len(list) : DeeperIn(list, i, k) <= DeeperIn(list, 0, k)
<1> DEFINE F(i) == DeeperIn(list, i, k)
           T == {i \in 0 .. Len(list) : ~(F(i) <= F(0))}
<1>1. Len(list) \in Nat /\ \A i \in Nat : F(i) \in Nat
  BY CountsOfList, DeeperCounts
<1>2. ASSUME NEW i \in Nat, i < Len(list)
      PROVE  F(i) >= F(i + 1)
  <2>1. F(i) = list[i + 1].changes[k] + F(i + 1) /\ list[i + 1].changes[k] \in Nat
    BY <1>2, DeeperOfFirst
  <2>2. F(i) \in Nat /\ F(i + 1) \in Nat
    BY <1>1
  <2> HIDE DEF F
  <2> QED
    BY <2>1, <2>2
<1> HIDE DEF F
<1> SUFFICES ASSUME T # {} PROVE FALSE
  BY DEF F
<1>3. PICK i \in T : \A j \in T : i <= j
  <2>1. T \in SUBSET Nat
    OBVIOUS
  <2> HIDE DEF T
  <2> QED
    BY <2>1, LeastNatural
<1>4. i \in 1 .. Len(list)
  BY <1>1
<1>5. F(i - 1) <= F(0)
  BY <1>1, <1>3, <1>4
<1>6. i - 1 \in Nat /\ i - 1 < Len(list) /\ (i - 1) + 1 = i
  BY <1>1, <1>4
<1>7. F(i - 1) >= F(i)
  BY <1>2, <1>6
<1> QED
  BY <1>1, <1>4, <1>5, <1>6, <1>7

LEMMA DeeperOfNone ==
  ASSUME NEW list \in Seq(Transaction), NEW k \in Cell, NEW i \in Nat,
         \A j \in DOMAIN list : list[j].changes[k] = 0
  PROVE  DeeperIn(list, i, k) = 0
<1> DEFINE T == i + 1 .. Len(list)
           f == Counts(list, k)
           D == DOMAIN list
<1>1. T \subseteq D /\ \A j \in T : f[j] = 0
  BY CountsOfList
<1>2. Summable(f, D)
  BY CountsOfList
<1> HIDE DEF T, f, D
<1>3. SumFunctionOnSet(f, T) = 0
  BY <1>1, <1>2, SumOfZeros
<1> QED
  BY <1>3 DEF T, f, DeeperIn

(* A list that goes on by one transaction.                                 *)
LEMMA DeeperGrows ==
  ASSUME NEW list \in Seq(Transaction), NEW longer \in Seq(Transaction), NEW k \in Cell,
         Len(longer) = Len(list) + 1,
         Agree(list, longer, k, 0, Len(list)),
         NEW i \in Nat, i <= Len(list)
  PROVE  DeeperIn(longer, i, k) = longer[Len(list) + 1].changes[k] + DeeperIn(list, i, k)
<1> DEFINE n == Len(list)
<1>1. n \in Nat /\ i < Len(longer) /\ Len(longer) - 1 = n
  BY CountsOfList
<1>2. DeeperIn(longer, i, k) = longer[n + 1].changes[k] + EntriesIn(longer, k, i, n)
  BY <1>1, DeeperOfLast DEF EntriesIn
<1>3. Agree(list, longer, k, i, n)
  BY <1>1 DEF Agree
<1>4. n <= Len(list) /\ n <= Len(longer)
  BY <1>1
<1> HIDE DEF n
<1>5. EntriesIn(list, k, i, n) = EntriesIn(longer, k, i, n)
  BY <1>1, <1>3, <1>4, DeeperAgrees
<1> QED
  BY <1>2, <1>5 DEF DeeperIn, EntriesIn, n

LEMMA DeeperSame ==
  ASSUME NEW list \in Seq(Transaction), NEW other \in Seq(Transaction), NEW k \in Cell,
         Len(other) = Len(list), NEW i \in Nat,
         Agree(list, other, k, i, Len(list))
  PROVE  DeeperIn(other, i, k) = DeeperIn(list, i, k)
<1>1. Len(list) \in Nat
  BY CountsOfList
<1> DEFINE n == Len(list)
<1>2. n \in Nat /\ n <= Len(list) /\ n <= Len(other) /\ Agree(list, other, k, i, n)
  BY <1>1
<1>3. DeeperIn(list, i, k) = EntriesIn(list, k, i, n) /\ DeeperIn(other, i, k) = EntriesIn(other, k, i, n)
  BY DEF DeeperIn, EntriesIn
<1> HIDE DEF n
<1>4. EntriesIn(list, k, i, n) = EntriesIn(other, k, i, n)
  BY <1>2, DeeperAgrees
<1> QED
  BY <1>3, <1>4

--------------------------------------------------------------------------------
(* What the calls do to the entries and the objects of each level.         *)

LEMMA CreatedDeeperHas ==
  ASSUME NEW i, NEW u
  PROVE  u \in CreatedDeeper(i) <=>
           \E j \in i + 1 .. Len(transactionList) : u \in transactionList[j].created
BY DEF CreatedDeeper

LEMMA CellIsPair ==
  ASSUME NEW k \in Cell
  PROVE  \E u \in Uuid, a \in Attr : k = <<u, a>>
BY DEF Cell

LEMMA MergedHas ==
  ASSUME NEW outer \in Transaction, NEW inner \in Transaction
  PROVE  /\ Merged(outer, inner).deleted = outer.deleted \cup inner.deleted
         /\ Merged(outer, inner).dangling = (outer.dangling \/ inner.dangling)
         /\ \A k \in Cell :
              Merged(outer, inner).changes[k] = outer.changes[k] + inner.changes[k]
<1> DEFINE changes == [k \in Cell |-> outer.changes[k] + inner.changes[k]]
           dangling == outer.dangling \/ inner.dangling
<1>1. changes \in [Cell -> Nat] /\ dangling \in BOOLEAN
  BY DEF Transaction
<1>2. Merged(outer, inner) =
        [outer EXCEPT !.created = @ \cup inner.created, !.deleted = @ \cup inner.deleted,
                      !.changes = changes, !.dangling = dangling]
  BY DEF Merged
<1>3. \A k \in Cell : changes[k] = outer.changes[k] + inner.changes[k]
  OBVIOUS
<1> HIDE DEF changes
<1>4. dangling = (outer.dangling \/ inner.dangling)
  OBVIOUS
<1> HIDE DEF dangling
<1> QED
  BY <1>1, <1>2, <1>3, <1>4 DEF Transaction

(* Begin adds a level that has nothing in it.                              *)
LEMMA BeginLevels ==
  ASSUME TypeOK, BeginTransaction
  PROVE  /\ Depth \in Nat /\ Depth' = Depth + 1
         /\ \A i \in 0 .. Depth : CreatedDeeper(i)' = CreatedDeeper(i)
         /\ \A i \in 0 .. Depth, k \in Cell : Deeper(i, k)' = Deeper(i, k)
         /\ \E ro \in BOOLEAN : transactionList'[Depth + 1] = NewTransaction(ro)
         /\ \A i \in 1 .. Depth : transactionList'[i] = transactionList[i]
<1>1. PICK ro \in BOOLEAN :
        transactionList' = Append(transactionList, NewTransaction(ro))
  BY DEF BeginTransaction, Begin
<1> DEFINE list == transactionList
           longer == transactionList'
<1>2. /\ list \in Seq(Transaction) /\ longer \in Seq(Transaction)
      /\ Len(list) \in Nat /\ Len(longer) = Len(list) + 1
      /\ \A i \in 1 .. Len(list) : longer[i] = list[i]
      /\ longer[Len(list) + 1] = NewTransaction(ro)
  BY <1>1, NewIsTransaction DEF TypeOK
<1>3. ASSUME NEW i \in 0 .. Len(list)
      PROVE  CreatedDeeper(i)' = CreatedDeeper(i)
  <2>1. NewTransaction(ro).created = {}
    BY DEF NewTransaction
  <2> QED
    BY <1>2, <2>1 DEF CreatedDeeper
<1>4. ASSUME NEW i \in 0 .. Len(list), NEW k \in Cell
      PROVE  Deeper(i, k)' = Deeper(i, k)
  <2>1. longer[Len(list) + 1].changes[k] = 0
    BY <1>2 DEF NewTransaction
  <2>2. Agree(list, longer, k, 0, Len(list)) /\ i \in Nat /\ i <= Len(list)
    BY <1>2 DEF Agree
  <2>3. DeeperIn(list, i, k) \in Nat
    BY <1>2, DeeperCounts
  <2> HIDE DEF list, longer
  <2>4. DeeperIn(longer, i, k) = DeeperIn(list, i, k)
    BY <1>2, <2>1, <2>2, <2>3, DeeperGrows
  <2> QED
    BY <2>4 DEF Deeper, list, longer
<1> QED
  BY <1>2, <1>3, <1>4 DEF Depth

(* An inner commit takes away the level around it.                         *)
LEMMA CommitNestedLevels ==
  ASSUME TypeOK, CommitNested
  PROVE  /\ Depth \in Nat /\ Depth > 1 /\ Depth' = Depth - 1
         /\ \A i \in 0 .. Depth - 2 : CreatedDeeper(i)' = CreatedDeeper(i)
         /\ \A i \in 0 .. Depth - 2, k \in Cell : Deeper(i, k)' = Deeper(i, k)
<1> DEFINE list == transactionList
           shorter == transactionList'
           n == Len(transactionList)
           outer == transactionList[n - 1]
           inner == transactionList[n]
<1>1. /\ list \in Seq(Transaction) /\ shorter \in Seq(Transaction)
      /\ n \in Nat /\ n > 1 /\ Len(shorter) = n - 1
      /\ shorter[n - 1] = Merged(outer, inner)
      /\ \A i \in 1 .. n - 2 : shorter[i] = list[i]
      /\ outer \in Transaction /\ inner \in Transaction
  <2>1. list \in Seq(Transaction)
    BY DEF TypeOK
  <2>2. n \in Nat /\ n > 1
    BY CommitNestedMerges DEF Depth
  <2>3. outer \in Transaction /\ inner \in Transaction
    BY <2>1, <2>2
  <2> QED
    BY <2>1, <2>2, <2>3, CommitNestedMerges DEF Depth
<1>2. ASSUME NEW i \in 0 .. n - 2
      PROVE  CreatedDeeper(i)' = CreatedDeeper(i)
  <2>1. shorter[n - 1].created = outer.created \cup inner.created
    BY <1>1, MergedIsTransaction
  <2>2. ASSUME NEW u
        PROVE  u \in CreatedDeeper(i)' <=> u \in CreatedDeeper(i)
    <3> DEFINE In(j) == u \in list[j].created
    <3>1. u \in CreatedDeeper(i) <=> \E j \in i + 1 .. n : In(j)
      BY DEF CreatedDeeper
    <3>2. u \in CreatedDeeper(i)' <=> \E j \in i + 1 .. n - 1 : u \in shorter[j].created
      BY <1>1 DEF CreatedDeeper
    <3>3. u \in shorter[n - 1].created <=> In(n - 1) \/ In(n)
      BY <2>1
    <3>4. \A j \in 1 .. n - 2 : u \in shorter[j].created <=> In(j)
      BY <1>1
    <3> HIDE DEF In
    <3> QED
      BY <1>1, <3>1, <3>2, <3>3, <3>4, SMTT(30)
  <2> QED
    BY <2>2 DEF CreatedDeeper
<1>3. ASSUME NEW i \in 0 .. n - 2, NEW k \in Cell
      PROVE  Deeper(i, k)' = Deeper(i, k)
  <2> DEFINE m == n - 1
  <2>1. shorter[m].changes[k] = list[m].changes[k] + list[n].changes[k]
    BY <1>1, MergedHas
  <2>2. Agree(list, shorter, k, i, n - 2)
    BY <1>1 DEF Agree
  <2>3. i \in Nat /\ i < n /\ i < m /\ m = n - 1 /\ m - 1 = n - 2 /\ n - 2 \in Nat /\ n - 2 <= n /\ n - 2 <= m /\ m \in Nat
    BY <1>1
  <2>4. /\ list[n].changes[k] \in Nat
        /\ DeeperIn(list, i, k) = list[n].changes[k] + EntriesIn(list, k, i, m)
    BY <1>1, <2>3, DeeperOfLast
  <2>5. DeeperIn(shorter, i, k) = shorter[m].changes[k] + EntriesIn(shorter, k, i, n - 2)
    <3> HIDE DEF shorter
    <3> QED
      BY <1>1, <2>3, DeeperOfLast
  <2>6. EntriesIn(list, k, i, n - 2) = EntriesIn(shorter, k, i, n - 2)
    <3> HIDE DEF shorter
    <3> QED
      BY <1>1, <2>2, <2>3, DeeperAgrees
  <2>7. /\ list[m].changes[k] \in Nat
        /\ EntriesIn(list, k, i, m) = list[m].changes[k] + EntriesIn(list, k, i, n - 2)
    <3>1. m - 1 = n - 2 /\ m <= Len(list)
      BY <2>3
    <3> HIDE DEF list, m
    <3> QED
      BY <1>1, <2>3, <3>1, EntriesOfLast
  <2>8. EntriesIn(list, k, i, n - 2) \in Nat
    <3> DEFINE l == n - 2
    <3>1. l \in Nat /\ l <= Len(list) /\ list \in Seq(Transaction) /\ i \in Nat
      BY <1>1, <2>3
    <3> HIDE DEF list, l
    <3>2. EntriesIn(list, k, i, l) \in Nat
      BY <3>1, EntriesAreCounted
    <3> QED
      BY <3>2 DEF l
  <2>9. DeeperIn(shorter, i, k) = DeeperIn(list, i, k)
    <3> HIDE DEF list, shorter, m, n
    <3> QED
      BY <2>1, <2>4, <2>5, <2>6, <2>7, <2>8
  <2> QED
    BY <2>9 DEF Deeper
<1> QED
  BY <1>1, <1>2, <1>3 DEF Depth

(* An abort takes away the level that has the innermost entries.           *)
LEMMA AbortLevels ==
  ASSUME TypeOK, AbortTransaction
  PROVE  /\ Depth \in Nat \ {0} /\ Depth' = Depth - 1
         /\ \A i \in 0 .. Depth - 1 :
              CreatedDeeper(i) = CreatedDeeper(i)' \cup Current.created
         /\ \A i \in 0 .. Depth - 1, k \in Cell :
              /\ Current.changes[k] \in Nat
              /\ Deeper(i, k)' \in Nat
              /\ Deeper(i, k) = Current.changes[k] + Deeper(i, k)'
<1> DEFINE list == transactionList
           shorter == transactionList'
           n == Len(transactionList)
<1>1. /\ list \in Seq(Transaction) /\ shorter \in Seq(Transaction)
      /\ n \in Nat /\ n > 0 /\ n = Len(list) /\ Len(shorter) = n - 1
      /\ \A i \in 1 .. n - 1 : shorter[i] = list[i]
      /\ Current = list[n]
  <2>1. InTransaction /\ list \in Seq(Transaction)
    BY DEF TypeOK, AbortTransaction
  <2> QED
    BY <2>1, AbortShortens, CurrentIsTransaction DEF Depth
<1>2. ASSUME NEW i \in 0 .. n - 1
      PROVE  CreatedDeeper(i) = CreatedDeeper(i)' \cup Current.created
  <2>1. ASSUME NEW u
        PROVE  u \in CreatedDeeper(i) <=> u \in CreatedDeeper(i)' \/ u \in Current.created
    <3> DEFINE In(j) == u \in list[j].created
    <3>1. u \in CreatedDeeper(i) <=> \E j \in i + 1 .. n : In(j)
      BY DEF CreatedDeeper
    <3>2. u \in CreatedDeeper(i)' <=> \E j \in i + 1 .. n - 1 : u \in shorter[j].created
      BY <1>1 DEF CreatedDeeper
    <3>3. \A j \in 1 .. n - 1 : u \in shorter[j].created <=> In(j)
      BY <1>1
    <3>4. u \in Current.created <=> In(n)
      BY <1>1
    <3> HIDE DEF In
    <3> QED
      BY <1>1, <3>1, <3>2, <3>3, <3>4
  <2> QED
    BY <2>1 DEF CreatedDeeper
<1>3. ASSUME NEW i \in 0 .. n - 1, NEW k \in Cell
      PROVE  /\ Current.changes[k] \in Nat
             /\ Deeper(i, k)' \in Nat
             /\ Deeper(i, k) = Current.changes[k] + Deeper(i, k)'
  <2>1. i \in Nat /\ i < n /\ n - 1 \in Nat /\ n - 1 <= n /\ n - 1 <= Len(shorter)
    BY <1>1
  <2> DEFINE m == n - 1
  <2>2. Agree(list, shorter, k, i, m)
    BY <1>1, <2>1 DEF Agree
  <2>3. /\ list[n].changes[k] \in Nat
        /\ DeeperIn(list, i, k) = list[n].changes[k] + EntriesIn(list, k, i, m)
    BY <1>1, <2>1, DeeperOfLast
  <2>4. DeeperIn(shorter, i, k) = EntriesIn(shorter, k, i, m)
    BY <1>1 DEF DeeperIn, EntriesIn
  <2>5. DeeperIn(shorter, i, k) \in Nat
    <3> HIDE DEF shorter
    <3> QED
      BY <1>1, <2>1, DeeperCounts
  <2>6. EntriesIn(list, k, i, m) = EntriesIn(shorter, k, i, m)
    <3> HIDE DEF list, shorter, m
    <3> QED
      BY <1>1, <2>1, <2>2, DeeperAgrees DEF m
  <2> QED
    BY <1>1, <2>3, <2>4, <2>5, <2>6 DEF Deeper
<1> QED
  BY <1>1, <1>2, <1>3 DEF Depth

(* A call inside the innermost transaction.                                *)
LEMMA WithCurrentLevels ==
  ASSUME TypeOK, InTransaction, NEW t \in Transaction, transactionList' = WithCurrent(t),
         Current.created \subseteq t.created
  PROVE  /\ Depth \in Nat \ {0} /\ Depth' = Depth
         /\ \A i \in 0 .. Depth - 1 :
              CreatedDeeper(i)' = CreatedDeeper(i) \cup t.created
         /\ \A i \in 0 .. Depth - 1, k \in Cell :
              /\ Deeper(i, k) \in Nat
              /\ Deeper(i, k)' + Current.changes[k] = Deeper(i, k) + t.changes[k]
<1> DEFINE list == transactionList
           other == transactionList'
           n == Len(transactionList)
<1>1. /\ list \in Seq(Transaction) /\ other \in Seq(Transaction)
      /\ n \in Nat /\ n > 0 /\ n = Len(list) /\ Len(other) = n
      /\ \A i \in 1 .. n - 1 : other[i] = list[i]
      /\ Current = list[n] /\ other[n] = t
  BY WithCurrentReplaces, CurrentIsTransaction DEF Depth, TypeOK
<1>2. ASSUME NEW i \in 0 .. n - 1
      PROVE  CreatedDeeper(i)' = CreatedDeeper(i) \cup t.created
  <2>1. ASSUME NEW u
        PROVE  u \in CreatedDeeper(i)' <=> u \in CreatedDeeper(i) \/ u \in t.created
    <3> DEFINE In(j) == u \in list[j].created
    <3>1. u \in CreatedDeeper(i) <=> \E j \in i + 1 .. n : In(j)
      BY DEF CreatedDeeper
    <3>2. u \in CreatedDeeper(i)' <=> \E j \in i + 1 .. n : u \in other[j].created
      BY <1>1 DEF CreatedDeeper
    <3>3. \A j \in 1 .. n - 1 : u \in other[j].created <=> In(j)
      BY <1>1
    <3>4. u \in other[n].created <=> u \in t.created
      BY <1>1
    <3>5. In(n) => u \in t.created
      BY <1>1
    <3> HIDE DEF In
    <3> QED
      BY <1>1, <3>1, <3>2, <3>3, <3>4, <3>5, SMTT(30)
  <2> QED
    BY <2>1 DEF CreatedDeeper
<1>3. ASSUME NEW i \in 0 .. n - 1, NEW k \in Cell
      PROVE  /\ Deeper(i, k) \in Nat
             /\ Deeper(i, k)' + Current.changes[k] = Deeper(i, k) + t.changes[k]
  <2>1. i \in Nat /\ i < n /\ n - 1 \in Nat /\ n - 1 <= n /\ n - 1 <= Len(other)
    BY <1>1
  <2> DEFINE m == n - 1
  <2>2. Agree(list, other, k, i, m)
    BY <1>1, <2>1 DEF Agree
  <2>3. /\ list[n].changes[k] \in Nat
        /\ DeeperIn(list, i, k) = list[n].changes[k] + EntriesIn(list, k, i, m)
    BY <1>1, <2>1, DeeperOfLast
  <2>4. /\ other[n].changes[k] \in Nat
        /\ DeeperIn(other, i, k) = other[n].changes[k] + EntriesIn(other, k, i, m)
    <3> HIDE DEF other
    <3> QED
      BY <1>1, <2>1, DeeperOfLast
  <2>5. EntriesIn(list, k, i, m) \in Nat /\ EntriesIn(other, k, i, m) \in Nat
    <3> HIDE DEF list, other, m
    <3> QED
      BY <1>1, <2>1, EntriesAreCounted DEF m
  <2>6. EntriesIn(list, k, i, m) = EntriesIn(other, k, i, m)
    <3> HIDE DEF list, other, m
    <3> QED
      BY <1>1, <2>1, <2>2, DeeperAgrees DEF m
  <2>7. Current.changes[k] = list[n].changes[k] /\ other[n].changes[k] = t.changes[k]
    BY <1>1
  <2>8. /\ DeeperIn(list, i, k) \in Nat
        /\ DeeperIn(other, i, k) + Current.changes[k] = DeeperIn(list, i, k) + t.changes[k]
    <3> HIDE DEF list, other, m, n
    <3> QED
      BY <2>3, <2>4, <2>5, <2>6, <2>7
  <2> QED
    BY <2>8 DEF Deeper
<1> QED
  BY <1>1, <1>2, <1>3 DEF Depth

(* An object is given up.                                                  *)
LEMMA GiveUpLevels ==
  ASSUME TypeOK, NEW u \in Uuid, GiveUp(u)
  PROVE  /\ Depth \in Nat /\ Depth' = Depth
         /\ \A i \in Nat : CreatedDeeper(i)' = CreatedDeeper(i)
         /\ \A i \in Nat, v \in Uuid \ {u}, a \in Attr :
              Deeper(i, <<v, a>>)' = Deeper(i, <<v, a>>)
<1> DEFINE list == transactionList
           other == transactionList'
<1>1. /\ list \in Seq(Transaction) /\ Len(list) \in Nat
      /\ DOMAIN list = 1 .. Len(list)
      /\ other = [i \in DOMAIN list |-> WithoutEntries(list[i], u)]
      /\ \A i \in DOMAIN list : WithoutEntries(list[i], u) \in Transaction
  BY WithoutIsTransaction, ElementIsTransaction DEF TypeOK, GiveUp
<1>2. other \in [1 .. Len(list) -> Transaction]
  BY <1>1
<1>3. other \in Seq(Transaction) /\ Len(other) = Len(list)
  BY <1>1, <1>2
<1>4. ASSUME NEW i \in Nat
      PROVE  CreatedDeeper(i)' = CreatedDeeper(i)
  <2>1. \A j \in 1 .. Len(list) : other[j].created = list[j].created
    BY <1>1, WithoutIsTransaction
  <2>2. \A j \in i + 1 .. Len(list) : j \in 1 .. Len(list)
    BY <1>1
  <2> QED
    BY <1>3, <2>1, <2>2 DEF CreatedDeeper
<1>5. ASSUME NEW i \in Nat, NEW v \in Uuid \ {u}, NEW a \in Attr
      PROVE  Deeper(i, <<v, a>>)' = Deeper(i, <<v, a>>)
  <2> DEFINE k == <<v, a>>
  <2>1. \A j \in 1 .. Len(list) : other[j].changes[k] = list[j].changes[k]
    <3>1. \A j \in 1 .. Len(list) : list[j] \in Transaction
      BY <1>1
    <3> QED
      BY <1>1, <3>1 DEF WithoutEntries, Transaction, Cell
  <2>2. Agree(list, other, k, i, Len(list)) /\ k \in Cell
    <3>1. k \in Cell
      BY DEF Cell
    <3>2. \A j \in i + 1 .. Len(list) : j \in 1 .. Len(list)
      BY <1>1
    <3> HIDE DEF list, other, k
    <3> QED
      BY <2>1, <3>1, <3>2 DEF Agree
  <2>3. DeeperIn(other, i, k) = DeeperIn(list, i, k)
    <3> HIDE DEF list, other, k
    <3> QED
      BY <1>1, <1>3, <2>2, DeeperSame
  <2> QED
    BY <2>3 DEF Deeper
<1> QED
  BY <1>1, <1>3, <1>4, <1>5 DEF Depth

(* A value that is set is listed.                                          *)
Listing(t, u, a) ==
  /\ t \in Transaction
  /\ t.created = Current.created /\ t.deleted = Current.deleted
  /\ t.dangling = Current.dangling
  /\ t.changes[<<u, a>>] = Current.changes[<<u, a>>] + 1
  /\ \A k \in Cell : k # <<u, a>> => t.changes[k] = Current.changes[k]

LEMMA PushedLists ==
  ASSUME TypeOK, InTransaction, NEW u \in Uuid, NEW a \in Attr, NEW new, Pushed(u, a, new)
  PROVE  \E t : Listing(t, u, a) /\ transactionList' = WithCurrent(t)
<1> DEFINE t == [Current EXCEPT !.changes[<<u, a>>] = @ + 1]
<1>1. Current \in Transaction /\ <<u, a>> \in Cell /\ Current.changes[<<u, a>>] + 1 \in Nat
  BY CurrentIsTransaction, ChangesAreCounts DEF Cell
<1>2. t \in Transaction
  BY <1>1 DEF Transaction
<1>3. /\ t.created = Current.created /\ t.deleted = Current.deleted
      /\ t.dangling = Current.dangling
  BY <1>1 DEF Transaction
<1>4. t.changes = [Current.changes EXCEPT ![<<u, a>>] = @ + 1]
  BY <1>1 DEF Transaction
<1>5. /\ t.changes[<<u, a>>] = Current.changes[<<u, a>>] + 1
      /\ \A k \in Cell : k # <<u, a>> => t.changes[k] = Current.changes[k]
  <2> DEFINE c == Current.changes
             k0 == <<u, a>>
  <2>1. c \in [Cell -> Nat] /\ k0 \in Cell /\ t.changes = [c EXCEPT ![k0] = @ + 1]
    BY <1>1, <1>4 DEF Transaction
  <2> HIDE DEF c, k0, t
  <2>2. t.changes[k0] = c[k0] + 1 /\ \A k \in Cell : k # k0 => t.changes[k] = c[k]
    BY <2>1
  <2> QED
    BY <2>2 DEF c, k0
<1>6. transactionList' = WithCurrent(t)
  BY DEF Pushed
<1> HIDE DEF t
<1> QED
  BY <1>2, <1>3, <1>5, <1>6 DEF Listing

(* The entries of one level or more after a value is set.                  *)
LEMMA PushedLevels ==
  ASSUME TypeOK, InTransaction, NEW u \in Uuid, NEW a \in Attr, NEW new, Pushed(u, a, new)
  PROVE  /\ Depth \in Nat \ {0} /\ Depth' = Depth
         /\ \A i \in 0 .. Depth - 1 : CreatedDeeper(i)' = CreatedDeeper(i)
         /\ \A i \in 0 .. Depth - 1 :
              /\ Deeper(i, <<u, a>>)' = Deeper(i, <<u, a>>) + 1
              /\ \A v \in Uuid, b \in Attr :
                   v # u \/ b # a => Deeper(i, <<v, b>>)' = Deeper(i, <<v, b>>)
<1>1. PICK t : Listing(t, u, a) /\ transactionList' = WithCurrent(t)
  BY PushedLists
<1>2. t \in Transaction /\ Current.created \subseteq t.created /\ t.created = Current.created
  BY <1>1 DEF Listing
<1>3. /\ Depth \in Nat \ {0} /\ Depth' = Depth
      /\ \A i \in 0 .. Depth - 1 :
           CreatedDeeper(i)' = CreatedDeeper(i) \cup t.created
      /\ \A i \in 0 .. Depth - 1, k \in Cell :
           /\ Deeper(i, k) \in Nat
           /\ Deeper(i, k)' + Current.changes[k] = Deeper(i, k) + t.changes[k]
  BY <1>1, <1>2, WithCurrentLevels
<1>4. ASSUME NEW i \in 0 .. Depth - 1
      PROVE  CreatedDeeper(i)' = CreatedDeeper(i)
  <2>1. Current.created \subseteq CreatedDeeper(i)
    <3>1. Current = transactionList[Depth] /\ Depth \in i + 1 .. Len(transactionList)
      BY <1>3, CurrentIsTransaction DEF Depth
    <3> QED
      BY <3>1 DEF CreatedDeeper
  <2> QED
    BY <1>2, <1>3, <2>1
<1>5. ASSUME NEW i \in 0 .. Depth - 1
      PROVE  /\ Deeper(i, <<u, a>>)' = Deeper(i, <<u, a>>) + 1
             /\ \A v \in Uuid, b \in Attr :
                  v # u \/ b # a => Deeper(i, <<v, b>>)' = Deeper(i, <<v, b>>)
  <2>1. \A k \in Cell : Current.changes[k] \in Nat /\ t.changes[k] \in Nat
    BY <1>2, CurrentIsTransaction DEF Transaction
  <2>2. \A k \in Cell : Deeper(i, k)' \in Nat
    <3>1. transactionList' \in Seq(Transaction) /\ i \in Nat
      BY <1>1, <1>2, <1>3, WithCurrentReplaces
    <3> QED
      BY <3>1, DeeperCounts DEF Deeper
  <2>3. Deeper(i, <<u, a>>)' = Deeper(i, <<u, a>>) + 1
    <3> DEFINE k == <<u, a>>
    <3>1. k \in Cell /\ t.changes[k] = Current.changes[k] + 1
      BY <1>1 DEF Listing, Cell
    <3> HIDE DEF k
    <3>2. Deeper(i, k)' = Deeper(i, k) + 1
      BY <1>3, <2>1, <2>2, <3>1
    <3> QED
      BY <3>2 DEF k
  <2>4. ASSUME NEW v \in Uuid, NEW b \in Attr, v # u \/ b # a
        PROVE  Deeper(i, <<v, b>>)' = Deeper(i, <<v, b>>)
    <3> DEFINE k == <<v, b>>
    <3>1. k \in Cell /\ t.changes[k] = Current.changes[k]
      <4>1. k \in Cell /\ k # <<u, a>>
        BY <2>4 DEF Cell
      <4> HIDE DEF k
      <4> QED
        BY <1>1, <4>1 DEF Listing
    <3> HIDE DEF k
    <3>2. Deeper(i, k)' = Deeper(i, k)
      BY <1>3, <2>1, <2>2, <3>1
    <3> QED
      BY <3>2 DEF k
  <2> QED
    BY <2>3, <2>4
<1> QED
  BY <1>3, <1>4, <1>5

--------------------------------------------------------------------------------
(* Every entry has a value, whatever clients do.                           *)

Backed(u, a) ==
  Deeper(0, <<u, a>>) > 0 => Len(objectHash[u][a]) > Deeper(0, <<u, a>>)

EntriesBacked == \A u \in Held, a \in Attr : Backed(u, a)

(* An object that comes into memory has no entries.                        *)
LEMMA UnheldHasNoEntries ==
  ASSUME TInv, NEW u \in Uuid \ Held, NEW a \in Attr, NEW i \in Nat
  PROVE  Deeper(i, <<u, a>>) = 0
<1> DEFINE list == transactionList
           k == <<u, a>>
<1>1. list \in Seq(Transaction) /\ k \in Cell
  BY DEF TInv, TypeOK, Cell
<1>2. \A j \in DOMAIN list : list[j].changes[k] = 0
  <2>1. \A j \in DOMAIN list : list[j].changes[k] \in Nat /\ ~(list[j].changes[k] > 0)
    BY ElementIsTransaction, ChangesAreCounts DEF TInv, ListedAreHeld
  <2> HIDE DEF list
  <2> QED
    BY <2>1
<1>3. DeeperIn(list, i, k) = 0
  <2> HIDE DEF list, k
  <2> QED
    BY <1>1, <1>2, DeeperOfNone
<1> QED
  BY <1>3 DEF Deeper

LEMMA SameEntries ==
  ASSUME TypeOK, UNCHANGED transactionList, NEW i, NEW k
  PROVE  Deeper(i, k)' = Deeper(i, k)
BY DEF Deeper

LEMMA SameBacked ==
  ASSUME TypeOK, EntriesBacked, UNCHANGED <<objectHash, transactionList>>
  PROVE  EntriesBacked'
BY SameEntries DEF EntriesBacked, Backed, Held

LEMMA BeginBacked ==
  ASSUME TInv, EntriesBacked, BeginTransaction
  PROVE  EntriesBacked'
<1>1. UNCHANGED objectHash
  BY DEF BeginTransaction, Begin
<1>2. \A k \in Cell : Deeper(0, k)' = Deeper(0, k)
  BY BeginLevels DEF TInv
<1>3. \A u \in Held, a \in Attr : <<u, a>> \in Cell
  BY DEF TInv, TypeOK, Held, Cell
<1> QED
  BY <1>1, <1>2, <1>3 DEF EntriesBacked, Backed, Held

LEMMA CommitNestedBacked ==
  ASSUME TInv, EntriesBacked, CommitNested
  PROVE  EntriesBacked'
<1>1. UNCHANGED objectHash
  BY DEF CommitNested
<1>2. \A k \in Cell : Deeper(0, k)' = Deeper(0, k)
  <2>1. 0 \in 0 .. Depth - 2
    BY CommitNestedLevels DEF TInv
  <2> QED
    BY <2>1, CommitNestedLevels DEF TInv
<1>3. \A u \in Held, a \in Attr : <<u, a>> \in Cell
  BY DEF TInv, TypeOK, Held, Cell
<1> QED
  BY <1>1, <1>2, <1>3 DEF EntriesBacked, Backed, Held

LEMMA CommitFinalBacked ==
  ASSUME TInv, CommitFinal
  PROVE  EntriesBacked'
<1>1. transactionList' = << >> /\ Held' = Held
  BY DEF CommitFinal, Held
<1>2. ASSUME NEW u \in Held, NEW a \in Attr
      PROVE  Deeper(0, <<u, a>>)' = 0
  <2> DEFINE list == transactionList'
             k == <<u, a>>
  <2>1. list \in Seq(Transaction) /\ k \in Cell /\ \A j \in DOMAIN list : list[j].changes[k] = 0
    BY <1>1 DEF TInv, TypeOK, Held, Cell
  <2>2. DeeperIn(list, 0, k) = 0
    <3> HIDE DEF list, k
    <3> QED
      BY <2>1, DeeperOfNone
  <2> QED
    BY <2>2 DEF Deeper
<1> QED
  BY <1>1, <1>2 DEF EntriesBacked, Backed

LEMMA AbortBacked ==
  ASSUME TInv, EntriesBacked, AbortTransaction
  PROVE  EntriesBacked'
<1>1. Held' = Held /\ AbortFault = "none"
  BY DEF AbortTransaction, Held
<1>2. SUFFICES ASSUME NEW u \in Held, NEW a \in Attr, Deeper(0, <<u, a>>)' > 0
               PROVE  Len(objectHash'[u][a]) > Deeper(0, <<u, a>>)'
  BY <1>1 DEF EntriesBacked, Backed
<1> DEFINE k == <<u, a>>
           n == Current.changes[k]
           s == objectHash[u][a]
<1>3. k \in Cell /\ s \in Seq(Contents)
  BY DEF TInv, TypeOK, Held, Cell
<1>4. n \in Nat /\ Deeper(0, k)' \in Nat /\ Deeper(0, k) = n + Deeper(0, k)'
  <2>1. 0 \in 0 .. Depth - 1
    BY AbortLevels DEF TInv
  <2> HIDE DEF k
  <2> QED
    BY <1>3, <2>1, AbortLevels DEF TInv
<1>5. Len(s) > Deeper(0, k)
  BY <1>2, <1>4 DEF EntriesBacked, Backed
<1>6. objectHash'[u][a] = SubSeq(s, 1, Len(s) - n)
  BY DEF AbortTransaction, Reverted, Held
<1>7. Len(s) \in Nat /\ Len(s) > n /\ Len(s) - n > Deeper(0, k)'
  <2> HIDE DEF k, n
  <2> QED
    BY <1>3, <1>4, <1>5
<1>8. Len(SubSeq(s, 1, Len(s) - n)) = Len(s) - n
  <2> HIDE DEF n, s
  <2> QED
    BY <1>3, <1>4, <1>7
<1> QED
  BY <1>6, <1>7, <1>8

LEMMA ComesInBacked ==
  ASSUME TInv, EntriesBacked, NEW u \in Uuid \ Held,
         objectHash' = With(objectHash, u, NotLoaded),
         \A v \in Uuid, a \in Attr : Deeper(0, <<v, a>>)' = Deeper(0, <<v, a>>)
  PROVE  EntriesBacked'
<1>1. Held' = Held \cup {u} /\ \A v \in Held : objectHash'[v] = objectHash[v]
  BY DEF With, Held
<1>2. Held \subseteq Uuid
  BY DEF TInv, TypeOK, Held
<1>3. \A a \in Attr : Deeper(0, <<u, a>>) = 0
  BY UnheldHasNoEntries
<1> QED
  BY <1>1, <1>2, <1>3 DEF EntriesBacked, Backed

LEMMA ObjectBacked ==
  ASSUME TInv, EntriesBacked, Object
  PROVE  EntriesBacked'
<1>1. PICK u \in Uuid \ Held :
        IF u \in DOMAIN store
        THEN /\ objectHash' = With(objectHash, u, NotLoaded)
             /\ UNCHANGED transactionList
        ELSE Dies("assert")
  BY DEF Object, Fetch
<1>2. CASE u \in DOMAIN store
  BY <1>1, <1>2, ComesInBacked, SameEntries DEF TInv
<1>3. CASE u \notin DOMAIN store
  BY <1>1, <1>3, SameBacked DEF Dies, TInv
<1> QED
  BY <1>2, <1>3

(* Calls that leave the entries of all attributes as they are.             *)
LEMMA SameChangesLevels ==
  ASSUME TypeOK, InTransaction, NEW t \in Transaction, transactionList' = WithCurrent(t),
         Current.created \subseteq t.created, t.changes = Current.changes
  PROVE  \A i \in 0 .. Depth - 1, v \in Uuid, a \in Attr :
           Deeper(i, <<v, a>>)' = Deeper(i, <<v, a>>)
<1> SUFFICES ASSUME NEW i \in 0 .. Depth - 1, NEW v \in Uuid, NEW a \in Attr
             PROVE  Deeper(i, <<v, a>>)' = Deeper(i, <<v, a>>)
  OBVIOUS
<1> DEFINE k == <<v, a>>
<1>1. k \in Cell
  BY DEF Cell
<1> HIDE DEF k
<1>2. Current.changes[k] \in Nat
  BY <1>1, CurrentIsTransaction DEF Transaction
<1>3. Deeper(i, k) \in Nat /\ Deeper(i, k)' + Current.changes[k] = Deeper(i, k) + Current.changes[k]
  BY <1>1, WithCurrentLevels
<1>4. Deeper(i, k)' \in Nat
  <2>1. transactionList' \in Seq(Transaction) /\ i \in Nat
    BY WithCurrentReplaces, WithCurrentLevels
  <2> QED
    BY <1>1, <2>1, DeeperCounts DEF Deeper
<1>5. Deeper(i, k)' = Deeper(i, k)
  BY <1>2, <1>3, <1>4
<1> QED
  BY <1>5 DEF k

LEMMA CreateBacked ==
  ASSUME TInv, StoreInv, EntriesBacked, CreateObject
  PROVE  EntriesBacked'
<1>1. InTransaction
  BY DEF CreateObject, Create, InWriteTransaction
<1>2. PICK u \in Uuid \ usedUuids :
        /\ objectHash' = With(objectHash, u, NotLoaded)
        /\ transactionList' = WithCurrent([Current EXCEPT !.created = @ \cup {u}])
  BY DEF CreateObject, Create
<1> DEFINE t == [Current EXCEPT !.created = @ \cup {u}]
<1>3. /\ t \in Transaction /\ t.changes = Current.changes
      /\ Current.created \subseteq t.created
  BY <1>1, CurrentIsTransaction DEF Transaction, TInv
<1> HIDE DEF t
<1>4. \A v \in Uuid, a \in Attr : Deeper(0, <<v, a>>)' = Deeper(0, <<v, a>>)
  <2>1. 0 \in 0 .. Depth - 1
    BY <1>1, CurrentIsTransaction DEF TInv
  <2> QED
    BY <1>1, <1>2, <1>3, <2>1, SameChangesLevels DEF TInv, t
<1>5. u \notin Held
  BY DEF StoreInv, NamesAreUsed
<1> QED
  BY <1>2, <1>4, <1>5, ComesInBacked

LEMMA DeleteBacked ==
  ASSUME TInv, EntriesBacked, DeleteObject
  PROVE  EntriesBacked'
<1>1. InTransaction /\ UNCHANGED objectHash
  BY DEF DeleteObject, InWriteTransaction
<1>2. PICK u \in DOMAIN store :
        transactionList' = WithCurrent([Current EXCEPT !.deleted = @ \cup {u}])
  BY DEF DeleteObject
<1> DEFINE t == [Current EXCEPT !.deleted = @ \cup {u}]
<1>3. /\ t \in Transaction /\ t.changes = Current.changes
      /\ Current.created \subseteq t.created
  BY <1>1, CurrentIsTransaction DEF Transaction, TInv, TypeOK
<1> HIDE DEF t
<1>4. \A v \in Uuid, a \in Attr : Deeper(0, <<v, a>>)' = Deeper(0, <<v, a>>)
  <2>1. 0 \in 0 .. Depth - 1
    BY <1>1, CurrentIsTransaction DEF TInv
  <2> QED
    BY <1>1, <1>2, <1>3, <2>1, SameChangesLevels DEF TInv, t
<1>5. Held \subseteq Uuid /\ Held' = Held
  BY <1>1 DEF TInv, TypeOK, Held
<1> QED
  BY <1>1, <1>4, <1>5 DEF EntriesBacked, Backed

LEMMA ReleaseBacked ==
  ASSUME TInv, EntriesBacked, Release
  PROVE  EntriesBacked'
<1>1. PICK u \in Held : GiveUp(u)
  BY DEF Release
<1>2. Held' = Held \ {u} /\ Held \subseteq Uuid /\ \A v \in Held' : objectHash'[v] = objectHash[v]
  BY <1>1 DEF GiveUp, Restrict, Held, TInv, TypeOK
<1>3. \A v \in Uuid \ {u}, a \in Attr : Deeper(0, <<v, a>>)' = Deeper(0, <<v, a>>)
  BY <1>1, <1>2, GiveUpLevels DEF TInv
<1> QED
  BY <1>2, <1>3 DEF EntriesBacked, Backed

LEMMA GetBacked ==
  ASSUME TInv, EntriesBacked, GetAttributeValue
  PROVE  EntriesBacked'
<1>1. PICK u \in Uuid, a \in Attr :
        /\ u \in Held /\ objectHash[u][a] = << >>
        /\ IF Loadable(u)
           THEN /\ objectHash' = [objectHash EXCEPT ![u][a] = Loaded(u, a)]
                /\ UNCHANGED transactionList
           ELSE Dies("assert")
  BY DEF GetAttributeValue, Get, MayUse
<1>2. CASE Loadable(u)
  <2>1. /\ Held' = Held
        /\ \A v \in Held, b \in Attr :
             v # u \/ b # a => objectHash'[v][b] = objectHash[v][b]
    <3>1. Loaded(u, a) \in Seq(Contents)
      BY <1>1, <1>2, LoadedIsSequence DEF TInv
    <3> QED
      BY <1>1, <1>2, <3>1, ChangedValuesType DEF TInv, Held
  <2>2. ~(Deeper(0, <<u, a>>) > 0)
    <3>1. Deeper(0, <<u, a>>) \in Nat
      <4>1. <<u, a>> \in Cell /\ transactionList \in Seq(Transaction)
        BY DEF Cell, TInv, TypeOK
      <4> QED
        BY <4>1, DeeperCounts DEF Deeper
    <3>2. Len(objectHash[u][a]) = 0
      BY <1>1
    <3> QED
      BY <1>1, <3>1, <3>2 DEF EntriesBacked, Backed
  <2>3. \A v \in Held, b \in Attr : Deeper(0, <<v, b>>)' = Deeper(0, <<v, b>>)
    BY <1>1, <1>2, SameEntries DEF TInv
  <2> QED
    BY <2>1, <2>2, <2>3 DEF EntriesBacked, Backed
<1>3. CASE ~Loadable(u)
  BY <1>1, <1>3, SameBacked DEF Dies, TInv
<1> QED
  BY <1>2, <1>3

LEMMA SetBacked ==
  ASSUME TInv, EntriesBacked, SetAttributeValue
  PROVE  EntriesBacked'
<1>1. CASE \E how \in {"assert", "freed"} : Dies(how)
  BY <1>1, SameBacked DEF Dies, TInv
<1>2. CASE ~\E how \in {"assert", "freed"} : Dies(how)
  <2>1. InWriteTransaction /\ InTransaction
    BY SetElim DEF InWriteTransaction
  <2>2. PICK u \in Held, a \in Attr, new \in Contents :
          /\ new \in Content(a)
          /\ objectHash[u][a] # << >> \/ Loadable(u)
          /\ Pushed(u, a, new)
    BY <1>2, SetElim
  <2>3. /\ Loaded(u, a) \in Seq(Contents) /\ Loaded(u, a) # << >>
        /\ Held' = Held /\ Held \subseteq Uuid
        /\ objectHash'[u][a] = Append(Loaded(u, a), new)
        /\ \A v \in Held, b \in Attr :
             v # u \/ b # a => objectHash'[v][b] = objectHash[v][b]
    BY <2>1, <2>2, PushedElim DEF TInv, TypeOK, Held
  <2>4. /\ Deeper(0, <<u, a>>)' = Deeper(0, <<u, a>>) + 1
        /\ \A v \in Uuid, b \in Attr :
             v # u \/ b # a => Deeper(0, <<v, b>>)' = Deeper(0, <<v, b>>)
    <3>1. 0 \in 0 .. Depth - 1
      BY <2>1, CurrentIsTransaction DEF TInv
    <3> QED
      BY <2>1, <2>2, <2>3, <3>1, PushedLevels DEF TInv
  <2>5. Deeper(0, <<u, a>>) \in Nat
    <3>1. <<u, a>> \in Cell /\ transactionList \in Seq(Transaction)
      BY <2>3 DEF Cell, TInv, TypeOK
    <3> QED
      BY <3>1, DeeperCounts DEF Deeper
  <2>6. Len(Loaded(u, a)) > Deeper(0, <<u, a>>)
    <3>1. Len(Loaded(u, a)) \in Nat /\ Len(Loaded(u, a)) > 0
      BY <2>3
    <3>2. CASE Deeper(0, <<u, a>>) = 0
      BY <3>1, <3>2
    <3>3. CASE Deeper(0, <<u, a>>) # 0
      <4>1. Len(objectHash[u][a]) > Deeper(0, <<u, a>>)
        BY <2>5, <3>3 DEF EntriesBacked, Backed
      <4>2. objectHash[u][a] # << >>
        <5>1. Len(<< >>) = 0
          OBVIOUS
        <5> QED
          BY <2>5, <3>3, <4>1, <5>1
      <4> QED
        BY <4>1, <4>2 DEF Loaded
    <3> QED
      BY <3>2, <3>3
  <2>7. Len(objectHash'[u][a]) = Len(Loaded(u, a)) + 1 /\ Len(Loaded(u, a)) \in Nat
    BY <2>3
  <2>8. Backed(u, a)'
    BY <2>4, <2>5, <2>6, <2>7 DEF Backed
  <2> QED
    BY <2>3, <2>4, <2>8 DEF EntriesBacked, Backed
<1> QED
  BY <1>1, <1>2

LEMMA NextBacked ==
  ASSUME TInv, StoreInv, EntriesBacked, [Next]_vars
  PROVE  EntriesBacked'
<1>1. CASE UNCHANGED <<objectHash, transactionList>>
  BY <1>1, SameBacked DEF TInv
<1>2. \/ UNCHANGED <<objectHash, transactionList>>
      \/ BeginTransaction \/ CommitNested \/ CommitFinal \/ AbortTransaction \/ Object
      \/ CreateObject \/ DeleteObject \/ Release \/ GetAttributeValue \/ SetAttributeValue
  BY DEF Next, vars, CommitDies, AbortDies, GetCollectionValue, GetCollection,
         SetCollectionValue, Close, Destroy, Dies
<1> QED
  BY <1>1, <1>2, BeginBacked, CommitNestedBacked, CommitFinalBacked, AbortBacked,
     ObjectBacked, CreateBacked, DeleteBacked, ReleaseBacked, GetBacked, SetBacked

(* CoreAttribute.h:205: every entry of a list of changes, at any depth and *)
(* whatever clients do, has a value to take on abort, and one stays.       *)
THEOREM EntriesAreBacked == Spec => []EntriesHaveValues
<1>1. Init => EntriesBacked
  <2> SUFFICES ASSUME Init PROVE EntriesBacked
    OBVIOUS
  <2>1. Held = {}
    BY DEF Init, Held
  <2> QED
    BY <2>1 DEF EntriesBacked
<1>2. TInv /\ StoreInv /\ EntriesBacked /\ [Next]_vars => EntriesBacked'
  BY NextBacked
<1>3. EntriesBacked => EntriesHaveValues
  BY DEF EntriesBacked, Backed, EntriesHaveValues
<1> QED
  BY <1>1, <1>2, <1>3, StoreCorrect, PTL DEF Spec

================================================================================

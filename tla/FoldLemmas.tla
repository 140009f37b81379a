------------------------------- MODULE FoldLemmas ------------------------------
(***************************************************************************)
(* Induction without a predicate: a set of counterexamples that is not     *)
(* empty has a least element.  From it follows that a fold over a finite   *)
(* set is what its recursive equation says, and how sums split.  The       *)
(* proofs about the components use these facts.                            *)
(***************************************************************************)
EXTENDS Integers, Functions, FiniteSetTheorems, TLAPS

--------------------------------------------------------------------------------
(* Least elements.                                                         *)

(* A set of natural numbers that is not empty has a least element.         *)
LEMMA LeastNatural ==
  ASSUME NEW T \in SUBSET Nat, T # {}
  PROVE  \E n \in T : \A m \in T : n <= m
<1> DEFINE R == {ss \in Nat \X Nat : ss[1] < ss[2]}
<1>1. IsWellFoundedOn(R, Nat)
  BY NatLessThanWellFounded DEF OpToRel
<1> HIDE DEF R
<1>2. PICK n \in T : \A m \in T : ~(<<m, n>> \in R)
  BY <1>1, WFMin
<1>3. \A m \in T : ~(m < n)
  BY <1>2 DEF R
<1> QED
  BY <1>3

(* Among the subsets of a finite set there is a least one in any           *)
(* collection that is not empty.                                           *)
LEMMA LeastSubset ==
  ASSUME NEW D, IsFiniteSet(D), NEW C \in SUBSET SUBSET D, C # {}
  PROVE  \E T \in C : \A U \in C : U \subseteq T => U = T
<1>1. C \subseteq FiniteSubsetsOf(D)
  BY FS_FiniteSubsetsOfFinite
<1>2. PICK T \in C : \A U \in C : ~(<<U, T>> \in StrictSubsetOrdering(D))
  <2>1. IsWellFoundedOn(StrictSubsetOrdering(D), FiniteSubsetsOf(D))
    BY FS_StrictSubsetOrderingWellFounded
  <2> QED
    BY <1>1, <2>1, WFMin
<1> QED
  BY <1>2 DEF StrictSubsetOrdering

--------------------------------------------------------------------------------
(* Folds.                                                                  *)

(* h takes a subset s of D to what is had by adding the elements of s, one *)
(* at a time, to base: c[s] is the one added last, G adds it.              *)
IsFold(h, D, V, G, c, base) ==
  /\ h \in [SUBSET D -> V]
  /\ \A s \in SUBSET D :
       h[s] = IF s = {} THEN base ELSE G[<<c[s], h[s \ {c[s]}]>>]

Picks(c, D) == \A s \in SUBSET D : s # {} => c[s] \in s

(* The same of a function that is not known to have values in V.           *)
Recurs(g, E, V, G, c, base) ==
  /\ g[{}] = base
  /\ \A s \in SUBSET E :
       s # {} /\ g[s \ {c[s]}] \in V => g[s] = G[<<c[s], g[s \ {c[s]}]>>]

LEMMA FoldUnique ==
  ASSUME NEW D, IsFiniteSet(D), NEW V, NEW G, NEW c, Picks(c, D), NEW base,
         NEW h, IsFold(h, D, V, G, c, base),
         NEW E \in SUBSET D, NEW g, Recurs(g, E, V, G, c, base)
  PROVE  \A s \in SUBSET E : g[s] = h[s]
<1> DEFINE C == {s \in SUBSET E : g[s] # h[s]}
<1> SUFFICES ASSUME C # {} PROVE FALSE
  OBVIOUS
<1>1. PICK T \in C : \A U \in C : U \subseteq T => U = T
  <2>1. C \in SUBSET SUBSET D
    OBVIOUS
  <2> HIDE DEF C
  <2> QED
    BY <2>1, LeastSubset
<1>2. T \in SUBSET D /\ T \in SUBSET E
  OBVIOUS
<1>3. T # {}
  BY <1>2 DEF IsFold, Recurs
<1>4. c[T] \in T
  BY <1>2, <1>3 DEF Picks
<1>5. g[T \ {c[T]}] = h[T \ {c[T]}]
  BY <1>1, <1>2, <1>4
<1>6. h[T \ {c[T]}] \in V
  BY <1>2 DEF IsFold
<1> QED
  BY <1>2, <1>3, <1>5, <1>6 DEF IsFold, Recurs

LEMMA FoldExists ==
  ASSUME NEW D, IsFiniteSet(D), NEW V, NEW G \in [D \X V -> V], NEW c, Picks(c, D),
         NEW base \in V
  PROVE  \E h : IsFold(h, D, V, G, c, base)
<1> DEFINE C == {E \in SUBSET D : ~\E h : IsFold(h, E, V, G, c, base)}
<1> SUFFICES ASSUME C # {} PROVE FALSE
  OBVIOUS
<1>1. PICK T \in C : \A U \in C : U \subseteq T => U = T
  <2> HIDE DEF C
  <2>1. C \in SUBSET SUBSET D
    BY DEF C
  <2> QED
    BY <2>1, LeastSubset
<1>2. T \in SUBSET D /\ ~\E h : IsFold(h, T, V, G, c, base)
  BY <1>1
<1>a. \A s \in SUBSET T : s # T => \E h : IsFold(h, s, V, G, c, base)
  BY <1>1
<1> HIDE DEF C
<1> DEFINE H(s) == CHOOSE h : IsFold(h, s, V, G, c, base)
<1>3. \A s \in SUBSET T : s # T => IsFold(H(s), s, V, G, c, base)
  BY <1>a
<1> HIDE DEF H
<1>4. ASSUME NEW s \in SUBSET T, s # T, NEW r \in SUBSET s
      PROVE  H(s)[r] = H(r)[r] /\ H(s)[r] \in V
  <2>1. IsFold(H(s), s, V, G, c, base) /\ IsFold(H(r), r, V, G, c, base)
    BY <1>3, <1>4
  <2>2. IsFiniteSet(s) /\ Picks(c, s)
    BY <1>2, FS_Subset DEF Picks
  <2>3. \A q \in SUBSET r : H(r)[q] = H(s)[q]
    <3> DEFINE hs == H(s)
               hr == H(r)
    <3>1. IsFold(hs, s, V, G, c, base) /\ IsFold(hr, r, V, G, c, base)
      BY <2>1
    <3> HIDE DEF hs, hr
    <3>2. Recurs(hr, r, V, G, c, base)
      BY <3>1 DEF IsFold, Recurs
    <3>3. \A q \in SUBSET r : hr[q] = hs[q]
      BY <2>2, <3>1, <3>2, FoldUnique
    <3> QED
      BY <3>3 DEF hs, hr
  <2>4. H(s)[r] \in V
    BY <2>1 DEF IsFold
  <2> QED
    BY <2>3, <2>4
<1> DEFINE last == IF T = {} THEN base ELSE G[<<c[T], H(T \ {c[T]})[T \ {c[T]}]>>]
           h == [s \in SUBSET T |-> IF s = T THEN last ELSE H(s)[s]]
<1>5. last \in V
  <2>1. CASE T = {}
    BY <2>1
  <2>2. CASE T # {}
    <3>1. c[T] \in T
      BY <1>2, <2>2 DEF Picks
    <3>2. H(T \ {c[T]})[T \ {c[T]}] \in V
      BY <1>4, <3>1
    <3> QED
      BY <1>2, <3>1, <3>2
  <2> QED
    BY <2>1, <2>2
<1>6. h \in [SUBSET T -> V]
  BY <1>4, <1>5
<1>7. ASSUME NEW s \in SUBSET T
      PROVE  h[s] = IF s = {} THEN base ELSE G[<<c[s], h[s \ {c[s]}]>>]
  <2>1. CASE s = {}
    <3>1. CASE T = {}
      BY <2>1, <3>1
    <3>2. CASE T # {}
      <4>1. IsFold(H(s), s, V, G, c, base)
        BY <1>3, <2>1, <3>2
      <4> QED
        BY <2>1, <3>2, <4>1 DEF IsFold
    <3> QED
      BY <3>1, <3>2
  <2>2. CASE s # {}
    <3>1. c[s] \in s /\ s \ {c[s]} \in SUBSET T /\ s \ {c[s]} # T
      BY <1>2, <2>2 DEF Picks
    <3>2. h[s \ {c[s]}] = H(s \ {c[s]})[s \ {c[s]}]
      BY <3>1
    <3>3. CASE s = T
      BY <2>2, <3>2, <3>3
    <3>4. CASE s # T
      <4>1. IsFold(H(s), s, V, G, c, base) /\ h[s] = H(s)[s]
        BY <1>3, <3>4
      <4>2. H(s)[s \ {c[s]}] = H(s \ {c[s]})[s \ {c[s]}]
        BY <1>4, <3>4
      <4> HIDE DEF h
      <4>3. H(s)[s] = G[<<c[s], H(s)[s \ {c[s]}]>>]
        BY <2>2, <4>1 DEF IsFold
      <4> QED
        BY <2>2, <3>2, <4>1, <4>2, <4>3
    <3> QED
      BY <3>3, <3>4
  <2> QED
    BY <2>1, <2>2
<1>8. IsFold(h, T, V, G, c, base)
  <2> HIDE DEF h
  <2> QED
    BY <1>6, <1>7 DEF IsFold
<1> QED
  BY <1>2, <1>8

--------------------------------------------------------------------------------
(* Sums.                                                                   *)

LEMMA SumIsFold ==
  ASSUME NEW D, IsFiniteSet(D), NEW f \in [D -> Nat]
  PROVE  \E h, c : /\ Picks(c, D)
                   /\ IsFold(h, D, Nat, [p \in D \X Nat |-> f[p[1]] + p[2]], c, 0)
                   /\ \A T \in SUBSET D : SumFunctionOnSet(f, T) = h[T]
<1> DEFINE c == [s \in SUBSET D |-> CHOOSE x \in s : TRUE]
           G == [p \in D \X Nat |-> f[p[1]] + p[2]]
<1>1. Picks(c, D)
  BY DEF Picks
<1>2. G \in [D \X Nat -> Nat]
  OBVIOUS
<1>a. \A x \in D, n \in Nat : G[<<x, n>>] = f[x] + n
  OBVIOUS
<1>b. \A s \in SUBSET D : c[s] = CHOOSE x \in s : TRUE
  OBVIOUS
<1> HIDE DEF c, G
<1>3. PICK h : IsFold(h, D, Nat, G, c, 0)
  BY <1>1, <1>2, FoldExists
<1>4. ASSUME NEW T \in SUBSET D
      PROVE  SumFunctionOnSet(f, T) = h[T]
  <2> DEFINE body(iter) == [s \in SUBSET T |-> IF s = {} THEN 0
                              ELSE f[CHOOSE x \in s : TRUE] + iter[s \ {CHOOSE x \in s : TRUE}]]
             g == CHOOSE iter : iter = body(iter)
  <2>1. SumFunctionOnSet(f, T) = g[T]
    BY DEF SumFunctionOnSet, FoldFunctionOnSet, MapThenFoldSet
  <2> DEFINE k == [s \in SUBSET T |-> h[s]]
  <2>2. k = body(k)
    <3>1. ASSUME NEW s \in SUBSET T, s # {}
          PROVE  h[s] = f[c[s]] + h[s \ {c[s]}]
      <4>1. c[s] \in s
        BY <1>1, <3>1 DEF Picks
      <4>2. h[s] = G[<<c[s], h[s \ {c[s]}]>>] /\ h[s \ {c[s]}] \in Nat
        BY <1>3, <3>1 DEF IsFold
      <4> QED
        BY <1>a, <4>1, <4>2
    <3>2. h[{}] = 0
      BY <1>3 DEF IsFold
    <3> QED
      BY <1>b, <1>1, <3>1, <3>2 DEF Picks
  <2>3. g = body(g)
    <3> HIDE DEF body, k
    <3> QED
      BY <2>2
  <2>4. Recurs(g, T, Nat, G, c, 0)
    <3>a. \A s \in SUBSET T : g[s] = IF s = {} THEN 0 ELSE f[c[s]] + g[s \ {c[s]}]
      <4> HIDE DEF g
      <4> QED
        BY <2>3, <1>b
    <3> HIDE DEF g
    <3>1. g[{}] = 0
      BY <3>a
    <3>2. ASSUME NEW s \in SUBSET T, s # {}, g[s \ {c[s]}] \in Nat
          PROVE  g[s] = G[<<c[s], g[s \ {c[s]}]>>]
      <4>1. c[s] \in D
        BY <1>1, <3>2 DEF Picks
      <4> QED
        BY <1>a, <3>a, <3>2, <4>1
    <3> QED
      BY <3>1, <3>2 DEF Recurs
  <2> HIDE DEF g
  <2> QED
    BY <1>1, <1>3, <2>1, <2>4, FoldUnique
<1> QED
  BY <1>1, <1>3, <1>4 DEF G

(* f gives a number to each element of the finite set D.                   *)
Summable(f, D) == IsFiniteSet(D) /\ f \in [D -> Nat]

(* The sum over a set is that of any element and that over the others.     *)
LEMMA SumSplits ==
  ASSUME NEW D, NEW f, Summable(f, D)
  PROVE  /\ SumFunctionOnSet(f, {}) = 0
         /\ \A T \in SUBSET D : SumFunctionOnSet(f, T) \in Nat
         /\ \A T \in SUBSET D : \A x \in T :
              SumFunctionOnSet(f, T) = f[x] + SumFunctionOnSet(f, T \ {x})
<1> DEFINE G == [p \in D \X Nat |-> f[p[1]] + p[2]]
<1>b. IsFiniteSet(D) /\ f \in [D -> Nat]
  BY DEF Summable
<1>a. \A x \in D, n \in Nat : G[<<x, n>>] = f[x] + n
  OBVIOUS
<1>1. PICK h, c : /\ Picks(c, D)
                  /\ IsFold(h, D, Nat, G, c, 0)
                  /\ \A T \in SUBSET D : SumFunctionOnSet(f, T) = h[T]
  BY <1>b, SumIsFold
<1> HIDE DEF G
<1>2. h[{}] = 0 /\ \A T \in SUBSET D : h[T] \in Nat
  BY <1>1 DEF IsFold
<1>3. ASSUME NEW T \in SUBSET D, T # {}
      PROVE  c[T] \in T /\ h[T] = f[c[T]] + h[T \ {c[T]}]
  <2>1. c[T] \in T
    BY <1>1, <1>3 DEF Picks
  <2>2. h[T] = G[<<c[T], h[T \ {c[T]}]>>]
    BY <1>1, <1>3 DEF IsFold
  <2> QED
    BY <1>a, <1>2, <2>1, <2>2
<1> DEFINE C == {T \in SUBSET D : \E x \in T : h[T] # f[x] + h[T \ {x}]}
<1>4. C = {}
  <2> SUFFICES ASSUME C # {} PROVE FALSE
    OBVIOUS
  <2>1. PICK T \in C : \A U \in C : U \subseteq T => U = T
    <3>1. C \in SUBSET SUBSET D
      OBVIOUS
    <3> HIDE DEF C
    <3> QED
      BY <1>b, <3>1, LeastSubset
  <2>2. PICK x \in T : h[T] # f[x] + h[T \ {x}]
    OBVIOUS
  <2>3. T \in SUBSET D /\ T # {} /\ x # c[T] /\ c[T] \in T
    BY <1>3, <2>2
  <2> DEFINE R == T \ {c[T]}
             Q == T \ {x}
  <2>4. R \notin C /\ Q \notin C
    BY <2>1, <2>2, <2>3
  <2>5. h[R] = f[x] + h[R \ {x}]
    BY <2>3, <2>4
  <2>6. h[Q] = f[c[T]] + h[Q \ {c[T]}]
    BY <2>3, <2>4
  <2>7. h[R \ {x}] = h[Q \ {c[T]}]
    <3>1. R \ {x} = Q \ {c[T]}
      OBVIOUS
    <3> HIDE DEF R, Q, C
    <3> QED
      BY <3>1, Zenon
  <2>8. h[T] = f[c[T]] + h[R]
    BY <1>3, <2>3
  <2>9. f[x] \in Nat /\ f[c[T]] \in Nat /\ h[R \ {x}] \in Nat
    BY <1>b, <1>2, <2>3
  <2> HIDE DEF R, Q, C
  <2>10. h[T] = f[x] + h[Q]
    BY <2>5, <2>6, <2>7, <2>8, <2>9
  <2> QED
    BY <2>2, <2>10 DEF Q
<1> QED
  BY <1>1, <1>2, <1>4

(* Functions that agree on a set have the same sum over it.                *)
LEMMA SumSame ==
  ASSUME NEW D, NEW f, Summable(f, D), NEW E, NEW g, Summable(g, E),
         NEW T, T \subseteq D, T \subseteq E, \A x \in T : f[x] = g[x]
  PROVE  SumFunctionOnSet(f, T) = SumFunctionOnSet(g, T)
<1> DEFINE F(U) == SumFunctionOnSet(f, U)
           G(U) == SumFunctionOnSet(g, U)
           C == {U \in SUBSET T : F(U) # G(U)}
<1>1. /\ F({}) = G({})
      /\ \A U \in SUBSET T : \A x \in U : F(U) = f[x] + F(U \ {x}) /\ G(U) = g[x] + G(U \ {x})
  BY SumSplits
<1>a. IsFiniteSet(D)
  BY DEF Summable
<1> SUFFICES ASSUME C # {} PROVE FALSE
  OBVIOUS
<1> HIDE DEF F, G
<1>2. PICK U \in C : \A W \in C : W \subseteq U => W = U
  <2>1. C \in SUBSET SUBSET T /\ IsFiniteSet(T)
    BY <1>a, FS_Subset
  <2> HIDE DEF C
  <2> QED
    BY <2>1, LeastSubset
<1>3. U \in SUBSET T /\ F(U) # G(U)
  OBVIOUS
<1>4. PICK x \in U : TRUE
  <2>1. CASE U = {}
    BY <1>1, <1>3, <2>1, Zenon
  <2> QED
    BY <2>1
<1>5. F(U \ {x}) = G(U \ {x})
  BY <1>2, <1>3
<1> QED
  BY <1>1, <1>3, <1>5

(* A sum of zeros.                                                         *)
LEMMA SumOfZeros ==
  ASSUME NEW D, NEW f, Summable(f, D), NEW T, T \subseteq D, \A x \in T : f[x] = 0
  PROVE  SumFunctionOnSet(f, T) = 0
<1> DEFINE F(U) == SumFunctionOnSet(f, U)
           C == {U \in SUBSET T : F(U) # 0}
<1>1. F({}) = 0 /\ \A U \in SUBSET T : \A x \in U : F(U) = f[x] + F(U \ {x})
  BY SumSplits
<1>a. IsFiniteSet(D)
  BY DEF Summable
<1> SUFFICES ASSUME C # {} PROVE FALSE
  OBVIOUS
<1> HIDE DEF F
<1>2. PICK U \in C : \A W \in C : W \subseteq U => W = U
  <2>1. C \in SUBSET SUBSET T /\ IsFiniteSet(T)
    BY <1>a, FS_Subset
  <2> HIDE DEF C
  <2> QED
    BY <2>1, LeastSubset
<1>3. U \in SUBSET T /\ F(U) # 0
  OBVIOUS
<1>4. PICK x \in U : TRUE
  <2>1. CASE U = {}
    BY <1>1, <1>3, <2>1, Zenon
  <2> QED
    BY <2>1
<1>5. F(U \ {x}) = 0
  BY <1>2, <1>3
<1> QED
  BY <1>1, <1>3, <1>5

--------------------------------------------------------------------------------
(* Folds over sequences, from left to right.                               *)

(* h[k] is what there is after k turns, each of which G takes.             *)
IsTurned(h, n, V, G, base) ==
  /\ h \in [0 .. n -> V]
  /\ h[0] = base
  /\ \A k \in 1 .. n : h[k] = G[<<k, h[k - 1]>>]

(* A fold over a sequence adds the highest index last.                     *)
Highest(n) == [s \in SUBSET (1 .. n) |-> CHOOSE x \in s : \A y \in s : x >= y]

LEMMA HighestPicks ==
  ASSUME NEW n \in Nat
  PROVE  /\ Picks(Highest(n), 1 .. n)
         /\ \A k \in 1 .. n : Highest(n)[1 .. k] = k
<1>1. ASSUME NEW s \in SUBSET (1 .. n), s # {}
      PROVE  \E x \in s : \A y \in s : x >= y
  <2> DEFINE T == {n - x : x \in s}
  <2>a. \A x \in s : n - x \in Nat
    OBVIOUS
  <2>b. PICK x0 \in s : TRUE
    BY <1>1
  <2>c. n - x0 \in T
    OBVIOUS
  <2>1. T \in SUBSET Nat /\ T # {}
    <3>1. T \in SUBSET Nat
      BY <2>a
    <3> QED
      BY <3>1, <2>c
  <2>2. PICK m \in T : \A k \in T : m <= k
    <3> HIDE DEF T
    <3> QED
      BY <2>1, LeastNatural
  <2>3. PICK x \in s : m = n - x
    OBVIOUS
  <2>4. \A y \in s : n - x <= n - y
    BY <2>2, <2>3
  <2> HIDE DEF T
  <2>5. \A y \in s : x >= y
    <3> SUFFICES ASSUME NEW y \in s PROVE x >= y
      OBVIOUS
    <3>1. x \in 1 .. n /\ y \in 1 .. n /\ n - x <= n - y
      BY <2>4
    <3> QED
      BY <3>1
  <2> QED
    BY <2>5
<1>2. ASSUME NEW s \in SUBSET (1 .. n), s # {}
      PROVE  Highest(n)[s] \in s /\ \A y \in s : Highest(n)[s] >= y
  <2> DEFINE P(x) == x \in s /\ \A y \in s : x >= y
  <2>1. Highest(n)[s] = CHOOSE x \in s : \A y \in s : x >= y
    BY DEF Highest
  <2>2. \E x \in s : \A y \in s : x >= y
    BY <1>1, <1>2
  <2> QED
    BY <2>1, <2>2
<1>3. ASSUME NEW k \in 1 .. n
      PROVE  Highest(n)[1 .. k] = k
  <2>1. 1 .. k \in SUBSET (1 .. n) /\ 1 .. k # {} /\ k \in 1 .. k
    OBVIOUS
  <2>2. Highest(n)[1 .. k] \in 1 .. k /\ Highest(n)[1 .. k] >= k
    BY <1>2, <2>1
  <2> QED
    BY <2>2
<1> QED
  BY <1>2, <1>3 DEF Picks

(* What IsFold, Recurs and the type of G say of the indices 1 .. n.         *)
IsTurn(G, n, V) == G \in [(1 .. n) \X V -> V]
IsIndexFold(f, n, V, G, base) == IsFold(f, 1 .. n, V, G, Highest(n), base)
RecursByIndex(g, n, V, G, base) == Recurs(g, 1 .. n, V, G, Highest(n), base)

LEMMA FoldTurns ==
  ASSUME NEW n \in Nat, NEW V, NEW G, IsTurn(G, n, V), NEW base \in V
  PROVE  \E f, h : /\ IsIndexFold(f, n, V, G, base)
                   /\ IsTurned(h, n, V, G, base)
                   /\ f[1 .. n] = h[n]
<1>0. G \in [(1 .. n) \X V -> V]
  BY DEF IsTurn
<1>1. Picks(Highest(n), 1 .. n) /\ \A k \in 1 .. n : Highest(n)[1 .. k] = k
  BY HighestPicks
<1>2. IsFiniteSet(1 .. n)
  BY FS_Interval
<1>3. PICK f : IsFold(f, 1 .. n, V, G, Highest(n), base)
  BY <1>0, <1>1, <1>2, FoldExists
<1> DEFINE h == [k \in 0 .. n |-> f[1 .. k]]
<1>4. /\ f \in [SUBSET (1 .. n) -> V]
      /\ \A s \in SUBSET (1 .. n) :
           f[s] = IF s = {} THEN base ELSE G[<<Highest(n)[s], f[s \ {Highest(n)[s]}]>>]
  BY <1>3 DEF IsFold
<1>5. \A k \in 0 .. n : 1 .. k \in SUBSET (1 .. n)
  OBVIOUS
<1>6. h \in [0 .. n -> V]
  BY <1>4, <1>5
<1>7. h[0] = base
  <2>1. 1 .. 0 = {} /\ 0 \in 0 .. n
    OBVIOUS
  <2> QED
    BY <1>4, <2>1
<1>8. ASSUME NEW k \in 1 .. n
      PROVE  h[k] = G[<<k, h[k - 1]>>]
  <2>0. k \in Nat /\ k \in 1 .. k
    OBVIOUS
  <2>1. k \in 0 .. n /\ k - 1 \in 0 .. n
    OBVIOUS
  <2>2. (1 .. k) \ {k} = 1 .. (k - 1)
    BY <2>0
  <2>3. 1 .. k # {}
    BY <2>0
  <2>4. f[1 .. k] = G[<<k, f[(1 .. k) \ {k}]>>]
    BY <1>1, <1>4, <1>5, <2>1, <2>3
  <2>5. h[k] = f[1 .. k] /\ h[k - 1] = f[1 .. (k - 1)]
    BY <2>1
  <2> HIDE DEF h
  <2> QED
    BY <2>2, <2>4, <2>5
<1>9. f[1 .. n] = h[n]
  OBVIOUS
<1> HIDE DEF h
<1>10. IsTurned(h, n, V, G, base)
  BY <1>6, <1>7, <1>8 DEF IsTurned
<1> QED
  BY <1>3, <1>9, <1>10 DEF IsIndexFold

(* What holds before the first turn and is kept by every turn holds after  *)
(* the last one.                                                           *)
LEMMA TurnsKeep ==
  ASSUME NEW n \in Nat, NEW h, NEW W, h[0] \in W[0],
         \A k \in 1 .. n : h[k - 1] \in W[k - 1] => h[k] \in W[k]
  PROVE  \A k \in 0 .. n : h[k] \in W[k]
<1> DEFINE C == {k \in 0 .. n : h[k] \notin W[k]}
<1> SUFFICES ASSUME C # {} PROVE FALSE
  OBVIOUS
<1>1. C \in SUBSET Nat
  OBVIOUS
<1>2. PICK k \in C : \A m \in C : k <= m
  <2> HIDE DEF C
  <2> QED
    BY <1>1, LeastNatural
<1>3. k \in 0 .. n /\ h[k] \notin W[k]
  OBVIOUS
<1>4. k \in 1 .. n /\ k - 1 \in 0 .. n
  BY <1>3
<1>5. k - 1 \notin C
  <2> HIDE DEF C
  <2> QED
    BY <1>2, <1>4
<1>6. h[k - 1] \in W[k - 1]
  BY <1>4, <1>5
<1> QED
  BY <1>3, <1>4, <1>6

(* A function that meets the recursive equation of a fold over the indices *)
(* of a sequence of length n is what the turns lead to.                    *)
LEMMA FoldIsTurned ==
  ASSUME NEW n \in Nat, NEW V, NEW G, IsTurn(G, n, V), NEW base \in V,
         NEW g, RecursByIndex(g, n, V, G, base)
  PROVE  \E h : IsTurned(h, n, V, G, base) /\ g[1 .. n] = h[n]
<1>1. Picks(Highest(n), 1 .. n)
  BY HighestPicks
<1>2. IsFiniteSet(1 .. n)
  BY FS_Interval
<1>3. PICK f, h : /\ IsIndexFold(f, n, V, G, base)
                  /\ IsTurned(h, n, V, G, base)
                  /\ f[1 .. n] = h[n]
  BY FoldTurns
<1>4. g[1 .. n] = f[1 .. n]
  <2> DEFINE D == 1 .. n
             c == Highest(n)
  <2>1. IsFold(f, D, V, G, c, base) /\ Recurs(g, D, V, G, c, base)
    BY <1>3 DEF IsIndexFold, RecursByIndex
  <2>2. Picks(c, D) /\ IsFiniteSet(D)
    BY <1>1, <1>2
  <2> HIDE DEF D, c
  <2>3. \A s \in SUBSET D : g[s] = f[s]
    BY <2>1, <2>2, FoldUnique
  <2>4. g[D] = f[D]
    BY <2>3
  <2> QED
    BY <2>4 DEF D
<1> QED
  BY <1>3, <1>4

================================================================================
